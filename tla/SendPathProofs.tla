--------------------------- MODULE SendPathProofs ---------------------------
(***************************************************************************)
(* What holds of the carrier's targets and of the bitmap for every number  *)
(* of targets, every size and every number of kills and reloads.           *)
(***************************************************************************)
EXTENDS SendPath, TargetProofs, WellFoundedInduction

-----------------------------------------------------------------------------
(* Sums over sequences.                                                    *)

\* A set of numbers that has 0 and with every number the next has them all:
\* induction, without an operator for the claim.
LEMMA Steps ==
  ASSUME NEW T, 0 \in T, \A n \in Nat : n \in T => n + 1 \in T
  PROVE  \A n \in Nat : n \in T
<1> DEFINE R == {ss \in Nat \X Nat : ss[1] < ss[2]}
<1>1. OpToRel(<, Nat) = R
  BY Zenon DEF OpToRel
<1>2. IsWellFoundedOn(R, Nat)
  BY <1>1, NatLessThanWellFounded
<1>3. SUFFICES ASSUME {n \in Nat : n \notin T} # {} PROVE FALSE
  OBVIOUS
<1> DEFINE S == {n \in Nat : n \notin T}
<1>4. PICK x \in S : \A y \in S : <<y, x>> \notin R
  <2> HIDE DEF R
  <2>1. S \subseteq Nat /\ S # {}
    BY <1>3
  <2> HIDE DEF S
  <2>2. QED
    BY <1>2, <2>1, WFMin
<1>5. x # 0 /\ x \in Nat /\ x - 1 \in Nat /\ x - 1 + 1 = x
  OBVIOUS
<1>6. x - 1 \notin S
  <2>1. <<x - 1, x>> \in Nat \X Nat /\ <<x - 1, x>>[1] = x - 1 /\ <<x - 1, x>>[2] = x
    BY <1>5
  <2>2. QED
    BY <1>4, <1>5, <2>1
<1>7. QED
  BY <1>5, <1>6

\* The partial sums of a sequence of numbers.
Sums(w) == CHOOSE f : f = [i \in 0 .. Len(w) |-> IF i = 0 THEN 0 ELSE f[i - 1] + w[i]]

LEMMA SumExists ==
  ASSUME NEW w \in Seq(Nat)
  PROVE  \E f \in [0 .. Len(w) -> Nat] : f = [i \in 0 .. Len(w) |-> IF i = 0 THEN 0 ELSE f[i - 1] + w[i]]
<1> DEFINE Good(n) == \E f \in [0 .. n -> Nat] : f = [i \in 0 .. n |-> IF i = 0 THEN 0 ELSE f[i - 1] + w[i]]
<1> DEFINE T == {n \in Nat : n <= Len(w) => Good(n)}
<1>1. 0 \in T
  <2> DEFINE f == [i \in 0 .. 0 |-> 0]
  <2>1. f \in [0 .. 0 -> Nat] /\ f = [i \in 0 .. 0 |-> IF i = 0 THEN 0 ELSE f[i - 1] + w[i]]
    OBVIOUS
  <2>2. QED
    BY <2>1
<1>2. ASSUME NEW n \in Nat, n \in T PROVE n + 1 \in T
  <2> HIDE DEF Good
  <2>1. SUFFICES ASSUME n + 1 <= Len(w) PROVE Good(n + 1)
    OBVIOUS
  <2>1a. Good(n)
    BY <1>2, <2>1
  <2> USE DEF Good
  <2>2. PICK f \in [0 .. n -> Nat] : f = [i \in 0 .. n |-> IF i = 0 THEN 0 ELSE f[i - 1] + w[i]]
    BY Zenon, <2>1a
  <2> DEFINE g == [i \in 0 .. n + 1 |-> IF i = n + 1 THEN f[n] + w[n + 1] ELSE f[i]]
  <2>3. g \in [0 .. n + 1 -> Nat]
    <3>1. n \in 0 .. n /\ n + 1 \in 1 .. Len(w) /\ f[n] \in Nat /\ w[n + 1] \in Nat
      BY <2>1
    <3>2. f[n] + w[n + 1] \in Nat
      BY <3>1
    <3>3. \A i \in 0 .. n + 1 : i # n + 1 => i \in 0 .. n
      OBVIOUS
    <3>4. \A i \in 0 .. n + 1 : (IF i = n + 1 THEN f[n] + w[n + 1] ELSE f[i]) \in Nat
      BY <3>2, <3>3
    <3>5. QED
      BY <3>4
  <2>4. ASSUME NEW i \in 0 .. n + 1 PROVE g[i] = IF i = 0 THEN 0 ELSE g[i - 1] + w[i]
    <3>1. CASE i = n + 1
      <4>1. i # 0 /\ i - 1 = n /\ i - 1 \in 0 .. n + 1 /\ i - 1 # n + 1
        BY <3>1
      <4>2. g[i - 1] = f[n] /\ g[i] = f[n] + w[n + 1]
        BY <3>1, <4>1
      <4>3. QED
        BY <3>1, <4>1, <4>2
    <3>2. CASE i # n + 1
      <4>1. i \in 0 .. n /\ g[i] = f[i]
        BY <3>2
      <4>2. f[i] = IF i = 0 THEN 0 ELSE f[i - 1] + w[i]
        <5> DEFINE h(j) == IF j = 0 THEN 0 ELSE f[j - 1] + w[j]
        <5>1. f = [j \in 0 .. n |-> h(j)]
          BY <2>2
        <5> HIDE DEF h
        <5>2. f[i] = h(i)
          BY <4>1, <5>1
        <5>3. QED
          BY <5>2 DEF h
      <4>3. i # 0 => g[i - 1] = f[i - 1]
        BY <3>2
      <4>4. QED
        BY <4>1, <4>2, <4>3
    <3>3. QED
      BY <3>1, <3>2
  <2>5. g = [i \in 0 .. n + 1 |-> IF i = 0 THEN 0 ELSE g[i - 1] + w[i]]
    BY <2>4
  <2> HIDE DEF g
  <2>6. QED
    BY <2>3, <2>5
<1> HIDE DEF T
<1>3. \A n \in Nat : n \in T
  BY <1>1, <1>2, Steps
<1>4. Len(w) \in T
  BY <1>3
<1>5. QED
  BY <1>4 DEF T


LEMMA SumsStep ==
  ASSUME NEW w \in Seq(Nat)
  PROVE  /\ Sums(w) \in [0 .. Len(w) -> Nat] /\ Sums(w)[0] = 0
         /\ \A i \in 1 .. Len(w) : Sums(w)[i] = Sums(w)[i - 1] + w[i]
<1> DEFINE f == Sums(w)
<1>1. f = [i \in 0 .. Len(w) |-> IF i = 0 THEN 0 ELSE f[i - 1] + w[i]]
  BY Zenon, SumExists DEF Sums
<1> HIDE DEF f
<1>2. /\ DOMAIN f = 0 .. Len(w)
      /\ \A i \in 0 .. Len(w) : f[i] = IF i = 0 THEN 0 ELSE f[i - 1] + w[i]
  <2> DEFINE h(j) == IF j = 0 THEN 0 ELSE f[j - 1] + w[j]
  <2>1. f = [j \in 0 .. Len(w) |-> h(j)]
    BY <1>1
  <2> HIDE DEF h
  <2>2. DOMAIN f = 0 .. Len(w) /\ \A i \in 0 .. Len(w) : f[i] = h(i)
    BY <2>1
  <2>3. QED
    BY <2>2 DEF h
<1> DEFINE T == {n \in Nat : n <= Len(w) => f[n] \in Nat}
<1>3. 0 \in T
  BY <1>2
<1>4. ASSUME NEW n \in Nat, n \in T PROVE n + 1 \in T
  <2>1. SUFFICES ASSUME n + 1 <= Len(w) PROVE f[n + 1] \in Nat
    OBVIOUS
  <2>2. f[n] \in Nat /\ w[n + 1] \in Nat
    BY <1>4, <2>1
  <2> DEFINE m == n + 1
  <2>3. m \in 0 .. Len(w) /\ m # 0 /\ m - 1 = n
    BY <2>1
  <2> HIDE DEF m
  <2>4. f[m] = f[n] + w[m]
    BY <1>2, <2>3
  <2>5. QED
    BY <2>2, <2>4 DEF m
<1> HIDE DEF T
<1>5. \A n \in Nat : n \in T
  BY <1>3, <1>4, Steps
<1>6. \A i \in 0 .. Len(w) : f[i] \in Nat
  BY <1>5 DEF T
<1>7. f \in [0 .. Len(w) -> Nat]
  <2>1. f = [i \in 0 .. Len(w) |-> f[i]]
    BY <1>1, <1>2
  <2>2. QED
    BY <1>6, <2>1
<1>8. f[0] = 0 /\ \A i \in 1 .. Len(w) : f[i] = f[i - 1] + w[i]
  BY <1>2
<1>9. QED
  BY <1>7, <1>8 DEF f

LEMMA SumsNext ==
  ASSUME NEW w \in Seq(Nat), NEW n \in Nat, n + 1 <= Len(w)
  PROVE  /\ Sums(w)[n] \in Nat /\ w[n + 1] \in Nat
         /\ Sums(w)[n + 1] = Sums(w)[n] + w[n + 1]
<1> DEFINE m == n + 1
<1>1. n \in 0 .. Len(w) /\ m \in 1 .. Len(w) /\ m - 1 = n
  OBVIOUS
<1> HIDE DEF m
<1>2. Sums(w)[m] = Sums(w)[m - 1] + w[m]
  BY Zenon, <1>1, SumsStep
<1>3. Sums(w)[n] \in Nat
  BY Zenon, <1>1, SumsStep
<1>4. w[m] \in Nat
  BY <1>1
<1>5. QED
  BY <1>1, <1>2, <1>3, <1>4 DEF m

LEMMA TotalIs ==
  ASSUME NEW w \in Seq(Nat)
  PROVE  Total(w) = Sums(w)[Len(w)] /\ Total(w) \in Nat
<1>1. Total(w) = Sums(w)[Len(w)]
  BY DEF Total, Sums
<1>2. QED
  BY <1>1, SumsStep

\* A number more at the end.
LEMMA TotalAppend ==
  ASSUME NEW w \in Seq(Nat), NEW x \in Nat
  PROVE  Total(Append(w, x)) = Total(w) + x
<1> DEFINE v == Append(w, x)
<1>1. /\ v \in Seq(Nat) /\ Len(v) = Len(w) + 1 /\ v[Len(v)] = x /\ Len(w) \in Nat
      /\ \A i \in 1 .. Len(w) : v[i] = w[i]
  OBVIOUS
<1> HIDE DEF v
<1> DEFINE T == {n \in Nat : n <= Len(w) => Sums(v)[n] = Sums(w)[n]}
<1>2. 0 \in T
  BY <1>1, SumsStep
<1>3. ASSUME NEW n \in Nat, n \in T PROVE n + 1 \in T
  <2>1. SUFFICES ASSUME n + 1 <= Len(w) PROVE Sums(v)[n + 1] = Sums(w)[n + 1]
    OBVIOUS
  <2>2. Sums(v)[n] = Sums(w)[n]
    BY <1>3, <2>1
  <2>3. n + 1 \in 1 .. Len(w) /\ n + 1 <= Len(v)
    BY <2>1, <1>1
  <2>4. Sums(v)[n + 1] = Sums(v)[n] + v[n + 1] /\ Sums(w)[n + 1] = Sums(w)[n] + w[n + 1]
    BY <2>1, <2>3, <1>1, SumsNext
  <2>5. QED
    BY <2>2, <2>3, <2>4, <1>1
<1> HIDE DEF T
<1>4. \A n \in Nat : n \in T
  BY <1>2, <1>3, Steps
<1>5. Sums(v)[Len(w)] = Sums(w)[Len(w)]
  BY <1>1, <1>4 DEF T
<1>6. Len(v) \in 1 .. Len(v) /\ Len(v) - 1 = Len(w)
  BY <1>1
<1>7. Sums(v)[Len(v)] = Sums(v)[Len(w)] + x
  BY <1>1, <1>6, SumsStep
<1>8. QED
  BY <1>1, <1>5, <1>7, TotalIs DEF v

\* A number less at the start.
LEMMA TotalTail ==
  ASSUME NEW w \in Seq(Nat), w # <<>>
  PROVE  Total(w) = w[1] + Total(Tail(w))
<1> DEFINE v == Tail(w)
<1>1. /\ v \in Seq(Nat) /\ Len(w) = Len(v) + 1 /\ Len(v) \in Nat /\ w[1] \in Nat
      /\ \A i \in 1 .. Len(v) : v[i] = w[i + 1]
  OBVIOUS
<1> HIDE DEF v
<1> DEFINE T == {n \in Nat : n <= Len(v) => Sums(w)[n + 1] = w[1] + Sums(v)[n]}
<1>2. 0 \in T
  <2>1. 1 \in 1 .. Len(w) /\ 1 - 1 = 0 /\ 0 + 1 = 1
    BY <1>1
  <2>2. Sums(w)[1] = 0 + w[1] /\ Sums(v)[0] = 0
    BY <1>1, <2>1, SumsStep, SMTT(30)
  <2>3. QED
    BY <1>1, <2>1, <2>2
<1>3. ASSUME NEW n \in Nat, n \in T PROVE n + 1 \in T
  <2>1. SUFFICES ASSUME n + 1 <= Len(v) PROVE Sums(w)[n + 2] = w[1] + Sums(v)[n + 1]
    OBVIOUS
  <2>2. Sums(w)[n + 1] = w[1] + Sums(v)[n]
    BY <1>3, <2>1
  <2>3. Sums(v)[n] \in Nat /\ v[n + 1] \in Nat /\ Sums(v)[n + 1] = Sums(v)[n] + v[n + 1]
    BY <2>1, <1>1, SumsNext
  <2>4. n + 1 \in Nat /\ n + 1 + 1 <= Len(w) /\ n + 1 + 1 = n + 2 /\ n + 1 \in 1 .. Len(v)
    BY <2>1, <1>1
  <2>5. Sums(w)[n + 2] = Sums(w)[n + 1] + w[n + 2] /\ v[n + 1] = w[n + 2]
    BY <2>4, <1>1, SumsNext
  <2>6. QED
    BY <2>2, <2>3, <2>5, <1>1
<1> HIDE DEF T
<1>4. \A n \in Nat : n \in T
  BY <1>2, <1>3, Steps
<1>5. Sums(w)[Len(v) + 1] = w[1] + Sums(v)[Len(v)]
  BY <1>1, <1>4 DEF T
<1>6. QED
  BY <1>1, <1>5, TotalIs DEF v

LEMMA AddUp ==
  ASSUME NEW a \in Nat, NEW b \in Nat, NEW n \in Nat, NEW c \in Nat,
         NEW s \in Nat, NEW r \in Nat, NEW x \in Nat, NEW y \in Nat,
         a <= s, r <= s + b, n <= x, y <= x + c
  PROVE  a + n <= s + x /\ r + y <= s + x + (b + c)
  OBVIOUS

\* Numbers that are at least n each, and others that are at most c larger.
LEMMA TotalBounds ==
  ASSUME NEW w \in Seq(Nat), NEW v \in Seq(Nat), Len(v) = Len(w), NEW n \in Nat, NEW c \in Nat,
         \A i \in 1 .. Len(w) : n <= w[i] /\ v[i] <= w[i] + c
  PROVE  n * Len(w) <= Total(w) /\ Total(v) <= Total(w) + c * Len(w)
<1> DEFINE T == {i \in Nat : i <= Len(w) => n * i <= Sums(w)[i] /\ Sums(v)[i] <= Sums(w)[i] + c * i}
<1>1. 0 \in T
  <2>1. Sums(w)[0] = 0 /\ Sums(v)[0] = 0 /\ n * 0 = 0 /\ c * 0 = 0
    BY SumsStep
  <2>2. QED
    BY <2>1
<1>2. ASSUME NEW i \in Nat, i \in T PROVE i + 1 \in T
  <2>1. SUFFICES ASSUME i + 1 <= Len(w)
                 PROVE  n * (i + 1) <= Sums(w)[i + 1] /\ Sums(v)[i + 1] <= Sums(w)[i + 1] + c * (i + 1)
    OBVIOUS
  <2>2. n * i <= Sums(w)[i] /\ Sums(v)[i] <= Sums(w)[i] + c * i
    BY <1>2, <2>1
  <2>3. i + 1 \in 1 .. Len(w) /\ i + 1 - 1 = i /\ i \in 0 .. Len(w)
    BY <2>1
  <2>4. Sums(w)[i + 1] = Sums(w)[i] + w[i + 1] /\ Sums(v)[i + 1] = Sums(v)[i] + v[i + 1]
    BY <2>1, SumsNext
  <2>5. /\ Sums(w)[i] \in Nat /\ Sums(v)[i] \in Nat /\ w[i + 1] \in Nat /\ v[i + 1] \in Nat
        /\ n <= w[i + 1] /\ v[i + 1] <= w[i + 1] + c
    BY <2>1, <2>3, SumsNext
  <2>6. n * (i + 1) = n * i + n /\ c * (i + 1) = c * i + c /\ n * i \in Nat /\ c * i \in Nat
    OBVIOUS
  <2> DEFINE a == n * i
  <2> DEFINE b == c * i
  <2>7. a \in Nat /\ b \in Nat /\ a <= Sums(w)[i] /\ Sums(v)[i] <= Sums(w)[i] + b
    BY <2>2, <2>6
  <2> HIDE DEF a, b
  <2>8. a + n <= Sums(w)[i + 1] /\ Sums(v)[i + 1] <= Sums(w)[i + 1] + (b + c)
    <3> DEFINE s == Sums(w)[i]
    <3> DEFINE r == Sums(v)[i]
    <3> DEFINE x == w[i + 1]
    <3> DEFINE y == v[i + 1]
    <3>1. /\ s \in Nat /\ r \in Nat /\ x \in Nat /\ y \in Nat /\ a \in Nat /\ b \in Nat
          /\ a <= s /\ r <= s + b /\ n <= x /\ y <= x + c
      BY <2>5, <2>7
    <3>2. Sums(w)[i + 1] = s + x /\ Sums(v)[i + 1] = r + y
      BY <2>4
    <3> HIDE DEF s, r, x, y
    <3>3. a + n <= s + x /\ r + y <= s + x + (b + c)
      BY <3>1, AddUp
    <3>4. QED
      BY <3>2, <3>3
  <2>9. QED
    BY <2>6, <2>8 DEF a, b
<1> HIDE DEF T
<1>3. \A i \in Nat : i \in T
  BY <1>1, <1>2, Steps
<1>4. Len(w) \in Nat /\ Len(w) \in T
  BY <1>3
<1>5. n * Len(w) <= Sums(w)[Len(w)] /\ Sums(v)[Len(w)] <= Sums(w)[Len(w)] + c * Len(w)
  BY <1>4 DEF T
<1>6. QED
  BY <1>5, TotalIs

LEMMA TotalNone == Total(<<>>) = 0
<1>1. <<>> \in Seq(Nat) /\ Len(<<>>) = 0
  OBVIOUS
<1>2. QED
  BY <1>1, TotalIs, SumsStep

-----------------------------------------------------------------------------
(* The targets, the bitmap and the sending list.                           *)

BitIsBlock == \A id \in Ids : bits[id] = targets[id].block

LEMMA Lengths == InnerLens \subseteq 1 .. PackMax /\ \A p \in Packet : p.to \in Ids /\ p.len \in 1 .. PackMax
  BY LensAssumption DEF Packet

\* The bitmap follows the targets through every handler.
LEMMA BitsFollow ==
  ASSUME targets \in [Ids -> Target], bits \in [Ids -> BOOLEAN], BitIsBlock,
         NEW new, new \in [Ids -> Target], \A id \in Ids : Consistent(new[id])
  PROVE  /\ BitsAfter(new) \in [Ids -> BOOLEAN]
         /\ \A id \in Ids : BitsAfter(new)[id] = new[id].block
<1>1. ASSUME NEW id \in Ids
      PROVE  /\ new[id].block \in BOOLEAN /\ bits[id] \in BOOLEAN
             /\ BitsAfter(new)[id] = new[id].block
  <2>1. new[id] \in Target /\ new[id].block \in BOOLEAN /\ bits[id] \in BOOLEAN
    BY DEF Target
  <2>2. new[id].conn = "none" => ~new[id].block
    BY <2>1 DEF Consistent
  <2>3. bits[id] = targets[id].block
    BY DEF BitIsBlock
  <2>4. QED
    BY <2>1, <2>2, <2>3 DEF BitsAfter
<1>2. QED
  BY <1>1 DEF BitsAfter

\* Every handler starts from the target as it is.
LEMMA NowIs ==
  ASSUME NEW id \in Ids, Consistent(targets[id])
  PROVE  /\ Consistent(Now[id]) /\ Now[id] \in Target /\ ~Now[id].dropped
         /\ Now[id].conn = targets[id].conn /\ Now[id].len = targets[id].len
         /\ Now[id].data = targets[id].data /\ Now[id].block = targets[id].block
         /\ Now[id].listed = targets[id].listed
         /\ Listed(targets[id]) => Listed(Now[id])
<1> DEFINE t == targets[id]
<1> DEFINE r == Now[id]
<1>1. r = [t EXCEPT !.dropped = FALSE]
  BY DEF Now
<1>2. t \in Target
  BY DEF Consistent
<1> HIDE DEF r
<1>3. /\ r \in Target /\ ~r.dropped /\ r.conn = t.conn /\ r.len = t.len
      /\ r.data = t.data /\ r.block = t.block /\ r.listed = t.listed
  BY ONLY <1>1, <1>2 DEF Target
<1>4. Consistent(r) /\ (Listed(t) => Listed(r))
  BY <1>3 DEF Consistent, Listed
<1>5. QED
  BY <1>3, <1>4 DEF r

LEMMA NowType == Now = [id \in Ids |-> Now[id]] /\ Nothing \in [Ids -> Nat] /\ \A id \in Ids : Nothing[id] = 0
  BY DEF Now, Nothing

LEMMA Counts ==
  ASSUME NEW n \in Nat
  PROVE  /\ Counted(n) \in 0 .. OwnRoom + 1 /\ OwnRoom \in Nat
         /\ Counted(n) <= OwnRoom => Counted(n) = n
         /\ n \in 0 .. OwnRoom + 1 => Counted(n) = n
  BY LensAssumption DEF Counted

\* A handler of a carrier that is up leaves every target as it should be.
LEMMA HandlerStep ==
  ASSUME Sound, running, NEW new, new \in [Ids -> Target], NEW put \in [Ids -> Nat],
         Becomes(new, put),
         \A id \in Ids : Consistent(new[id]),
         reloads' = 0 => \A id \in Ids : Listed(targets[id]) => Listed(new[id]),
         chan' \in Seq(Packet), walk' \in [left : SUBSET Ids, del : BOOLEAN],
         walk'.del => reloads' > 0,
         reloads' \in 0 .. MaxReload, reloads' >= reloads, kills' \in 0 .. MaxKill
  PROVE  Sound'
<1>1. /\ targets' = new /\ bits' = BitsAfter(new) /\ UNCHANGED <<sending, running>>
      /\ own' = [id \in Ids |-> IF new[id].block THEN Counted(own[id] + put[id]) ELSE 0]
  BY DEF Becomes
<1>2. BitsAfter(new) \in [Ids -> BOOLEAN] /\ \A id \in Ids : BitsAfter(new)[id] = new[id].block
  <2>1. targets \in [Ids -> Target] /\ bits \in [Ids -> BOOLEAN] /\ BitIsBlock
    BY DEF Sound, TypeOK, BitMeansBacklog, BitIsBlock
  <2>2. QED
    BY <2>1, BitsFollow
<1>3. TypeOK'
  <2>1. \A id \in Ids : new[id].len > 0 => new[id].data < new[id].len
    BY DEF Consistent
  <2>2. own' \in [Ids -> 0 .. OwnRoom + 1]
    <3>1. ASSUME NEW id \in Ids
          PROVE  (IF new[id].block THEN Counted(own[id] + put[id]) ELSE 0) \in 0 .. OwnRoom + 1
      <4>1. own[id] + put[id] \in Nat /\ OwnRoom \in Nat
        BY LensAssumption DEF Sound, TypeOK
      <4> DEFINE k == own[id] + put[id]
      <4> HIDE DEF k
      <4>2. Counted(k) \in 0 .. OwnRoom + 1
        BY <4>1, Counts DEF k
      <4>3. QED
        BY <4>1, <4>2 DEF k
    <3>2. QED
      BY <3>1, <1>1
  <2>3. QED
    BY <2>1, <2>2, <1>1, <1>2 DEF Sound, TypeOK
<1>4. BitMeansBacklog'
  <2>1. ASSUME NEW id \in Ids, new[id].block
        PROVE  new[id].conn = "done" /\ new[id].data > 0
    BY <2>1 DEF Consistent, Target
  <2>2. QED
    BY <2>1, <1>1, <1>2 DEF BitMeansBacklog
<1>5. BacklogIsListed'
  <2>1. SUFFICES ASSUME reloads' = 0 PROVE \A id \in Ids : Listed(new[id])
    BY <1>1 DEF BacklogIsListed, Listed
  <2>2. reloads = 0
    BY <2>1 DEF Sound, TypeOK
  <2>3. QED
    BY <2>1, <2>2 DEF Sound, BacklogIsListed, Listed
<1>6. QED
  BY <1>1, <1>3, <1>4, <1>5 DEF Sound

\* What a handler of a single target writes.
LEMMA OneTarget ==
  ASSUME Sound, NEW id \in Ids, NEW t \in Target
  PROVE  LET new == [Now EXCEPT ![id] = t] IN
         /\ new \in [Ids -> Target] /\ new[id] = t
         /\ \A j \in Ids : j # id => new[j] = Now[j]
<1>1. \A j \in Ids : Now[j] \in Target
  BY NowIs DEF Sound
<1>2. QED
  BY <1>1, NowType

\* The same for a handler of a single target.
LEMMA HandlerOf ==
  ASSUME Sound, running, NEW id \in Ids, NEW t, NEW put \in [Ids -> Nat],
         Becomes([Now EXCEPT ![id] = t], put),
         Consistent(t), reloads' = 0 => (Listed(targets[id]) => Listed(t)),
         chan' \in Seq(Packet), walk' \in [left : SUBSET Ids, del : BOOLEAN],
         walk'.del => reloads' > 0, UNCHANGED bounds
  PROVE  Sound'
<1> DEFINE new == [Now EXCEPT ![id] = t]
<1>1. /\ t \in Target /\ \A j \in Ids : Consistent(targets[j])
      /\ reloads \in 0 .. MaxReload /\ kills \in 0 .. MaxKill
  BY DEF Sound, TypeOK, Consistent
<1>2. new \in [Ids -> Target] /\ new[id] = t /\ \A j \in Ids : j # id => new[j] = Now[j]
  BY <1>1, OneTarget
<1>3. Becomes(new, put)
  OBVIOUS
<1>4. reloads' = reloads /\ kills' = kills
  BY DEF bounds
<1> HIDE DEF new
<1>5. \A j \in Ids : Consistent(new[j]) /\ (j # id => (Listed(targets[j]) => Listed(new[j])))
  BY <1>1, <1>2, NowIs
<1>6. reloads' = 0 => \A j \in Ids : Listed(targets[j]) => Listed(new[j])
  BY <1>2, <1>5
<1>7. reloads' >= reloads
  BY <1>1, <1>4
<1>8. QED
  BY <1>1, <1>2, <1>3, <1>4, <1>5, <1>6, <1>7, HandlerStep

LEMMA HandlerAt ==
  ASSUME Sound, running, NEW id \in Ids, NEW S, BecomesAt(id, S),
         \A t \in S : Consistent(t) /\ (reloads' = 0 => (Listed(targets[id]) => Listed(t))),
         chan' \in Seq(Packet), walk' \in [left : SUBSET Ids, del : BOOLEAN],
         walk'.del => reloads' > 0, UNCHANGED bounds
  PROVE  Sound'
<1>1. PICK t \in S : Becomes([Now EXCEPT ![id] = t], Nothing)
  BY DEF BecomesAt
<1>2. Nothing \in [Ids -> Nat]
  BY NowType
<1>3. QED
  BY <1>1, <1>2, HandlerOf

-----------------------------------------------------------------------------
(* The handlers.                                                           *)

\* What the invariant gives to every handler.
LEMMA Given ==
  ASSUME Sound
  PROVE  /\ chan \in Seq(Packet) /\ walk \in [left : SUBSET Ids, del : BOOLEAN]
         /\ targets \in [Ids -> Target]
         /\ \A id \in Ids : Consistent(targets[id])
         /\ reloads \in 0 .. MaxReload /\ kills \in 0 .. MaxKill
         /\ own \in [Ids -> 0 .. OwnRoom + 1]
         /\ walk.del => reloads > 0
  BY DEF Sound, TypeOK

LEMMA GivenNow ==
  ASSUME Sound, NEW id \in Ids
  PROVE  /\ Consistent(Now[id]) /\ Now[id] \in Target /\ ~Now[id].dropped
         /\ Now[id].conn = targets[id].conn /\ Now[id].len = targets[id].len
         /\ Now[id].data = targets[id].data /\ Now[id].block = targets[id].block
         /\ Listed(targets[id]) => Listed(Now[id])
  BY Given, NowIs

LEMMA WalkType == \A del \in BOOLEAN : Walk(del) \in [left : SUBSET Ids, del : BOOLEAN] /\ Walk(del).del = del
  BY DEF Walk

LEMMA DispatchBridgeStep ==
  ASSUME Sound, DispatchBridge
  PROVE  Sound'
<1> DEFINE p == Head(chan)
<1>1. /\ running /\ chan' = Tail(chan) /\ chan # <<>> /\ UNCHANGED <<walk, bounds>>
      /\ BecomesAt(p.to, Dispatch(Now[p.to], p.len))
  BY DEF DispatchBridge, Fetch, Ready
<1>2. p \in Packet /\ chan' \in Seq(Packet)
  BY <1>1, Given
<1>3. p.to \in Ids /\ p.len \in 1 .. PackMax
  BY <1>2, Lengths
<1> HIDE DEF p
<1>4. \A t \in Dispatch(Now[p.to], p.len) : Consistent(t) /\ Listed(t)
  BY <1>3, GivenNow, DispatchKeeps
<1>5. reloads' = reloads
  BY <1>1 DEF bounds
<1>6. QED
  BY <1>1, <1>2, <1>3, <1>4, <1>5, Given, HandlerAt

LEMMA IterNodeStep ==
  ASSUME Sound, NEW id \in Ids, IterNode(id)
  PROVE  Sound'
<1>1. /\ running /\ BecomesAt(id, Iter(Now[id], walk.del)) /\ UNCHANGED <<chan, bounds>>
      /\ walk' = IF walk.left = {id} THEN NoWalk ELSE [walk EXCEPT !.left = @ \ {id}]
  BY DEF IterNode, Visit
<1>2. reloads' = reloads
  BY <1>1 DEF bounds
<1>3. walk' \in [left : SUBSET Ids, del : BOOLEAN] /\ (walk'.del => walk.del)
  BY <1>1, Given DEF NoWalk
<1>4. walk.del \in BOOLEAN
  BY Given
<1>5. \A t \in Iter(Now[id], walk.del) :
        Consistent(t) /\ (reloads' = 0 => (Listed(targets[id]) => Listed(t)))
  BY <1>2, <1>4, Given, GivenNow, IterKeeps
<1>6. QED
  BY <1>1, <1>2, <1>3, <1>5, Given, HandlerAt

LEMMA ConnectTargetStep ==
  ASSUME Sound, NEW id \in Ids, ConnectTarget(id)
  PROVE  Sound'
<1>1. /\ running /\ targets[id].conn = "none" /\ UNCHANGED <<chan, walk, bounds>>
      /\ \E n \in InnerLens : BecomesAt(id, Connect(Now[id], n))
  BY DEF ConnectTarget, Ready
<1>2. reloads' = reloads
  BY <1>1 DEF bounds
<1>3. PICK n \in InnerLens : BecomesAt(id, Connect(Now[id], n))
  BY <1>1
<1>4. \A t \in Connect(Now[id], n) : Consistent(t) /\ Listed(t)
  BY <1>1, GivenNow, Lengths, ConnectKeeps
<1>5. QED
  BY <1>1, <1>2, <1>3, <1>4, Given, HandlerAt

LEMMA SendInnerStep ==
  ASSUME Sound, NEW id \in Ids, SendInner(id)
  PROVE  Sound'
<1>1. /\ running /\ targets[id].conn = "done" /\ UNCHANGED <<chan, walk, bounds>>
      /\ \E n \in InnerLens : \E t \in InnerSend(Now[id], n) :
           Becomes([Now EXCEPT ![id] = t], [Nothing EXCEPT ![id] = StlvLen(n)])
  BY DEF SendInner, Ready
<1>2. PICK n \in InnerLens :
        \E t \in InnerSend(Now[id], n) :
          Becomes([Now EXCEPT ![id] = t], [Nothing EXCEPT ![id] = StlvLen(n)])
  BY <1>1
<1>3. PICK t \in InnerSend(Now[id], n) :
        Becomes([Now EXCEPT ![id] = t], [Nothing EXCEPT ![id] = StlvLen(n)])
  BY <1>2
<1>4. Consistent(t) /\ Listed(t)
  BY <1>1, GivenNow, Lengths, InnerSendKeeps
<1>5. [Nothing EXCEPT ![id] = StlvLen(n)] \in [Ids -> Nat]
  <2>1. StlvLen(n) \in Nat
    BY Lengths, SizesAssumption DEF StlvLen
  <2>2. QED
    BY <2>1, NowType
<1>6. walk'.del => reloads' > 0
  BY <1>1, Given DEF bounds
<1> DEFINE put == [Nothing EXCEPT ![id] = StlvLen(n)]
<1>7. put \in [Ids -> Nat] /\ Becomes([Now EXCEPT ![id] = t], put)
  BY <1>3, <1>5
<1> HIDE DEF put
<1>8. chan' \in Seq(Packet) /\ walk' \in [left : SUBSET Ids, del : BOOLEAN]
  BY <1>1, Given
<1>9. QED
  BY <1>1, <1>4, <1>6, <1>7, <1>8, HandlerOf

LEMMA PeerClosesStep ==
  ASSUME Sound, NEW id \in Ids, PeerCloses(id)
  PROVE  Sound'
<1>1. /\ running /\ UNCHANGED <<chan, walk, bounds>>
      /\ Becomes([Now EXCEPT ![id] = Close(Now[id])], Nothing)
  BY NowType DEF PeerCloses, Ready
<1>2. Consistent(Close(Now[id])) /\ Listed(Close(Now[id]))
  BY GivenNow, CloseKeeps
<1>3. Nothing \in [Ids -> Nat]
  BY NowType
<1>4. walk'.del => reloads' > 0
  BY <1>1, Given DEF bounds
<1>5. QED
  BY <1>1, <1>2, <1>3, <1>4, Given, HandlerOf

LEMMA CheckSndBuffMemoryStep ==
  ASSUME Sound, CheckSndBuffMemory
  PROVE  Sound'
<1> DEFINE new == [id \in Ids |-> Shrink(Now[id])]
<1>1. running /\ UNCHANGED <<chan, walk, bounds>> /\ Becomes(new, Nothing)
  BY DEF CheckSndBuffMemory, Ready
<1>2. reloads' = reloads /\ kills' = kills
  BY <1>1 DEF bounds
<1>3. \A id \in Ids : Consistent(new[id]) /\ (Listed(targets[id]) => Listed(new[id]))
  <2>1. ASSUME NEW id \in Ids
        PROVE  /\ Consistent(Shrink(Now[id]))
               /\ Listed(targets[id]) => Listed(Shrink(Now[id]))
    BY GivenNow, ShrinkKeeps DEF Listed
  <2>2. QED
    BY <2>1
<1>4. new \in [Ids -> Target]
  BY <1>3 DEF Consistent
<1>5. reloads' >= reloads
  BY <1>2, Given
<1> HIDE DEF new
<1>6. QED
  BY <1>1, <1>2, <1>3, <1>4, <1>5, Given, NowType, HandlerStep

LEMMA ReloadStep ==
  ASSUME Sound, NEW changed \in SUBSET Ids, Reload(changed)
  PROVE  Sound'
<1> DEFINE new == [id \in Ids |-> IF id \in changed THEN Close(Now[id]) ELSE Now[id]]
<1>1. /\ running /\ reloads < MaxReload /\ reloads' = reloads + 1 /\ walk' = Walk(TRUE)
      /\ Becomes(new, Nothing) /\ UNCHANGED <<chan, kills>>
  BY DEF Reload, Ready
<1>2. /\ reloads' \in 0 .. MaxReload /\ reloads' > 0 /\ reloads' >= reloads
      /\ kills' \in 0 .. MaxKill
  BY <1>1, Given, BoundsAssumption
<1>3. \A id \in Ids : Consistent(new[id])
  BY GivenNow, CloseKeeps
<1>4. new \in [Ids -> Target]
  BY <1>3 DEF Consistent
<1>5. walk' \in [left : SUBSET Ids, del : BOOLEAN]
  BY <1>1, WalkType
<1> HIDE DEF new
<1>6. chan' \in Seq(Packet)
  BY <1>1, Given
<1>7. reloads' # 0
  BY <1>2
<1>8. QED
  BY <1>1, <1>2, <1>3, <1>4, <1>5, <1>6, <1>7, NowType, HandlerStep

LEMMA UpperStep ==
  ASSUME Sound, Upper
  PROVE  Sound'
<1>1. UNCHANGED <<bits, targets, own, running, walk, reloads, kills>>
  BY DEF Upper, SendFinish, SendCheck, bounds
<1>2. chan' \in Seq(Packet) /\ sending' \in {<<>>} \cup {<<p>> : p \in Packet}
  <2>1. CASE SendFinish
    <3>1. sending[1] \in Packet
      BY <2>1 DEF SendFinish, Sound, TypeOK
    <3>2. chan' = chan \/ chan' = Append(chan, sending[1])
      BY <2>1 DEF SendFinish
    <3>3. chan' \in Seq(Packet)
      <4> DEFINE q == sending[1]
      <4>1. q \in Packet /\ chan \in Seq(Packet) /\ (chan' = chan \/ chan' = Append(chan, q))
        BY <3>1, <3>2, Given
      <4> HIDE DEF q
      <4>2. QED
        BY ONLY <4>1
    <3>4. sending' = <<>>
      BY <2>1 DEF SendFinish
    <3>5. QED
      BY <3>3, <3>4
  <2>2. CASE \E p \in Packet : SendCheck(p)
    BY <2>2, Given DEF SendCheck
  <2>3. QED
    BY <2>1, <2>2 DEF Upper
<1>3. QED
  BY <1>1, <1>2 DEF Sound, TypeOK, BitMeansBacklog, BacklogIsListed

LEMMA IterSendingListStep ==
  ASSUME Sound, IterSendingList
  PROVE  Sound'
<1>1. UNCHANGED <<chan, sending, bits, targets, own, running, reloads, kills>> /\ walk' = Walk(FALSE)
  BY DEF IterSendingList, bounds
<1>2. walk' \in [left : SUBSET Ids, del : BOOLEAN] /\ ~walk'.del
  BY <1>1, WalkType
<1>3. QED
  BY <1>1, <1>2 DEF Sound, TypeOK, BitMeansBacklog, BacklogIsListed

LEMMA NothingIsOwn == Nothing \in [Ids -> 0 .. OwnRoom + 1]
  BY LensAssumption DEF Nothing

\* A carrier that is killed leaves the bitmap as it is; the next one clears it.
LEMMA KillCarrierStep ==
  ASSUME Sound, KillCarrier
  PROVE  Sound'
<1>1. /\ kills < MaxKill /\ running' = FALSE /\ kills' = kills + 1 /\ walk' = NoWalk
      /\ targets' = [id \in Ids |-> NewTarget] /\ own' = Nothing
      /\ UNCHANGED <<chan, sending, bits, reloads>>
  BY DEF KillCarrier
<1>2. kills' \in 0 .. MaxKill /\ reloads' \in 0 .. MaxReload
  BY <1>1, Given, BoundsAssumption
<1>3. walk' \in [left : SUBSET Ids, del : BOOLEAN] /\ ~walk'.del
  BY <1>1 DEF NoWalk
<1>4. \A id \in Ids : targets'[id] = NewTarget /\ Consistent(targets'[id]) /\ Listed(targets'[id])
  BY <1>1, NewKeeps
<1>5. targets' \in [Ids -> Target] /\ \A id \in Ids : targets'[id].len > 0 => targets'[id].data < targets'[id].len
  BY <1>1, <1>4 DEF Consistent
<1>6. TypeOK'
  BY <1>1, <1>2, <1>3, <1>5, NothingIsOwn DEF Sound, TypeOK
<1>7. BitMeansBacklog' /\ BacklogIsListed'
  BY <1>1, <1>4 DEF BitMeansBacklog, BacklogIsListed, Listed
<1>8. QED
  BY <1>3, <1>4, <1>6, <1>7 DEF Sound

LEMMA StartCarrierStep ==
  ASSUME Sound, StartCarrier
  PROVE  Sound'
<1>1. /\ ~running /\ running' = TRUE /\ bits' = [id \in Ids |-> FALSE]
      /\ UNCHANGED <<chan, sending, targets, own, walk, reloads, kills>>
  BY DEF StartCarrier, bounds
<1>2. \A id \in Ids : targets[id] = NewTarget
  BY <1>1 DEF Sound
<1>3. TypeOK'
  BY <1>1 DEF Sound, TypeOK
<1>4. BitMeansBacklog'
  <2>1. \A id \in Ids : bits'[id] = FALSE /\ targets'[id] = NewTarget
    BY <1>1, <1>2
  <2>2. NewTarget.block = FALSE
    BY DEF NewTarget
  <2>3. \A id \in Ids : bits'[id] = targets'[id].block /\ ~bits'[id]
    BY Zenon, <2>1, <2>2
  <2>4. QED
    BY <2>3 DEF BitMeansBacklog
<1>5. BacklogIsListed'
  BY <1>1 DEF Sound, BacklogIsListed
<1>6. QED
  BY <1>1, <1>3, <1>4, <1>5 DEF Sound

LEMMA NextSound ==
  ASSUME Sound, [Next]_vars
  PROVE  Sound'
<1>1. CASE UNCHANGED vars
  BY <1>1 DEF vars, Sound, TypeOK, BitMeansBacklog, BacklogIsListed
<1>2. CASE Upper
  BY <1>2, UpperStep
<1>3. CASE Carrier
  BY <1>3, DispatchBridgeStep, IterSendingListStep, CheckSndBuffMemoryStep, ConnectTargetStep,
     SendInnerStep, PeerClosesStep, IterNodeStep, ReloadStep, KillCarrierStep, StartCarrierStep DEF Carrier
<1>4. QED
  BY <1>1, <1>2, <1>3 DEF Next

LEMMA InitSound == Init => Sound
<1> SUFFICES ASSUME Init PROVE Sound
  OBVIOUS
<1>1. /\ chan = <<>> /\ sending = <<>> /\ running = FALSE
      /\ bits = [id \in Ids |-> FALSE] /\ targets = [id \in Ids |-> NewTarget]
      /\ own = Nothing /\ walk = NoWalk /\ reloads = 0 /\ kills = 0
  BY DEF Init
<1>2. \A id \in Ids : targets[id] = NewTarget /\ Consistent(targets[id]) /\ Listed(targets[id])
  BY <1>1, NewKeeps
<1>3. walk \in [left : SUBSET Ids, del : BOOLEAN] /\ ~walk.del
  BY <1>1 DEF NoWalk
<1>4. targets \in [Ids -> Target] /\ \A id \in Ids : targets[id].len > 0 => targets[id].data < targets[id].len
  BY <1>1, <1>2 DEF Consistent
<1>5. TypeOK
  <2>1. chan \in Seq(Packet) /\ sending \in {<<>>} \cup {<<p>> : p \in Packet}
    BY <1>1
  <2>2. bits \in [Ids -> BOOLEAN] /\ running \in BOOLEAN
    BY Zenon, <1>1
  <2>3. reloads \in 0 .. MaxReload /\ kills \in 0 .. MaxKill
    BY <1>1, BoundsAssumption
  <2>4. QED
    BY <1>1, <1>3, <1>4, <2>1, <2>2, <2>3, NothingIsOwn DEF TypeOK
<1>6. BitMeansBacklog /\ BacklogIsListed
  BY <1>1, <1>2 DEF BitMeansBacklog, BacklogIsListed, Listed
<1>7. QED
  BY <1>2, <1>3, <1>5, <1>6 DEF Sound

-----------------------------------------------------------------------------
(* The room a buffer at its limit has.                                     *)

\* The length that the growth to the limit gives.
Full == MaxExpand + BlockSize

LEMMA Sizes ==
  /\ PackMax \in Nat \ {0} /\ Mega \in Nat \ {0} /\ SendSize \in Nat \ {0}
  /\ Over \in Nat /\ SafeOver \in Nat /\ Over <= SafeOver
  /\ InitLen = 2 * PackMax /\ MaxExpand = 2 * SendSize + Mega /\ BlockSize = SendSize + Mega
  /\ Full = 3 * SendSize + 2 * Mega
  BY SizesAssumption DEF InitLen, MaxExpand, BlockSize, Full

LEMMA Reserves ==
  ASSUME NEW n \in PackLens
  PROVE  /\ Reserve(n) \in Nat /\ n \in 1 .. PackMax
         /\ Reserve(n) <= SendSize + (2 * Mega) \div 3
         /\ Reserve(n) + PackMax + SafeOver <= BlockSize
         /\ 2 * (PackMax + SafeOver) <= Mega
<1> DEFINE b == ((SendSize - 1) \div n + 1) * Over
<1> DEFINE a == b + OwnRoom
<1>1. n \in 1 .. PackMax /\ n \in Nat /\ n > 0 /\ OwnRoom \in Nat
  BY LensAssumption, Sizes
<1>2. (SendSize - 1) \div n \in Nat
  BY <1>1, Sizes
<1>3. b \in Nat /\ a \in Nat
  BY <1>1, <1>2, Sizes
<1>4. PackMax + SafeOver + a <= (2 * Mega) \div 3 /\ 2 * (PackMax + SafeOver) + a <= Mega
  BY SlackAssumption
<1>5. Reserve(n) = SendSize + PackMax + SafeOver + OwnRoom + b
  BY DEF Reserve
<1> HIDE DEF b
<1>5a. Reserve(n) = SendSize + PackMax + SafeOver + a
  BY <1>1, <1>3, <1>5, Sizes
<1> HIDE DEF a
<1>6. QED
  BY <1>1, <1>3, <1>4, <1>5a, Sizes

\* A new buffer is below its limit.
LEMMA Smallest == InitLen < MaxExpand /\ 2 * (PackMax + SafeOver) <= Mega
<1>1. PICK n \in PackLens : TRUE
  BY LensAssumption
<1>2. 2 * (PackMax + SafeOver) <= Mega
  BY Reserves
<1>3. QED
  BY <1>2, Sizes

\* The growth to the limit always gives the same length.
LEMMA GrownToFull ==
  ASSUME NEW len \in Nat, len < MaxExpand
  PROVE  Grown(len) \in Nat /\ (Grown(len) >= MaxExpand => Grown(len) = Full)
  BY Sizes DEF Grown, Full

\* A need that is small enough for any buffer that is not blocked.
Bearable(c) == c \in Nat /\ \E n \in PackLens : c + 1 <= Reserve(n)

LEMMA BearsLess ==
  ASSUME NEW c, Bearable(c), NEW d \in Nat, d <= c
  PROVE  Bearable(d)
<1>1. PICK n \in PackLens : c + 1 <= Reserve(n)
  BY DEF Bearable
<1>2. c \in Nat /\ Reserve(n) \in Nat
  BY Reserves DEF Bearable
<1>3. d + 1 <= Reserve(n)
  BY <1>1, <1>2
<1>4. QED
  BY <1>3 DEF Bearable

LEMMA BearsAny ==
  ASSUME NEW t \in Target, NEW c, Bearable(c), Spacious(t)
  PROVE  t.len - t.data > c
<1>1. PICK n \in PackLens : c + 1 <= Reserve(n)
  BY DEF Bearable
<1>2. t.len - t.data >= Reserve(n) /\ t.len \in Nat /\ t.data \in Nat /\ c \in Nat
  BY DEF Spacious, Target, Bearable
<1>3. QED
  BY <1>1, <1>2, Sizes, Reserves

\* A buffer with as much free as blocking waits for has room for everything.
LEMMA FreeIsSpacious ==
  ASSUME NEW t \in Target, t.len - t.data + PackMax + SafeOver >= BlockSize
  PROVE  Spacious(t)
<1>1. t.len \in Nat /\ t.data \in Nat
  BY DEF Target
<1>2. ASSUME NEW n \in PackLens PROVE t.len - t.data >= Reserve(n)
  BY <1>1, Sizes, Reserves
<1>3. QED
  BY <1>2 DEF Spacious

\* Data is sent, or the target is blocked.
LEMMA RoomAfterSend ==
  ASSUME NEW t \in Target, NEW r \in Target, NEW c, Roomy(t, c), c \in Nat,
         r.len = t.len, r.data <= t.data,
         AtLimit(t) /\ t.block => r.block \/ r.len - r.data >= BlockSize
  PROVE  Roomy(r, c)
<1>1. SUFFICES ASSUME AtLimit(r)
               PROVE  /\ r.len \in {Full, (2 * Full) \div 3}
                      /\ Spacious(r) \/ (r.block /\ r.len - r.data > c)
  BY DEF Roomy, Full
<1>2. AtLimit(t)
  BY <1>1 DEF AtLimit
<1>3. /\ t.len \in {Full, (2 * Full) \div 3}
      /\ Spacious(t) \/ (t.block /\ t.len - t.data > c)
  BY <1>2 DEF Roomy, Full
<1>4. /\ t.len \in Nat /\ t.data \in Nat /\ r.len \in Nat /\ r.data \in Nat
      /\ t.block \in BOOLEAN /\ r.block \in BOOLEAN
  BY DEF Target
<1>5. CASE Spacious(t)
  <2>1. ASSUME NEW n \in PackLens PROVE r.len - r.data >= Reserve(n)
    BY <1>4, <1>5, Reserves DEF Spacious
  <2>2. QED
    BY <2>1, <1>3 DEF Spacious
<1>6. CASE t.block /\ t.len - t.data > c
  <2>1. CASE r.block
    BY <2>1, <1>3, <1>4, <1>6, Sizes
  <2>2. CASE r.len - r.data >= BlockSize
    <3>1. r.len - r.data + PackMax + SafeOver >= BlockSize
      BY <2>2, <1>4, Sizes
    <3>2. QED
      BY <3>1, <1>3, FreeIsSpacious
  <2>3. QED
    BY <2>1, <2>2, <1>2, <1>6
<1>7. QED
  BY <1>3, <1>5, <1>6

\* A flush keeps the room, and leaves a buffer at its limit that is not
\* blocked with much of it.
LEMMA RoomAfterFlush ==
  ASSUME NEW t, Consistent(t), t.data > 0, NEW c \in Nat, Roomy(t, c), NEW f \in Flush(t)
  PROVE  /\ Roomy(f, c)
         /\ f.conn # "none" /\ AtLimit(f) /\ ~f.block => f.len - f.data >= BlockSize
<1>1. t \in Target /\ t.len \in Nat /\ t.data \in Nat /\ t.block \in BOOLEAN
  BY DEF Consistent, Target
<1>2. CASE f = Close(t)
  <2>1. f.len = 0 /\ f.conn = "none"
    BY <1>1, <1>2, Closes
  <2>2. ~AtLimit(f)
    BY <2>1, Sizes DEF AtLimit
  <2>3. QED
    BY <2>1, <2>2 DEF Roomy
<1>3. CASE f = Block(t)
  <2>1. /\ f \in Target /\ f.len = t.len /\ f.data = t.data
        /\ (t.block => f.block) /\ (AtLimit(t) /\ Tight(t) => f.block)
    BY <1>1, <1>3, Blocks
  <2>2. Roomy(f, c)
    BY <2>1, <1>1, RoomAfterSend
  <2>3. AtLimit(f) /\ ~f.block => f.len - f.data >= BlockSize
    BY <2>1, <1>1, Sizes DEF AtLimit, Tight
  <2>4. QED
    BY <2>2, <2>3
<1>4. CASE f = [t EXCEPT !.data = 0, !.block = FALSE]
  <2>1. f \in Target /\ f.len = t.len /\ f.data = 0 /\ f.len \in Nat
    BY <1>1, <1>4, Empties
  <2>2. AtLimit(f) => f.len - f.data >= BlockSize
    <3>1. SUFFICES ASSUME AtLimit(f) PROVE f.len >= BlockSize
      BY <2>1, Sizes
    <3>2. f.len >= MaxExpand
      BY <3>1 DEF AtLimit
    <3>3. QED
      BY <3>2, <2>1, Sizes
  <2>3. Roomy(f, c)
    <3>1. CASE ~AtLimit(t)
      BY <3>1, <2>1 DEF Roomy, AtLimit
    <3>2. CASE AtLimit(t)
      <4>1. f.len - f.data >= BlockSize
        BY <3>2, <2>1, <2>2 DEF AtLimit
      <4>2. QED
        BY <4>1, <2>1, <1>1, RoomAfterSend
    <3>3. QED
      BY <3>1, <3>2
  <2>4. QED
    BY <2>2, <2>3
<1>5. ASSUME NEW d \in 1 .. t.data - 1,
             f \in {Block([t EXCEPT !.data = d]), Review([t EXCEPT !.data = d])}
      PROVE  /\ Roomy(f, c)
             /\ AtLimit(f) /\ ~f.block => f.len - f.data >= BlockSize
  <2> DEFINE s == [t EXCEPT !.data = d]
  <2>1. s \in Target /\ s.len = t.len /\ s.data = d /\ s.block = t.block
    BY <1>1, Sends
  <2> HIDE DEF s
  <2>2. /\ f \in Target /\ f.len = t.len /\ f.data = d /\ f.block \in BOOLEAN
        /\ AtLimit(s) /\ ~f.block => f.len - f.data >= BlockSize
    <3>1. CASE f = Block(s)
      <4>1. /\ f \in Target /\ f.len = s.len /\ f.data = s.data
            /\ (AtLimit(s) /\ Tight(s) => f.block) /\ f.block \in BOOLEAN
        BY <2>1, <3>1, Blocks DEF Target
      <4>2. QED
        BY <4>1, <2>1, <1>1, Sizes DEF Tight
    <3>2. CASE f = Review(s)
      <4>1. /\ f \in Target /\ f.len = s.len /\ f.data = s.data /\ f.block \in BOOLEAN
            /\ AtLimit(s) /\ ~f.block => s.len - s.data >= BlockSize
        BY <2>1, <3>2, Reviews DEF Target
      <4>2. QED
        BY <4>1, <2>1
    <3>3. QED
      BY <3>1, <3>2, <1>5 DEF s
  <2>3. AtLimit(t) <=> AtLimit(s)
    BY <2>1 DEF AtLimit
  <2>4. Roomy(f, c)
    BY <2>2, <2>3, <1>1, RoomAfterSend
  <2>5. QED
    BY <2>1, <2>2, <2>4 DEF AtLimit
<1>6. QED
  BY <1>2, <1>3, <1>4, <1>5 DEF Flush

LEMMA RoomyLess ==
  ASSUME NEW t \in Target, NEW c \in Nat, NEW d \in Nat, d <= c, Roomy(t, c)
  PROVE  Roomy(t, d)
<1>1. t.len \in Nat /\ t.data \in Nat
  BY DEF Target
<1>2. t.len - t.data > c => t.len - t.data > d
  BY <1>1
<1>3. QED
  BY <1>2 DEF Roomy

LEMMA NotAtLimit ==
  ASSUME NEW t, ~AtLimit(t), NEW c
  PROVE  Roomy(t, c)
  BY DEF Roomy

\* A buffer into which the packet fits takes it as it is.
LEMMA AddFits ==
  ASSUME NEW t \in Target, NEW n \in Nat, Fits(t, n)
  PROVE  LET r == Add(t, n) IN
         /\ r \in Target /\ r.len = t.len /\ r.data = t.data + StlvLen(n)
         /\ r.block = t.block /\ r.dropped = t.dropped
<1> DEFINE d == t.data + StlvLen(n)
<1>1. Add(t, n) = [t EXCEPT !.data = d]
  BY DEF Add
<1>2. d \in Nat
  BY Sizes DEF Target, StlvLen
<1> HIDE DEF d
<1>3. LET r == Add(t, n) IN
      r \in Target /\ r.len = t.len /\ r.data = d /\ r.block = t.block /\ r.dropped = t.dropped
  BY ONLY <1>1, <1>2, t \in Target DEF Target
<1>4. QED
  BY <1>3 DEF d

\* Another buffer grows, and if that brings it to its limit, by much.
LEMMA AddGrows ==
  ASSUME NEW t, Consistent(t), t.len > 0, NEW n \in 1 .. PackMax, ~AtLimit(t)
  PROVE  LET r == Add(t, n) IN
         /\ r \in Target /\ r.dropped = t.dropped
         /\ AtLimit(r) => r.len = Full /\ r.data < MaxExpand + StlvLen(n)
<1> DEFINE r == Add(t, n)
<1>1. /\ r \in Target /\ t.len \in Nat /\ t.data \in Nat /\ t.data < t.len /\ t \in Target
      /\ r.dropped = t.dropped /\ r.data = t.data + StlvLen(n)
  BY Adds DEF Consistent, Target
<1>2. t.len < MaxExpand /\ StlvLen(n) \in Nat /\ MaxExpand \in Nat
  BY <1>1, Sizes DEF AtLimit, StlvLen
<1>3. r.len = t.len \/ r.len = Grown(t.len)
  <2> DEFINE u == IF t.data > 0 /\ ~Fits(t, n) THEN Grow(t) ELSE t
  <2>1. u.len = t.len \/ u.len = Grown(t.len)
    BY <1>1, <1>2 DEF Grow, Target
  <2>2. u \in Target
    BY <1>1, Grows
  <2>3. r = IF Fits(u, n) THEN [u EXCEPT !.data = @ + StlvLen(n)] ELSE [u EXCEPT !.dropped = TRUE]
    BY DEF Add
  <2> HIDE DEF u
  <2>4. r.len = u.len
    BY <2>2, <2>3 DEF Target
  <2>5. QED
    BY <2>1, <2>4
<1>4. AtLimit(r) => r.len = Full
  BY <1>1, <1>2, <1>3, GrownToFull DEF AtLimit
<1>5. r.data < MaxExpand + StlvLen(n)
  BY <1>1, <1>2
<1> HIDE DEF r
<1>6. /\ r \in Target /\ r.dropped = t.dropped
      /\ AtLimit(r) => r.len = Full /\ r.data < MaxExpand + StlvLen(n)
  BY <1>1, <1>4, <1>5
<1>7. QED
  BY <1>6 DEF r

\* The room is a matter of the buffer and the blocking alone.
LEMMA RoomySame ==
  ASSUME NEW t, NEW r, NEW c, r.len = t.len, r.data = t.data, r.block = t.block
  PROVE  Roomy(r, c) <=> Roomy(t, c)
  BY DEF Roomy, AtLimit, Spacious

\* A buffer at its limit that the packet does not fit into stays as it is.
LEMMA AddDrops ==
  ASSUME NEW t \in Target, NEW n \in Nat, AtLimit(t), ~Fits(t, n)
  PROVE  LET r == Add(t, n) IN
         r \in Target /\ r.len = t.len /\ r.data = t.data /\ r.block = t.block
<1>1. Add(t, n) = [t EXCEPT !.dropped = TRUE]
  BY DEF Add, Grow, AtLimit
<1>2. QED
  BY ONLY <1>1, t \in Target DEF Target

\* What a buffer that is not blocked holds when a packet comes to it: no more
\* than blocking waits for, or less than a packet.
Calm(t, n) == AtLimit(t) /\ ~t.block => t.len - t.data >= BlockSize \/ t.data + n < PackMax + SendSize

\* A packet leaves the room that what comes after it needs, and finds room
\* itself unless the target is blocked and needs less than the packet takes.
LEMMA RoomAfterAdd ==
  ASSUME NEW t, Consistent(t), t.len > 0, ~t.dropped, NEW n \in 1 .. PackMax,
         NEW c, Bearable(c), NEW d \in Nat, d = 0 \/ d + StlvLen(n) <= c,
         Roomy(t, c), Calm(t, n)
  PROVE  LET r == Add(t, n) IN
         Roomy(r, d) /\ (r.dropped => r.block /\ c < SafeLen(n))
<1> DEFINE r == Add(t, n)
<1>0. SUFFICES Roomy(r, d) /\ (r.dropped => r.block /\ c < SafeLen(n))
  OBVIOUS
<1>1. /\ t \in Target /\ t.len \in Nat /\ t.data \in Nat /\ t.data < t.len /\ t.block \in BOOLEAN
      /\ n \in Nat /\ c \in Nat /\ StlvLen(n) = n + Over /\ StlvLen(n) \in Nat
      /\ SafeLen(n) = n + SafeOver /\ n <= PackMax
  BY Sizes DEF Consistent, Target, Bearable, StlvLen, SafeLen
<1>2. CASE ~AtLimit(t)
  <2>1. /\ r \in Target /\ ~r.dropped
        /\ AtLimit(r) => r.len = Full /\ r.data < MaxExpand + StlvLen(n)
    BY <1>1, <1>2, AddGrows
  <2> HIDE DEF r
  <2>2. CASE ~AtLimit(r)
    BY <2>1, <2>2, NotAtLimit
  <2>3. CASE AtLimit(r)
    <3>1. r.len \in Nat /\ r.data \in Nat
      BY <2>1 DEF Target
    <3>2. r.len - r.data + PackMax + SafeOver >= BlockSize
      BY <2>1, <2>3, <3>1, <1>1, Sizes
    <3>3. Spacious(r)
      BY <2>1, <3>2, FreeIsSpacious
    <3>4. QED
      BY <2>1, <2>3, <3>3 DEF Roomy, Full
  <2>4. QED
    BY <2>2, <2>3
<1>3. CASE AtLimit(t)
  <2>1. /\ t.len \in {Full, (2 * Full) \div 3}
        /\ Spacious(t) \/ (t.block /\ t.len - t.data > c)
    BY <1>3 DEF Roomy, Full
  <2>2. t.len - t.data > c
    BY <2>1, <1>1, BearsAny
  <2>3. CASE ~Fits(t, n)
    <3>1. r \in Target /\ r.len = t.len /\ r.data = t.data /\ r.block = t.block
      BY <1>1, <1>3, <2>3, AddDrops
    <3>2. ~Spacious(t)
      <4>1. PICK m \in PackLens : TRUE
        BY LensAssumption
      <4>2. Reserve(m) > PackMax + SafeOver
        <5> DEFINE b == ((SendSize - 1) \div m + 1) * Over
        <5>1. m \in Nat \ {0} /\ OwnRoom \in Nat
          BY LensAssumption, Sizes
        <5>2. (SendSize - 1) \div m \in Nat
          BY <5>1, Sizes
        <5>3. b \in Nat
          BY <5>2, Sizes
        <5>4. Reserve(m) = SendSize + PackMax + SafeOver + OwnRoom + b
          BY DEF Reserve
        <5> HIDE DEF b
        <5>5. QED
          BY <5>1, <5>3, <5>4, Sizes
      <4>3. t.len - t.data - 1 < n + SafeOver
        BY <2>3, <1>1, Sizes DEF Fits
      <4>4. t.len - t.data < Reserve(m)
        BY <4>2, <4>3, <1>1, Sizes, Reserves
      <4>5. QED
        BY <4>1, <4>4, <1>1, Reserves DEF Spacious
    <3>3. t.block /\ t.len - t.data > c
      BY <2>1, <3>2
    <3>4. c < SafeLen(n)
      BY <2>3, <3>3, <1>1, Sizes DEF Fits
    <3>5. t.len - t.data > d
      BY <3>3, <1>1
    <3> HIDE DEF r
    <3>6. QED
      BY <2>1, <3>1, <3>3, <3>4, <3>5 DEF Roomy, Full
  <2>4. CASE Fits(t, n)
    <3>1. /\ r \in Target /\ r.len = t.len /\ r.data = t.data + StlvLen(n)
          /\ r.block = t.block /\ r.dropped = t.dropped
      BY <2>4, <1>1, AddFits
    <3> HIDE DEF r
    <3>2. r.len - r.data = t.len - t.data - StlvLen(n)
      BY <3>1, <1>1
    <3>3. CASE t.block
      <4>1. r.len - r.data > 0
        BY <2>4, <3>2, <1>1, Sizes DEF Fits
      <4>2. r.len - r.data > d
        BY <4>1, <2>2, <3>2, <1>1, Sizes
      <4>3. QED
        BY <2>1, <3>1, <3>3, <4>2 DEF Roomy, Full
    <3>4. CASE ~t.block /\ t.len - t.data >= BlockSize
      <4>1. r.len - r.data + PackMax + SafeOver >= BlockSize
        BY <3>2, <3>4, <1>1, Sizes
      <4>2. Spacious(r)
        BY <3>1, <4>1, FreeIsSpacious
      <4>3. QED
        BY <2>1, <3>1, <4>2 DEF Roomy, Full
    <3>5. CASE ~t.block /\ t.data + n < PackMax + SendSize
      <4>1. t.len >= 2 * SendSize + (4 * Mega) \div 3
        BY <2>1, Sizes
      <4>2. PackMax + SafeOver < (2 * Mega) \div 3
        BY SizesAssumption
      <4>3. r.len - r.data >= SendSize + (2 * Mega) \div 3
        BY <4>1, <4>2, <3>2, <3>5, <1>1, Sizes
      <4>4. ASSUME NEW k \in PackLens PROVE r.len - r.data >= Reserve(k)
        BY <4>3, <3>2, <1>1, Sizes, Reserves
      <4>5. Spacious(r)
        BY <4>4 DEF Spacious
      <4>6. QED
        BY <2>1, <3>1, <4>5 DEF Roomy, Full
    <3>6. QED
      BY <3>3, <3>4, <3>5, <1>1, <1>3 DEF Calm
  <2>5. QED
    BY <2>3, <2>4
<1>4. QED
  BY <1>2, <1>3

\* A new buffer is short.
LEMMA RoomAfterGrow ==
  ASSUME NEW t \in Target, t.len = 0
  PROVE  ~AtLimit(t) /\ ~AtLimit(Grow(t))
<1>1. ~AtLimit(t)
  BY Sizes DEF AtLimit
<1>2. Grow(t).len = InitLen
  BY <1>1 DEF Grow, AtLimit, Target
<1>3. QED
  BY <1>1, <1>2, Smallest, Sizes DEF AtLimit

\* append_sending_node before a packet is stored, and after.
LEMMA RoomAfterStore ==
  ASSUME NEW t, Consistent(t), t.len > 0, ~t.dropped, NEW n \in 1 .. PackMax,
         NEW c, Bearable(c), NEW d \in Nat, d = 0 \/ d + StlvLen(n) <= c,
         Roomy(t, c), Calm(t, n)
  PROVE  LET r == Add(List(t), n) IN
         /\ Consistent(r) /\ Roomy(r, d) /\ (r.dropped => r.block /\ c < SafeLen(n))
<1> DEFINE s == List(t)
<1>1. /\ s \in Target /\ s.conn = t.conn /\ s.len = t.len /\ s.data = t.data
      /\ s.block = t.block /\ s.dropped = t.dropped
  BY Lists DEF Consistent
<1>2. Consistent(s)
  BY ListKeeps
<1> HIDE DEF s
<1>3. s.len > 0 /\ ~s.dropped /\ Roomy(s, c) /\ Calm(s, n)
  BY <1>1, RoomySame DEF AtLimit, Calm
<1>4. LET r == Add(s, n) IN Roomy(r, d) /\ (r.dropped => r.block /\ c < SafeLen(n))
  BY <1>2, <1>3, RoomAfterAdd
<1>5. Consistent(Add(s, n))
  BY <1>2, <1>3, Adds
<1>6. QED
  BY <1>4, <1>5 DEF s

\* dispatch_bridge leaves the room that is needed from then on.
LEMMA RoomAfterDispatch ==
  ASSUME NEW t, Consistent(t), ~t.dropped, NEW n \in 1 .. PackMax, n < SendSize,
         NEW c, Bearable(c), NEW d \in Nat, d = 0 \/ d + StlvLen(n) <= c,
         Roomy(t, c), NEW r \in Dispatch(t, n)
  PROVE  Roomy(r, d) /\ (r.dropped => r.block /\ c < SafeLen(n))
<1>1. /\ t \in Target /\ c \in Nat /\ n \in Nat /\ d <= c
  BY Sizes DEF Consistent, Bearable, StlvLen
<1>2. CASE t.conn # "done"
  BY <1>1, <1>2, RoomyLess DEF Dispatch
<1>3. CASE t.conn = "done"
  <2> DEFINE u == IF t.len = 0 THEN Grow(t) ELSE t
  <2>1. /\ Consistent(u) /\ u.len > 0 /\ u.conn = "done" /\ ~u.dropped
    BY <1>3, Initialises
  <2>2. Roomy(u, c)
    BY <1>1, RoomAfterGrow, NotAtLimit
  <2> DEFINE next == IF u.data >= PackMax THEN Flush(u) ELSE {u}
  <2>3. PICK f \in next : r = IF f.conn = "none" THEN f ELSE List(Add(List(f), n))
    BY <1>3 DEF Dispatch
  <2>4. /\ Consistent(f) /\ ~f.dropped /\ (f.conn = "none" \/ f.len > 0) /\ Roomy(f, c)
        /\ f.conn # "none" => Calm(f, n)
    <3>1. CASE u.data >= PackMax
      <4>1. u.data > 0
        BY <3>1, <2>1, SizesAssumption DEF Consistent, Target
      <4>2. f \in Flush(u)
        BY <3>1, <2>3
      <4> HIDE DEF u, next
      <4>3. Consistent(f) /\ f.dropped = u.dropped /\ (f.conn = "none" \/ f.len > 0)
        BY <4>1, <4>2, <2>1, Flushes
      <4>4. QED
        BY <4>1, <4>2, <4>3, <1>1, <2>1, <2>2, RoomAfterFlush DEF Calm
    <3>2. CASE ~(u.data >= PackMax)
      <4>1. f = u
        BY <3>2, <2>3
      <4> HIDE DEF u, next
      <4>2. u.data \in Nat
        BY <2>1 DEF Consistent, Target
      <4>3. u.data + n < PackMax + SendSize
        BY <4>2, <3>2, <1>1, Sizes
      <4>4. QED
        BY <4>1, <4>3, <2>1, <2>2 DEF Calm
    <3>3. QED
      BY <3>1, <3>2
  <2> HIDE DEF u, next
  <2>5. CASE f.conn = "none"
    BY <1>1, <2>3, <2>4, <2>5, RoomyLess DEF Consistent
  <2>6. CASE f.conn # "none"
    <3> DEFINE a == Add(List(f), n)
    <3>1. Consistent(a) /\ Roomy(a, d) /\ (a.dropped => a.block /\ c < SafeLen(n))
      BY <2>4, <2>6, RoomAfterStore
    <3>2. r = List(a)
      BY <2>3, <2>6
    <3> HIDE DEF a
    <3>3. List(a).len = a.len /\ List(a).data = a.data /\ List(a).block = a.block /\ List(a).dropped = a.dropped
      BY <3>1, Lists DEF Consistent
    <3>4. QED
      BY <3>1, <3>2, <3>3, RoomySame
  <2>7. QED
    BY <2>5, <2>6
<1>4. QED
  BY <1>2, <1>3

\* So does inner_send_pkg, which flushes first.
LEMMA RoomAfterInner ==
  ASSUME NEW t, Consistent(t), t.conn = "done", ~t.dropped, NEW n \in 1 .. PackMax,
         NEW c, Bearable(c), NEW d \in Nat, d = 0 \/ d + StlvLen(n) <= c,
         Roomy(t, c), NEW r \in InnerSend(t, n)
  PROVE  Roomy(r, d)
<1> DEFINE u == IF t.len = 0 THEN Grow(t) ELSE t
<1> DEFINE store(f) == [Add(List(f), n) EXCEPT !.dropped = FALSE]
<1> DEFINE after(f) ==
      IF f.conn = "none" THEN {f}
      ELSE IF f.data > 0 THEN {store(f)}
      ELSE {List(g) : g \in Flush(store(f))}
<1>1. /\ t \in Target /\ c \in Nat /\ n \in Nat /\ d <= c
  BY Sizes DEF Consistent, Bearable, StlvLen
<1>2. Consistent(u) /\ u.len > 0 /\ u.conn = "done" /\ ~u.dropped
  BY Initialises
<1>3. Roomy(u, c)
  BY <1>1, RoomAfterGrow, NotAtLimit
<1>4. r \in IF u.data > 0 THEN UNION {after(f) : f \in Flush(u)} ELSE after(u)
  BY DEF InnerSend
<1> HIDE DEF u, after, store
<1>5. ASSUME NEW f, Consistent(f), ~f.dropped, f.conn = "none" \/ f.len > 0, Roomy(f, c),
             f.conn # "none" => Calm(f, n), r \in after(f)
      PROVE  Roomy(r, d)
  <2>1. CASE f.conn = "none"
    <3>1. r = f /\ f \in Target
      BY <1>5, <2>1 DEF after, Consistent
    <3>2. QED
      BY <1>1, <1>5, <3>1, RoomyLess
  <2>2. CASE f.conn # "none"
    <3> DEFINE a == Add(List(f), n)
    <3> DEFINE s == store(f)
    <3>1. Consistent(a) /\ Roomy(a, d)
      BY <1>5, <2>2, RoomAfterStore
    <3>2. a.data > 0
      BY <1>5, <2>2, Stores
    <3>3. s = [a EXCEPT !.dropped = FALSE] /\ a \in Target
      BY <3>1 DEF store, Consistent
    <3> HIDE DEF a, s
    <3>4. /\ s \in Target /\ s.conn = a.conn /\ s.len = a.len /\ s.data = a.data /\ s.block = a.block
      BY ONLY <3>3 DEF Target
    <3>5. Consistent(s) /\ s.data > 0 /\ Roomy(s, d)
      BY <3>1, <3>2, <3>4, RoomySame DEF Consistent
    <3>6. r = s \/ \E g \in Flush(s) : r = List(g)
      <4>1. r \in IF f.data > 0 THEN {s} ELSE {List(g) : g \in Flush(s)}
        BY <1>5, <2>2 DEF after, s
      <4>2. QED
        BY <4>1
    <3>7. ASSUME NEW g \in Flush(s), r = List(g)
          PROVE  Roomy(r, d)
      <4>1. Roomy(g, d) /\ g \in Target
        BY <3>5, <3>7, RoomAfterFlush, Flushes DEF Consistent
      <4>2. List(g).len = g.len /\ List(g).data = g.data /\ List(g).block = g.block
        BY <4>1, Lists
      <4>3. QED
        BY <3>7, <4>1, <4>2, RoomySame
    <3>8. QED
      BY <3>5, <3>6, <3>7
  <2>3. QED
    BY <2>1, <2>2
<1>6. u.data \in Nat
  BY <1>2 DEF Consistent, Target
<1>7. CASE u.data > 0
  <2>1. PICK f \in Flush(u) : r \in after(f)
    BY <1>4, <1>7
  <2>2. Consistent(f) /\ f.dropped = u.dropped /\ (f.conn = "none" \/ f.len > 0)
    BY <1>2, <1>7, Flushes
  <2>3. Roomy(f, c) /\ (f.conn # "none" => Calm(f, n))
    BY <1>1, <1>2, <1>3, <1>7, RoomAfterFlush DEF Calm
  <2>4. QED
    BY <1>2, <1>5, <2>1, <2>2, <2>3
<1>8. CASE u.data = 0
  <2>1. r \in after(u)
    BY <1>4, <1>8
  <2>2. Calm(u, n)
    BY <1>1, <1>8, Sizes DEF Calm
  <2>3. QED
    BY <1>2, <1>3, <1>5, <2>1, <2>2
<1>9. QED
  BY <1>6, <1>7, <1>8

LEMMA RoomAfterIter ==
  ASSUME NEW t, Consistent(t), NEW del \in BOOLEAN, NEW c \in Nat, Roomy(t, c),
         NEW r \in Iter(t, del)
  PROVE  Roomy(r, c)
<1>1. t \in Target /\ t.data \in Nat
  BY DEF Consistent, Target
<1>2. CASE ~t.listed
  BY <1>2 DEF Iter
<1>3. CASE t.listed /\ (t.conn # "done" \/ t.data = 0)
  <2>1. r = [t EXCEPT !.listed = FALSE]
    BY <1>3 DEF Iter
  <2>2. r.len = t.len /\ r.data = t.data /\ r.block = t.block
    BY ONLY <2>1, <1>1 DEF Target
  <2>3. QED
    BY <2>2, RoomySame
<1>4. CASE t.listed /\ t.conn = "done" /\ t.data # 0
  <2>1. PICK f \in Flush(t) : r = [f EXCEPT !.listed = f.data > 0 /\ ~del]
    BY <1>4 DEF Iter
  <2>2. f \in Target /\ Roomy(f, c)
    BY <1>1, <1>4, Flushes, RoomAfterFlush DEF Consistent
  <2>3. r.len = f.len /\ r.data = f.data /\ r.block = f.block
    BY ONLY <2>1, <2>2 DEF Target
  <2>4. QED
    BY <2>2, <2>3, RoomySame
<1>5. QED
  BY <1>1, <1>2, <1>3, <1>4

\* A buffer at its limit can be shrunk once, and only when little is in it;
\* the second time takes it below the limit.
LEMMA RoomAfterShrink ==
  ASSUME NEW t, Consistent(t), NEW c, Roomy(t, c)
  PROVE  Roomy(Shrink(t), c)
<1>1. t \in Target /\ t.len \in Nat /\ t.data \in Nat
  BY DEF Consistent, Target
<1>2. CASE t.len < Mega \/ t.data >= t.len \div 3
  BY <1>2 DEF Shrink
<1>3. CASE ~(t.len < Mega \/ t.data >= t.len \div 3)
  <2> DEFINE r == Shrink(t)
  <2>1. r.data = t.data /\ r.block = t.block /\ r.len = (2 * t.len) \div 3
    BY <1>1, <1>3 DEF Shrink, Target
  <2> HIDE DEF r
  <2>2. t.data < t.len \div 3 /\ (2 * t.len) \div 3 <= t.len
    BY <1>1, <1>3
  <2>3. CASE ~AtLimit(t)
    <3>1. ~AtLimit(r)
      BY <2>1, <2>2, <2>3, <1>1, Sizes DEF AtLimit
    <3>2. QED
      BY <3>1, NotAtLimit DEF r
  <2>4. CASE AtLimit(t) /\ t.len = (2 * Full) \div 3
    <3>1. r.len < MaxExpand
      BY <2>1, <2>4, Sizes
    <3>2. ~AtLimit(r)
      BY <3>1, <2>1, <1>1, Sizes DEF AtLimit
    <3>3. QED
      BY <3>2, NotAtLimit DEF r
  <2>5. CASE AtLimit(t) /\ t.len = Full
    <3>1. r.len = (2 * Full) \div 3
      BY <2>1, <2>5
    <3>2. r.len - r.data >= SendSize + (2 * Mega) \div 3
      BY <2>1, <2>2, <2>5, <1>1, Sizes
    <3>3. \A n \in PackLens : r.len - r.data >= Reserve(n)
      <4>1. r.len \in Nat /\ r.data \in Nat
        BY <2>1, <1>1
      <4>2. QED
        BY <3>2, <4>1, Sizes, Reserves
    <3>4. QED
      BY <3>1, <3>3 DEF r, Roomy, Spacious, Full
  <2>6. QED
    BY <2>3, <2>4, <2>5 DEF Roomy, Full
<1>4. QED
  BY <1>2, <1>3

\* A connection that comes up starts with a short buffer.
LEMMA RoomAfterConnect ==
  ASSUME NEW t, Consistent(t), NEW n \in 1 .. PackMax, NEW r \in Connect(t, n)
  PROVE  ~AtLimit(r)
<1> DEFINE u == [t EXCEPT !.conn = "done", !.len = 0, !.data = 0]
<1>1. t \in Target
  BY DEF Consistent
<1>2. u \in Target /\ u.conn = "done" /\ u.len = 0 /\ u.data = 0
  BY ONLY <1>1 DEF Target
<1>3. r \in {u} \cup InnerSend(u, n)
  BY DEF Connect
<1> HIDE DEF u
<1>4. CASE r = u
  BY <1>2, <1>4, RoomAfterGrow
<1>5. CASE r \in InnerSend(u, n)
  <2> DEFINE g == Grow(u)
  <2>1. ~AtLimit(g) /\ g.conn = "done" /\ g.data = 0 /\ g \in Target
    <3>1. ~AtLimit(g) /\ ~AtLimit(u)
      BY <1>2, RoomAfterGrow
    <3>2. g = [u EXCEPT !.len = InitLen]
      BY <1>2, <3>1 DEF Grow, AtLimit
    <3>3. InitLen \in Nat
      BY Sizes
    <3> HIDE DEF g
    <3>4. g.conn = u.conn /\ g.data = u.data /\ g \in Target
      BY ONLY <1>2, <3>2, <3>3 DEF Target
    <3>5. QED
      BY <1>2, <3>1, <3>4
  <2> DEFINE s == Add(List(g), n)
  <2> DEFINE v == [s EXCEPT !.dropped = FALSE]
  <2>2. r \in {List(f) : f \in Flush(v)}
    <3> DEFINE store(f) == [Add(List(f), n) EXCEPT !.dropped = FALSE]
    <3> DEFINE after(f) ==
          IF f.conn = "none" THEN {f}
          ELSE IF f.data > 0 THEN {store(f)}
          ELSE {List(h) : h \in Flush(store(f))}
    <3> DEFINE w == IF u.len = 0 THEN Grow(u) ELSE u
    <3>1. r \in IF w.data > 0 THEN UNION {after(f) : f \in Flush(w)} ELSE after(w)
      BY <1>5 DEF InnerSend
    <3>2. w = g
      BY <1>2
    <3> HIDE DEF after, w, g
    <3>3. ~(g.data > 0) /\ g.conn # "none"
      BY <2>1
    <3>4. r \in after(g)
      BY <3>1, <3>2, <3>3
    <3>5. after(g) = {List(h) : h \in Flush(store(g))}
      BY <3>3 DEF after
    <3>6. QED
      BY <3>4, <3>5
  <2> HIDE DEF g
  <2>3. List(g) = g
    BY <2>1 DEF List
  <2>4. s.len = g.len /\ s \in Target
    <3>0. s = Add(g, n) /\ ~(g.data > 0)
      BY <2>1, <2>3
    <3>1. s = [g EXCEPT !.data = g.data + StlvLen(n)] \/ s = [g EXCEPT !.dropped = TRUE]
      BY ONLY <3>0 DEF Add
    <3>2. g.data + StlvLen(n) \in Nat
      BY <2>1, Sizes DEF StlvLen
    <3> HIDE DEF s
    <3>3. QED
      BY ONLY <2>1, <3>1, <3>2 DEF Target
  <2> HIDE DEF s
  <2>5. v \in Target /\ v.len = s.len
    BY ONLY <2>4 DEF Target
  <2> HIDE DEF v
  <2>6. PICK f \in Flush(v) : r = List(f)
    BY <2>2
  <2>7. f \in Target /\ (f.len = 0 \/ f.len = v.len)
    <3>1. CASE f = Close(v)
      BY <3>1, <2>5, Closes
    <3>2. CASE f = Block(v)
      BY <3>2, <2>5, Blocks
    <3>3. CASE f = [v EXCEPT !.data = 0, !.block = FALSE]
      BY <3>3, <2>5, Empties
    <3>4. ASSUME NEW d \in 1 .. v.data - 1,
                 f \in {Block([v EXCEPT !.data = d]), Review([v EXCEPT !.data = d])}
          PROVE  f \in Target /\ f.len = v.len
      <4> DEFINE w == [v EXCEPT !.data = d]
      <4>1. w \in Target /\ w.len = v.len
        BY <2>5, Sends
      <4> HIDE DEF w
      <4>2. f = Block(w) \/ f = Review(w)
        BY <3>4 DEF w
      <4>3. QED
        BY <4>1, <4>2, Blocks, Reviews
    <3>5. QED
      BY <3>1, <3>2, <3>3, <3>4 DEF Flush
  <2>8. r.len = f.len
    BY <2>6, <2>7, Lists
  <2>9. QED
    BY <2>1, <2>4, <2>5, <2>7, <2>8, Sizes DEF AtLimit
<1>6. QED
  BY <1>3, <1>4, <1>5

LEMMA RoomAfterClose ==
  ASSUME NEW t \in Target
  PROVE  ~AtLimit(Close(t)) /\ ~AtLimit(NewTarget)
  BY Closes, Sizes DEF AtLimit, NewTarget

-----------------------------------------------------------------------------
(* What is under way to a target.                                          *)

PLen(p) == p.len
Weight(p, id) == IF p.to = id THEN StlvLen(p.len) ELSE 0

LensOf(q) == [i \in DOMAIN q |-> q[i].len]

LEMMA Weights ==
  ASSUME NEW p \in Packet, NEW id
  PROVE  /\ p.len \in 1 .. PackMax /\ p.len \in Nat /\ Weight(p, id) \in Nat
         /\ Weight(p, id) <= p.len + Over
<1>1. p.len \in 1 .. PackMax
  BY Lengths
<1>2. QED
  BY <1>1, Sizes DEF Weight, StlvLen

LEMMA LoadsAre ==
  ASSUME NEW q \in Seq(Packet), NEW id
  PROVE  /\ LensOf(q) \in Seq(Nat) /\ Len(LensOf(q)) = Len(q)
         /\ Loads(q, id) \in Seq(Nat) /\ Len(Loads(q, id)) = Len(q)
         /\ Bytes(q) = Total(LensOf(q)) /\ Bytes(q) \in Nat /\ Total(Loads(q, id)) \in Nat
         /\ \A i \in 1 .. Len(q) :
              q[i] \in Packet /\ LensOf(q)[i] = PLen(q[i]) /\ Loads(q, id)[i] = Weight(q[i], id)
<1>1. \A i \in 1 .. Len(q) : q[i] \in Packet /\ q[i].len \in Nat /\ Weight(q[i], id) \in Nat
  BY Weights
<1>2. Loads(q, id) = [i \in 1 .. Len(q) |-> Weight(q[i], id)]
  BY DEF Loads, Weight
<1>3. LensOf(q) = [i \in 1 .. Len(q) |-> q[i].len]
  BY DEF LensOf
<1>4. Len(q) \in Nat
  OBVIOUS
<1>5. LensOf(q) \in Seq(Nat) /\ Len(LensOf(q)) = Len(q)
  BY <1>1, <1>3, <1>4
<1>6. Loads(q, id) \in Seq(Nat) /\ Len(Loads(q, id)) = Len(q)
  BY <1>1, <1>2, <1>4
<1>7. Bytes(q) = Total(LensOf(q))
  BY DEF Bytes, LensOf
<1>8. QED
  BY <1>1, <1>2, <1>3, <1>5, <1>6, <1>7, TotalIs DEF PLen

LEMMA SameNumbers ==
  ASSUME NEW u \in Seq(Nat), NEW v \in Seq(Nat), Len(u) = Len(v),
         \A i \in 1 .. Len(u) : u[i] = v[i]
  PROVE  u = v
  OBVIOUS

LEMMA NumberAppended ==
  ASSUME NEW u \in Seq(Nat), NEW x \in Nat
  PROVE  /\ Append(u, x) \in Seq(Nat) /\ Len(Append(u, x)) = Len(u) + 1
         /\ Append(u, x)[Len(u) + 1] = x
         /\ \A i \in 1 .. Len(u) : Append(u, x)[i] = u[i]
  OBVIOUS

LEMMA NumberTaken ==
  ASSUME NEW u \in Seq(Nat), Len(u) > 0
  PROVE  /\ Tail(u) \in Seq(Nat) /\ Len(Tail(u)) = Len(u) - 1 /\ u # <<>>
         /\ \A i \in 1 .. Len(u) - 1 : Tail(u)[i] = u[i + 1]
  OBVIOUS

\* A packet more in the channel.
LEMMA LoadsAppend ==
  ASSUME NEW q \in Seq(Packet), NEW p \in Packet, NEW id
  PROVE  /\ Bytes(Append(q, p)) = Bytes(q) + p.len
         /\ Total(Loads(Append(q, p), id)) = Total(Loads(q, id)) + Weight(p, id)
<1> DEFINE r == Append(q, p)
<1>1. /\ r \in Seq(Packet) /\ Len(r) = Len(q) + 1 /\ r[Len(q) + 1] = p /\ Len(q) \in Nat
      /\ \A i \in 1 .. Len(q) : r[i] = q[i]
  OBVIOUS
<1> HIDE DEF r
<1>2. PLen(p) \in Nat /\ Weight(p, id) \in Nat
  BY Weights DEF PLen
<1>a. /\ LensOf(q) \in Seq(Nat) /\ Len(LensOf(q)) = Len(q)
      /\ Loads(q, id) \in Seq(Nat) /\ Len(Loads(q, id)) = Len(q)
      /\ \A i \in 1 .. Len(q) : LensOf(q)[i] = PLen(q[i]) /\ Loads(q, id)[i] = Weight(q[i], id)
  BY <1>1, LoadsAre
<1>b. /\ LensOf(r) \in Seq(Nat) /\ Len(LensOf(r)) = Len(r)
      /\ Loads(r, id) \in Seq(Nat) /\ Len(Loads(r, id)) = Len(r)
      /\ \A i \in 1 .. Len(r) : LensOf(r)[i] = PLen(r[i]) /\ Loads(r, id)[i] = Weight(r[i], id)
  BY <1>1, LoadsAre
<1>3. LensOf(r) = Append(LensOf(q), PLen(p))
  <2> DEFINE u == LensOf(r)
  <2> DEFINE v == LensOf(q)
  <2>1. /\ u \in Seq(Nat) /\ v \in Seq(Nat) /\ Len(u) = Len(q) + 1 /\ Len(v) = Len(q)
        /\ u[Len(q) + 1] = PLen(p) /\ \A i \in 1 .. Len(q) : u[i] = v[i]
    BY <1>1, <1>a, <1>b
  <2> HIDE DEF u, v
  <2>2. u = Append(v, PLen(p))
    BY <2>1, <1>1, <1>2, NumberAppended, SameNumbers
  <2>3. QED
    BY <2>2 DEF u, v
<1>4. Loads(r, id) = Append(Loads(q, id), Weight(p, id))
  <2> DEFINE u == Loads(r, id)
  <2> DEFINE v == Loads(q, id)
  <2> DEFINE x == Weight(p, id)
  <2>1. /\ u \in Seq(Nat) /\ v \in Seq(Nat) /\ Len(u) = Len(q) + 1 /\ Len(v) = Len(q)
        /\ u[Len(q) + 1] = x /\ \A i \in 1 .. Len(q) : u[i] = v[i]
    BY <1>1, <1>a, <1>b
  <2>2. x \in Nat
    BY <1>2
  <2> HIDE DEF u, v, x
  <2>3. u = Append(v, x)
    BY <2>1, <2>2, <1>1, NumberAppended, SameNumbers
  <2>4. QED
    BY <2>3 DEF u, v, x
<1>5. QED
  BY <1>1, <1>2, <1>3, <1>4, LoadsAre, TotalAppend, ZenonT(60) DEF r, PLen

\* The first packet is taken.
LEMMA LoadsTail ==
  ASSUME NEW q \in Seq(Packet), q # <<>>, NEW id
  PROVE  /\ Head(q) \in Packet /\ Tail(q) \in Seq(Packet)
         /\ Bytes(q) = Head(q).len + Bytes(Tail(q))
         /\ Total(Loads(q, id)) = Weight(Head(q), id) + Total(Loads(Tail(q), id))
<1> DEFINE r == Tail(q)
<1> DEFINE p == Head(q)
<1>1. /\ r \in Seq(Packet) /\ Len(q) = Len(r) + 1 /\ p = q[1] /\ p \in Packet /\ Len(r) \in Nat
      /\ \A i \in 1 .. Len(r) : r[i] = q[i + 1]
  OBVIOUS
<1> HIDE DEF r, p
<1>2. \A i \in 1 .. Len(r) : i + 1 \in 1 .. Len(q)
  BY <1>1
<1>a. /\ LensOf(q) \in Seq(Nat) /\ Len(LensOf(q)) = Len(q)
      /\ Loads(q, id) \in Seq(Nat) /\ Len(Loads(q, id)) = Len(q)
      /\ \A i \in 1 .. Len(q) : LensOf(q)[i] = PLen(q[i]) /\ Loads(q, id)[i] = Weight(q[i], id)
  BY <1>1, LoadsAre
<1>b. /\ LensOf(r) \in Seq(Nat) /\ Len(LensOf(r)) = Len(r)
      /\ Loads(r, id) \in Seq(Nat) /\ Len(Loads(r, id)) = Len(r)
      /\ \A i \in 1 .. Len(r) : LensOf(r)[i] = PLen(r[i]) /\ Loads(r, id)[i] = Weight(r[i], id)
  BY <1>1, LoadsAre
<1>3. LensOf(r) = Tail(LensOf(q)) /\ LensOf(q) # <<>> /\ LensOf(q)[1] = PLen(p)
  <2> DEFINE u == LensOf(r)
  <2> DEFINE v == LensOf(q)
  <2>1. /\ u \in Seq(Nat) /\ v \in Seq(Nat) /\ Len(u) = Len(r) /\ Len(v) = Len(r) + 1
        /\ v[1] = PLen(p) /\ \A i \in 1 .. Len(r) : u[i] = v[i + 1]
    BY <1>1, <1>2, <1>a, <1>b
  <2> HIDE DEF u, v
  <2>2. u = Tail(v) /\ v # <<>>
    BY <2>1, <1>1, NumberTaken, SameNumbers
  <2>3. QED
    BY <2>1, <2>2 DEF u, v
<1>4. Loads(r, id) = Tail(Loads(q, id)) /\ Loads(q, id) # <<>> /\ Loads(q, id)[1] = Weight(p, id)
  <2> DEFINE u == Loads(r, id)
  <2> DEFINE v == Loads(q, id)
  <2>1. /\ u \in Seq(Nat) /\ v \in Seq(Nat) /\ Len(u) = Len(r) /\ Len(v) = Len(r) + 1
        /\ v[1] = Weight(p, id) /\ \A i \in 1 .. Len(r) : u[i] = v[i + 1]
    BY <1>1, <1>2, <1>a, <1>b
  <2> HIDE DEF u, v
  <2>2. u = Tail(v) /\ v # <<>>
    BY <2>1, <1>1, NumberTaken, SameNumbers
  <2>3. QED
    BY <2>1, <2>2 DEF u, v
<1>5. Total(LensOf(q)) = PLen(p) + Total(LensOf(r)) /\ Total(Loads(q, id)) = Weight(p, id) + Total(Loads(r, id))
  BY <1>3, <1>4, LoadsAre, TotalTail
<1>6. QED
  BY <1>1, <1>5, LoadsAre DEF r, p, PLen

\* A call that has read the bit, and none.
LEMMA LoadsOne ==
  ASSUME NEW id
  PROVE  /\ Total(Loads(<<>>, id)) = 0
         /\ \A p \in Packet : Total(Loads(<<p>>, id)) = Weight(p, id)
<1>1. Loads(<<>>, id) = <<>>
  BY DEF Loads
<1>2. Total(Loads(<<>>, id)) = 0
  BY <1>1, TotalNone
<1>3. ASSUME NEW p \in Packet PROVE Total(Loads(<<p>>, id)) = Weight(p, id)
  <2>1. <<p>> = Append(<<>>, p) /\ <<>> \in Seq(Packet)
    OBVIOUS
  <2>2. Total(Loads(<<p>>, id)) = Total(Loads(<<>>, id)) + Weight(p, id)
    BY <2>1, LoadsAppend
  <2>3. QED
    BY <2>2, <1>2, Weights
<1>4. QED
  BY <1>2, <1>3

\* The shortest packet.
LEMMA Shortest == \E n \in PackLens : \A k \in PackLens : n <= k
<1> DEFINE T == {m \in Nat : \A k \in PackLens : k > m}
<1>1. SUFFICES ASSUME \A n \in PackLens : \E k \in PackLens : ~(n <= k) PROVE FALSE
  OBVIOUS
<1>2. PackLens \subseteq Nat /\ PackLens # {} /\ \A n \in PackLens : n > 0
  BY LensAssumption, Sizes
<1>3. 0 \in T
  BY <1>2
<1>4. ASSUME NEW m \in Nat, m \in T PROVE m + 1 \in T
  <2>1. SUFFICES ASSUME NEW k \in PackLens, ~(k > m + 1) PROVE FALSE
    OBVIOUS
  <2>2. k = m + 1
    BY <2>1, <1>2, <1>4
  <2>3. PICK j \in PackLens : ~(k <= j)
    BY <1>1
  <2>4. QED
    BY <2>2, <2>3, <1>2, <1>4
<1> HIDE DEF T
<1>5. \A m \in Nat : m \in T
  BY <1>3, <1>4, Steps
<1>6. PICK n \in PackLens : TRUE
  BY <1>2
<1>7. QED
  BY <1>2, <1>5, <1>6 DEF T

LEMMA Quotient ==
  ASSUME NEW n \in Nat \ {0}, NEW l \in Nat, NEW s \in Nat, n * l <= s
  PROVE  l <= s \div n /\ s \div n \in Nat
  OBVIOUS

\* All that can come to a target, were it the only one, fits in a buffer that
\* is not blocked.
LEMMA AllIsBearable ==
  ASSUME NEW q \in Seq(Packet), Bytes(q) < SendSize, NEW id, NEW x \in Nat, x <= PackMax + Over
  PROVE  Bearable(Total(Loads(q, id)) + x + OwnRoom + SafeOver - Over)
<1>0. OwnRoom \in Nat
  BY LensAssumption
<1>1. PICK n \in PackLens : \A k \in PackLens : n <= k
  BY Shortest
<1>2. n \in Nat \ {0} /\ Over \in Nat
  BY Reserves, Sizes
<1>3. \A i \in 1 .. Len(q) : n <= LensOf(q)[i] /\ Loads(q, id)[i] <= LensOf(q)[i] + Over
  <2>1. ASSUME NEW i \in 1 .. Len(q) PROVE n <= q[i].len /\ Weight(q[i], id) <= q[i].len + Over
    <3> DEFINE p == q[i]
    <3>1. p \in Packet
      OBVIOUS
    <3> HIDE DEF p
    <3>2. p.len \in PackLens
      BY <3>1 DEF Packet
    <3>3. n <= p.len /\ Weight(p, id) <= p.len + Over
      BY <3>1, <3>2, <1>1, Weights
    <3>4. QED
      BY <3>3 DEF p
  <2>2. QED
    BY <2>1, LoadsAre DEF PLen
<1>4. n * Len(q) <= Bytes(q) /\ Total(Loads(q, id)) <= Bytes(q) + Over * Len(q)
  <2> DEFINE w == LensOf(q)
  <2> DEFINE v == Loads(q, id)
  <2>1. /\ w \in Seq(Nat) /\ v \in Seq(Nat) /\ Len(v) = Len(w) /\ Len(w) = Len(q)
        /\ Bytes(q) = Total(w)
    BY LoadsAre
  <2>2. \A i \in 1 .. Len(w) : n <= w[i] /\ v[i] <= w[i] + Over
    BY <1>3, <2>1
  <2> HIDE DEF w, v
  <2>3. n * Len(w) <= Total(w) /\ Total(v) <= Total(w) + Over * Len(w)
    BY <1>2, <2>1, <2>2, TotalBounds
  <2>4. QED
    BY <2>1, <2>3 DEF v
<1> DEFINE l == Len(q)
<1> DEFINE k == (SendSize - 1) \div n
<1>5. l \in Nat /\ Bytes(q) \in Nat /\ Total(Loads(q, id)) \in Nat /\ Bytes(q) <= SendSize - 1
  BY LoadsAre, Sizes
<1>6. n * l <= SendSize - 1 /\ SendSize - 1 \in Nat
  <2>1. n * l \in Nat
    BY <1>2, <1>5
  <2>2. QED
    BY <2>1, <1>4, <1>5, Sizes
<1>7. l <= k /\ k \in Nat
  BY <1>2, <1>5, <1>6, Quotient
<1>8. Reserve(n) = SendSize + PackMax + SafeOver + OwnRoom + (k + 1) * Over
  BY DEF Reserve
<1> HIDE DEF l, k
<1>9. Over * l <= k * Over /\ (k + 1) * Over = k * Over + Over /\ k * Over \in Nat /\ Over * l \in Nat
  BY <1>2, <1>5, <1>7
<1>10. Total(Loads(q, id)) + x + OwnRoom + SafeOver - Over + 1 <= Reserve(n)
  <2> DEFINE a == k * Over
  <2> DEFINE b == Over * l
  <2> DEFINE c == Total(Loads(q, id))
  <2>1. /\ c \in Nat /\ a \in Nat /\ b \in Nat /\ b <= a /\ c <= SendSize - 1 + b
        /\ Reserve(n) = SendSize + PackMax + SafeOver + OwnRoom + (a + Over)
    <3>1. c \in Nat /\ a \in Nat /\ b \in Nat /\ b <= a
      BY <1>5, <1>9
    <3>2. c <= Bytes(q) + b
      BY <1>4 DEF l
    <3>3. Reserve(n) = SendSize + PackMax + SafeOver + OwnRoom + (a + Over)
      BY <1>8, <1>9
    <3> HIDE DEF a, b, c
    <3>4. c <= SendSize - 1 + b
      BY <3>1, <3>2, <1>5, Sizes
    <3>5. QED
      BY <3>1, <3>3, <3>4
  <2> HIDE DEF a, b, c
  <2>2. c + x + OwnRoom + SafeOver - Over + 1 <= Reserve(n)
    BY <2>1, <1>0, Sizes
  <2>3. QED
    BY <2>2 DEF c
<1>11. Total(Loads(q, id)) + x + OwnRoom + SafeOver - Over \in Nat
  BY <1>0, <1>5, Sizes
<1>12. QED
  BY <1>10, <1>11 DEF Bearable

-----------------------------------------------------------------------------
(* The room is kept.                                                       *)

\* What a target needs, with load bytes under way and k of the carrier's own.
Left(load, k) == IF k > OwnRoom THEN 0 ELSE load + OwnRoom - k + SafeOver - Over

Most(load) == load + OwnRoom + SafeOver - Over

LEMMA Lefts ==
  ASSUME NEW load \in Nat, NEW k \in 0 .. OwnRoom + 1
  PROVE  Left(load, k) \in Nat /\ Left(load, k) <= Most(load) /\ Most(load) \in Nat
<1>1. OwnRoom \in Nat
  BY LensAssumption
<1>2. QED
  BY <1>1, Sizes DEF Left, Most

LEMMA NeedIsLeft == \A id : Need(id) = Left(Load(id), own[id]) /\ Need(id)' = Left(Load(id)', own'[id])
  BY DEF Need, Left

LEMMA GivenLoads ==
  ASSUME Sound, RoomIsKept
  PROVE  /\ chan \in Seq(Packet) /\ sending \in Seq(Packet)
         /\ \A id : Load(id) \in Nat /\ Bearable(Most(Load(id)))
         /\ \A id \in Ids : /\ targets[id] \in Target /\ Consistent(targets[id])
                            /\ own[id] \in 0 .. OwnRoom + 1 /\ Need(id) \in Nat
<1>1. chan \in Seq(Packet) /\ sending \in {<<>>} \cup {<<p>> : p \in Packet}
  BY DEF Sound, TypeOK
<1>2. sending \in Seq(Packet)
  <2>1. <<>> \in Seq(Packet) /\ \A p \in Packet : <<p>> \in Seq(Packet)
    OBVIOUS
  <2>2. QED
    BY <1>1, <2>1
<1>3. ASSUME NEW id PROVE Load(id) \in Nat /\ Bearable(Most(Load(id)))
  <2> DEFINE x == Total(Loads(sending, id))
  <2>1. x \in Nat /\ Total(Loads(chan, id)) \in Nat
    BY <1>1, <1>2, LoadsAre
  <2>2. x <= PackMax + Over
    <3>1. CASE sending = <<>>
      BY <3>1, LoadsOne, Sizes
    <3>2. ASSUME NEW p \in Packet, sending = <<p>> PROVE x <= PackMax + Over
      <4>1. x = Weight(p, id)
        BY <3>2, LoadsOne
      <4> HIDE DEF x
      <4>2. QED
        BY <4>1, Weights, Sizes
    <3>3. QED
      BY <3>1, <3>2, <1>1
  <2> HIDE DEF x
  <2>3. Bytes(chan) < SendSize
    BY DEF RoomIsKept
  <2>4. Bearable(Total(Loads(chan, id)) + x + OwnRoom + SafeOver - Over)
    BY <1>1, <2>1, <2>2, <2>3, AllIsBearable
  <2>5. QED
    BY <2>1, <2>4 DEF Load, x, Most
<1>4. ASSUME NEW id \in Ids PROVE own[id] \in 0 .. OwnRoom + 1 /\ Need(id) \in Nat
  <2>1. own[id] \in 0 .. OwnRoom + 1
    BY Given
  <2>2. QED
    BY <1>3, <2>1, Lefts, NeedIsLeft
<1>5. QED
  BY <1>1, <1>2, <1>3, <1>4, Given DEF Consistent

\* Where nothing is blocked nothing is needed, before a handler or after it.
LEMMA RoomChange ==
  ASSUME NEW t, NEW r, NEW c \in Nat, NEW d \in Nat, Roomy(t, c),
         \A k \in Nat : Roomy(t, k) => Roomy(r, k),
         t.block /\ r.block => c = d
  PROVE  Roomy(r, d)
<1>1. CASE ~t.block
  <2>1. Roomy(t, d)
    BY <1>1 DEF Roomy
  <2>2. QED
    BY <2>1
<1>2. CASE ~r.block
  <2>1. Roomy(r, c)
    OBVIOUS
  <2>2. QED
    BY <1>2, <2>1 DEF Roomy
<1>3. QED
  BY <1>1, <1>2

\* A handler that leaves the channel alone and sends no packet of its own.
LEMMA HandlerRoom ==
  ASSUME Sound, RoomIsKept, UNCHANGED chan, NEW new, Becomes(new, Nothing),
         \A id \in Ids : ~new[id].dropped /\ \A k \in Nat : Roomy(targets[id], k) => Roomy(new[id], k)
  PROVE  RoomIsKept'
<1>1. /\ targets' = new /\ sending' = sending
      /\ own' = [id \in Ids |-> IF new[id].block THEN Counted(own[id] + Nothing[id]) ELSE 0]
  BY DEF Becomes
<1>2. \A id : Load(id)' = Load(id)
  BY <1>1 DEF Load
<1>3. Bytes(chan') < SendSize
  BY DEF RoomIsKept
<1>4. ASSUME NEW id \in Ids, id % 8 # 7
      PROVE  ~targets'[id].dropped /\ Roomy(targets'[id], Need(id)')
  <2>1. own[id] \in 0 .. OwnRoom + 1 /\ Load(id) \in Nat /\ Need(id) \in Nat
    BY GivenLoads
  <2>2. own'[id] = IF new[id].block THEN own[id] ELSE 0
    <3>1. own[id] + Nothing[id] = own[id] /\ own[id] \in Nat
      BY <2>1, LensAssumption DEF Nothing
    <3>2. Counted(own[id]) = own[id]
      BY <2>1, <3>1, Counts
    <3>3. QED
      BY <1>1, <3>1, <3>2
  <2>3. own'[id] \in 0 .. OwnRoom + 1
    BY <2>1, <2>2, LensAssumption
  <2>4. Need(id)' \in Nat
    BY <1>2, <2>1, <2>3, Lefts, NeedIsLeft
  <2>5. new[id].block => Need(id)' = Need(id)
    BY <1>2, <2>2, NeedIsLeft
  <2>6. Roomy(targets[id], Need(id))
    BY <1>4 DEF RoomIsKept
  <2> DEFINE c == Need(id)
  <2> DEFINE d == Left(Load(id)', own'[id])
  <2>7. c \in Nat /\ d \in Nat /\ d = Need(id)' /\ Roomy(targets[id], c) /\ (new[id].block => d = c)
    BY <2>1, <2>4, <2>5, <2>6, NeedIsLeft
  <2> HIDE DEF c, d
  <2>8. Roomy(new[id], d)
    BY <2>7, RoomChange
  <2>9. QED
    BY <1>1, <2>7, <2>8
<1>5. QED
  BY <1>3, <1>4 DEF RoomIsKept

\* What a handler of a single target leaves of the others.
LEMMA NowRoomy ==
  ASSUME Sound, NEW id \in Ids
  PROVE  ~Now[id].dropped /\ \A k : Roomy(targets[id], k) <=> Roomy(Now[id], k)
  BY GivenNow, RoomySame

\* The same for a handler of a single target.
LEMMA HandlerRoomAt ==
  ASSUME Sound, RoomIsKept, UNCHANGED chan, NEW id \in Ids, NEW S, BecomesAt(id, S),
         \A t \in S : Consistent(t) /\ ~t.dropped /\ \A k \in Nat : Roomy(Now[id], k) => Roomy(t, k)
  PROVE  RoomIsKept'
<1>1. PICK t \in S : Becomes([Now EXCEPT ![id] = t], Nothing)
  BY DEF BecomesAt
<1> DEFINE new == [Now EXCEPT ![id] = t]
<1>2. Becomes(new, Nothing)
  BY <1>1
<1>3. t \in Target
  BY DEF Consistent
<1>4. new[id] = t /\ \A j \in Ids : j # id => new[j] = Now[j]
  BY <1>3, OneTarget
<1> HIDE DEF new
<1>5. \A j \in Ids : ~new[j].dropped /\ \A k \in Nat : Roomy(targets[j], k) => Roomy(new[j], k)
  BY <1>4, NowRoomy
<1>6. QED
  BY <1>2, <1>5, HandlerRoom

\* A handler of a single target that stores a packet of n bytes and of which
\* own counts x, the load before it and after it.
LEMMA Spends ==
  ASSUME NEW load \in Nat, NEW after \in Nat, NEW k \in 0 .. OwnRoom + 1,
         NEW x \in Nat, NEW w \in Nat, after = load - (w - x), x \in {0, w}
  PROVE  LET c == Left(load, k)
             d == Left(after, Counted(k + x))
         IN /\ c \in Nat /\ d \in Nat
            /\ d = 0 \/ d + w <= c
            /\ d = 0 \/ d + w <= Most(load)
<1>1. OwnRoom \in Nat /\ k \in Nat /\ k + x \in Nat
  BY LensAssumption
<1>2. QED
  BY <1>1, Sizes DEF Left, Most, Counted

LEMMA DispatchBridgeRoom ==
  ASSUME Sound, RoomIsKept, DispatchBridge
  PROVE  RoomIsKept'
<1> DEFINE p == Head(chan)
<1> DEFINE i == p.to
<1> DEFINE n == p.len
<1>1. chan # <<>> /\ chan' = Tail(chan) /\ BecomesAt(i, Dispatch(Now[i], n))
  BY DEF DispatchBridge, Fetch
<1>2. PICK r \in Dispatch(Now[i], n) : Becomes([Now EXCEPT ![i] = r], Nothing)
  BY <1>1 DEF BecomesAt
<1>3. \A id : /\ p \in Packet /\ chan' \in Seq(Packet)
              /\ Bytes(chan) = p.len + Bytes(chan')
              /\ Total(Loads(chan, id)) = Weight(p, id) + Total(Loads(chan', id))
  BY <1>1, GivenLoads, LoadsTail
<1>4. i \in Ids /\ n \in 1 .. PackMax /\ p \in Packet
  BY <1>3, Lengths DEF Packet
<1>5. n \in Nat /\ Bytes(chan') \in Nat /\ Bytes(chan) < SendSize
  BY <1>3, Weights, LoadsAre DEF RoomIsKept
<1>6. Bytes(chan') < SendSize /\ n < SendSize
  <2>1. Bytes(chan) = n + Bytes(chan')
    BY <1>3
  <2> HIDE DEF n
  <2>2. QED
    BY <2>1, <1>5, Sizes
<1>7. r \in Target /\ Consistent(r)
  BY <1>2, <1>4, GivenNow, DispatchKeeps DEF Consistent
<1> DEFINE new == [Now EXCEPT ![i] = r]
<1>8. new[i] = r /\ \A id \in Ids : id # i => new[id] = Now[id]
  BY <1>4, <1>7, OneTarget
<1>9. /\ targets' = new /\ sending' = sending
      /\ own' = [id \in Ids |-> IF new[id].block THEN Counted(own[id] + Nothing[id]) ELSE 0]
  BY <1>2 DEF Becomes
<1> HIDE DEF new
<1>10. ASSUME NEW id
       PROVE  Load(id) = Weight(p, id) + Load(id)' /\ Load(id)' \in Nat /\ Weight(p, id) \in Nat
  <2>1. Load(id)' = Total(Loads(chan', id)) + Total(Loads(sending, id))
    BY <1>9 DEF Load
  <2>2. /\ Total(Loads(chan', id)) \in Nat /\ Total(Loads(sending, id)) \in Nat
        /\ Weight(p, id) \in Nat
    BY <1>3, GivenLoads, LoadsAre, Weights
  <2>3. QED
    BY <2>1, <2>2, <1>3 DEF Load
<1>11. ASSUME NEW id \in Ids
       PROVE  own'[id] = IF new[id].block THEN Counted(own[id] + 0) ELSE 0
  BY <1>9 DEF Nothing
<1>12. ASSUME NEW id \in Ids, id % 8 # 7
       PROVE  (targets'[id].dropped => own'[id] > OwnRoom) /\ Roomy(targets'[id], Need(id)')
  <2> DEFINE a == Load(id)
  <2> DEFINE b == Load(id)'
  <2> DEFINE k == own[id]
  <2> DEFINE c == Left(a, k)
  <2> DEFINE t == Now[id]
  <2>1. a \in Nat /\ b \in Nat /\ k \in 0 .. OwnRoom + 1 /\ Bearable(Most(a)) /\ OwnRoom \in Nat
    BY <1>10, GivenLoads, LensAssumption
  <2>2. /\ Consistent(t) /\ t \in Target /\ ~t.dropped /\ t.block \in BOOLEAN
        /\ Roomy(t, c)
    BY <1>12, GivenNow, NowRoomy, NeedIsLeft DEF RoomIsKept, Target
  <2>3. Need(id)' = Left(b, own'[id])
    BY NeedIsLeft
  <2>4. k + 0 = k /\ Counted(k) = k
    BY <2>1, Counts
  <2>5. own'[id] = IF new[id].block THEN k ELSE 0
    BY <1>11, <2>4
  <2>6. CASE id # i
    <3>1. b = a
      BY <2>6, <1>10 DEF Weight
    <3>2. new[id] = t
      BY <2>6, <1>8
    <3>3. Roomy(t, Left(b, own'[id]))
      BY <2>2, <2>5, <3>1, <3>2 DEF Roomy
    <3>4. QED
      BY <1>9, <2>2, <2>3, <3>2, <3>3
  <2>7. CASE id = i
    <3> DEFINE w == StlvLen(n)
    <3>1. w \in Nat /\ a = w + b
      BY <2>7, <1>10, <1>4, Sizes DEF Weight, StlvLen
    <3>2. r \in Dispatch(t, n) /\ new[id] = r /\ r.block \in BOOLEAN
      BY <2>7, <1>2, <1>7, <1>8 DEF Target
    <3>3. SafeLen(n) = w + SafeOver - Over
      BY <1>5, Sizes DEF SafeLen, StlvLen
    <3>4. SUFFICES (r.dropped => own'[id] > OwnRoom) /\ Roomy(r, Left(b, own'[id]))
      BY <1>9, <2>3, <3>2
    <3> DEFINE d == Left(b, k)
    <3>5. c \in Nat /\ d \in Nat /\ (d = 0 \/ d + w <= c)
      <4> HIDE DEF a, b, k, w
      <4>1. b = a - (w - 0) /\ 0 \in {0, w} /\ 0 \in Nat
        BY <2>1, <3>1
      <4>2. /\ Left(a, k) \in Nat /\ Left(b, Counted(k + 0)) \in Nat
            /\ Left(b, Counted(k + 0)) = 0 \/ Left(b, Counted(k + 0)) + w <= Left(a, k)
        BY <4>1, <2>1, <3>1, Spends
      <4>3. QED
        BY <4>2, <2>4
    <3>6. CASE t.block
      <4>1. Bearable(c)
        <5>1. c <= Most(a)
          BY <2>1, Lefts
        <5> HIDE DEF c
        <5>2. QED
          BY <5>1, <3>5, <2>1, BearsLess
      <4>2. CASE r.block
        <5>1. own'[id] = k
          BY <4>2, <2>5, <3>2
        <5>2. Roomy(r, d) /\ (r.dropped => c < SafeLen(n))
          <6> HIDE DEF c, d, t
          <6>1. QED
            BY <4>1, <1>4, <1>6, <2>2, <3>2, <3>5, RoomAfterDispatch
        <5>3. k <= OwnRoom => c >= SafeLen(n)
          <6>1. k <= OwnRoom => c = a + OwnRoom - k + SafeOver - Over
            BY <2>1 DEF Left
          <6> HIDE DEF a, b, c, k, w
          <6>2. QED
            BY <6>1, <2>1, <3>1, <3>3, Sizes
        <5>4. r.dropped => k > OwnRoom
          <6> HIDE DEF c, k
          <6>1. SafeLen(n) \in Nat
            BY <1>5, Sizes DEF SafeLen
          <6>2. QED
            BY <5>2, <5>3, <6>1, <3>5, <2>1
        <5>5. QED
          BY <5>1, <5>2, <5>4
      <4>3. CASE ~r.block
        <5>1. Roomy(r, 0) /\ ~r.dropped
          <6> HIDE DEF c, t
          <6>1. QED
            BY <4>1, <4>3, <1>4, <1>6, <2>2, <3>2, RoomAfterDispatch
        <5>2. QED
          BY <4>3, <5>1 DEF Roomy
      <4>4. QED
        BY <4>2, <4>3
    <3>7. CASE ~t.block
      <4> DEFINE e == Most(a)
      <4> DEFINE l == Left(b, own'[id])
      <4>1. Roomy(t, e)
        BY <2>2, <3>7 DEF Roomy
      <4>2. own'[id] \in 0 .. OwnRoom + 1
        BY <2>1, <2>5
      <4>3. l \in Nat /\ (l = 0 \/ l + w <= e) /\ e >= SafeLen(n) /\ e \in Nat
        <5>1. Left(b, own'[id]) \in Nat /\ Left(b, own'[id]) <= Most(b)
          BY <2>1, <4>2, Lefts
        <5>2. Most(a) = Most(b) + w /\ Most(b) \in Nat /\ Most(a) >= SafeLen(n) /\ Most(a) \in Nat
          <6> HIDE DEF a, b, w
          <6>1. QED
            BY <2>1, <3>1, <3>3, Sizes DEF Most
        <5> HIDE DEF a, b, w
        <5>3. QED
          BY <5>1, <5>2, <3>1
      <4>4. Roomy(r, l) /\ (r.dropped => e < SafeLen(n))
        <5> HIDE DEF e, l, t
        <5>1. Bearable(e)
          BY <2>1 DEF e
        <5>2. QED
          BY <5>1, <4>1, <4>3, <1>4, <1>6, <2>2, <3>2, RoomAfterDispatch
      <4>5. ~r.dropped
        <5> HIDE DEF e
        <5>1. SafeLen(n) \in Nat
          BY <1>5, Sizes DEF SafeLen
        <5>2. QED
          BY <4>3, <4>4, <5>1
      <4>6. QED
        BY <4>4, <4>5
    <3>8. QED
      BY <3>6, <3>7
  <2>8. QED
    BY <2>6, <2>7
<1>13. QED
  BY <1>6, <1>12 DEF RoomIsKept

\* A packet of the carrier's own is paid for from OwnRoom.
LEMMA SendInnerRoom ==
  ASSUME Sound, RoomIsKept, NEW i \in Ids, SendInner(i)
  PROVE  RoomIsKept'
<1>1. /\ chan' = chan /\ targets[i].conn = "done"
      /\ \E m \in InnerLens : \E t \in InnerSend(Now[i], m) :
           Becomes([Now EXCEPT ![i] = t], [Nothing EXCEPT ![i] = StlvLen(m)])
  BY DEF SendInner
<1>2. PICK n \in InnerLens :
        \E t \in InnerSend(Now[i], n) :
          Becomes([Now EXCEPT ![i] = t], [Nothing EXCEPT ![i] = StlvLen(n)])
  BY <1>1
<1>3. PICK r \in InnerSend(Now[i], n) :
        Becomes([Now EXCEPT ![i] = r], [Nothing EXCEPT ![i] = StlvLen(n)])
  BY <1>2
<1>4. n \in 1 .. PackMax
  BY Lengths
<1>5. r \in Target /\ Consistent(r) /\ ~r.dropped
  BY <1>1, <1>4, GivenNow, InnerSendKeeps DEF Consistent
<1> DEFINE new == [Now EXCEPT ![i] = r]
<1>6. new[i] = r /\ \A id \in Ids : id # i => new[id] = Now[id]
  BY <1>5, OneTarget
<1>7. /\ targets' = new /\ sending' = sending
      /\ \A id \in Ids :
           own'[id] = IF new[id].block
                      THEN Counted(own[id] + [Nothing EXCEPT ![i] = StlvLen(n)][id]) ELSE 0
  BY <1>3 DEF Becomes
<1> HIDE DEF new
<1>8. \A id : Load(id)' = Load(id)
  BY <1>1, <1>7 DEF Load
<1>9. ASSUME NEW id \in Ids, id % 8 # 7
      PROVE  ~targets'[id].dropped /\ Roomy(targets'[id], Need(id)')
  <2> DEFINE a == Load(id)
  <2> DEFINE k == own[id]
  <2> DEFINE c == Left(a, k)
  <2> DEFINE t == Now[id]
  <2>1. a \in Nat /\ k \in 0 .. OwnRoom + 1 /\ Bearable(Most(a)) /\ OwnRoom \in Nat
    BY GivenLoads, LensAssumption
  <2>2. /\ Consistent(t) /\ t \in Target /\ ~t.dropped /\ t.block \in BOOLEAN
        /\ Roomy(t, c)
    BY <1>9, GivenNow, NowRoomy, NeedIsLeft DEF RoomIsKept, Target
  <2>3. Need(id)' = Left(a, own'[id])
    BY <1>8, NeedIsLeft
  <2>4. CASE id # i
    <3>1. new[id] = t
      BY <2>4, <1>6
    <3>2. own'[id] = IF t.block THEN k ELSE 0
      <4>1. [Nothing EXCEPT ![i] = StlvLen(n)][id] = 0
        BY <2>4 DEF Nothing
      <4>2. k + 0 = k /\ Counted(k) = k
        BY <2>1, Counts
      <4>3. QED
        BY <1>7, <3>1, <4>1, <4>2
    <3>3. Roomy(t, Left(a, own'[id]))
      BY <2>2, <3>2 DEF Roomy
    <3>4. QED
      BY <1>7, <2>2, <2>3, <3>1, <3>3
  <2>5. CASE id = i
    <3> DEFINE w == StlvLen(n)
    <3>1. w \in Nat
      BY <1>4, Sizes DEF StlvLen
    <3>2. r \in InnerSend(t, n) /\ new[id] = r /\ r.block \in BOOLEAN /\ t.conn = "done"
      BY <2>5, <1>1, <1>3, <1>5, <1>6, GivenNow DEF Target
    <3>3. own'[id] = IF r.block THEN Counted(k + w) ELSE 0
      <4>1. [Nothing EXCEPT ![i] = StlvLen(n)][id] = w
        BY <2>5 DEF Nothing
      <4>2. QED
        BY <1>7, <3>2, <4>1
    <3>4. SUFFICES Roomy(r, Left(a, own'[id]))
      BY <1>5, <1>7, <2>3, <3>2
    <3> DEFINE d == Left(a, Counted(k + w))
    <3>5. c \in Nat /\ d \in Nat /\ (d = 0 \/ d + w <= c) /\ (d = 0 \/ d + w <= Most(a))
      <4> HIDE DEF a, k, w
      <4>1. a = a - (w - w) /\ w \in {0, w}
        BY <2>1, <3>1
      <4>2. QED
        BY <4>1, <2>1, <3>1, Spends
    <3>6. CASE ~r.block
      <4>1. \E e : Bearable(e) /\ Roomy(t, e)
        <5>1. CASE t.block
          <6>1. c <= Most(a)
            BY <2>1, Lefts
          <6> HIDE DEF c
          <6>2. QED
            BY <6>1, <3>5, <2>1, <2>2, BearsLess
        <5>2. CASE ~t.block
          <6>1. Roomy(t, Most(a))
            BY <2>2, <5>2 DEF Roomy
          <6>2. QED
            BY <6>1, <2>1
        <5>3. QED
          BY <5>1, <5>2
      <4>2. PICK e : Bearable(e) /\ Roomy(t, e)
        BY <4>1
      <4>3. Roomy(r, 0)
        <5> HIDE DEF t
        <5>1. QED
          BY <4>2, <1>4, <2>2, <3>2, RoomAfterInner
      <4>4. QED
        BY <4>3, <3>6 DEF Roomy
    <3>7. CASE r.block /\ t.block
      <4>1. Bearable(c)
        <5>1. c <= Most(a)
          BY <2>1, Lefts
        <5> HIDE DEF c
        <5>2. QED
          BY <5>1, <3>5, <2>1, BearsLess
      <4>2. Roomy(r, d)
        <5> HIDE DEF c, d, t
        <5>1. QED
          BY <4>1, <1>4, <2>2, <3>2, <3>5, RoomAfterInner
      <4>3. QED
        BY <4>2, <3>3, <3>7
    <3>8. CASE r.block /\ ~t.block
      <4> DEFINE e == Most(a)
      <4>1. Roomy(t, e)
        BY <2>2, <3>8 DEF Roomy
      <4>2. d = 0 \/ d + w <= e
        BY <3>5
      <4>3. Roomy(r, d)
        <5> HIDE DEF d, e, t
        <5>1. Bearable(e)
          BY <2>1 DEF e
        <5>2. QED
          BY <4>1, <4>2, <5>1, <1>4, <2>2, <3>2, <3>5, RoomAfterInner
      <4>4. QED
        BY <4>3, <3>3, <3>8
    <3>9. QED
      BY <3>2, <3>6, <3>7, <3>8
  <2>6. QED
    BY <2>4, <2>5
<1>10. Bytes(chan') < SendSize
  BY <1>1 DEF RoomIsKept
<1>11. QED
  BY <1>9, <1>10 DEF RoomIsKept

LEMMA IterNodeRoom ==
  ASSUME Sound, RoomIsKept, NEW id \in Ids, IterNode(id)
  PROVE  RoomIsKept'
<1>1. UNCHANGED chan /\ BecomesAt(id, Iter(Now[id], walk.del)) /\ walk.del \in BOOLEAN
  BY Given DEF IterNode, Visit
<1>2. Consistent(Now[id]) /\ ~Now[id].dropped
  BY GivenNow
<1>3. QED
  BY <1>1, <1>2, HandlerRoomAt, IterKeeps, RoomAfterIter

LEMMA ConnectTargetRoom ==
  ASSUME Sound, RoomIsKept, NEW id \in Ids, ConnectTarget(id)
  PROVE  RoomIsKept'
<1>1. /\ UNCHANGED chan /\ targets[id].conn = "none"
      /\ \E n \in InnerLens : BecomesAt(id, Connect(Now[id], n))
  BY DEF ConnectTarget
<1>2. PICK n \in InnerLens : BecomesAt(id, Connect(Now[id], n))
  BY <1>1
<1>3. Consistent(Now[id]) /\ ~Now[id].dropped /\ Now[id].conn = "none"
  BY <1>1, GivenNow
<1>4. \A r \in Connect(Now[id], n) : Consistent(r) /\ ~r.dropped /\ ~AtLimit(r)
  BY <1>3, Lengths, ConnectKeeps, RoomAfterConnect
<1>5. QED
  BY <1>1, <1>2, <1>4, HandlerRoomAt, NotAtLimit

LEMMA PeerClosesRoom ==
  ASSUME Sound, RoomIsKept, NEW id \in Ids, PeerCloses(id)
  PROVE  RoomIsKept'
<1>1. UNCHANGED chan /\ BecomesAt(id, {Close(Now[id])})
  BY NowType DEF PeerCloses, BecomesAt
<1>2. Consistent(Now[id]) /\ Now[id] \in Target /\ ~Now[id].dropped
  BY GivenNow
<1>3. QED
  BY <1>1, <1>2, HandlerRoomAt, CloseKeeps, RoomAfterClose, NotAtLimit

LEMMA CheckSndBuffMemoryRoom ==
  ASSUME Sound, RoomIsKept, CheckSndBuffMemory
  PROVE  RoomIsKept'
<1> DEFINE new == [id \in Ids |-> Shrink(Now[id])]
<1>1. UNCHANGED chan /\ Becomes(new, Nothing)
  BY DEF CheckSndBuffMemory
<1>2. ASSUME NEW id \in Ids
      PROVE  /\ ~Shrink(Now[id]).dropped
             /\ \A k \in Nat : Roomy(targets[id], k) => Roomy(Shrink(Now[id]), k)
  <2>1. Consistent(Now[id]) /\ ~Now[id].dropped
    BY GivenNow
  <2>2. QED
    BY <2>1, NowRoomy, ShrinkKeeps, RoomAfterShrink
<1>3. \A id \in Ids : new[id] = Shrink(Now[id])
  OBVIOUS
<1> HIDE DEF new
<1>4. QED
  BY <1>1, <1>2, <1>3, HandlerRoom

LEMMA ReloadRoom ==
  ASSUME Sound, RoomIsKept, NEW changed \in SUBSET Ids, Reload(changed)
  PROVE  RoomIsKept'
<1> DEFINE new == [id \in Ids |-> IF id \in changed THEN Close(Now[id]) ELSE Now[id]]
<1>1. UNCHANGED chan /\ Becomes(new, Nothing)
  BY DEF Reload
<1>2. ASSUME NEW id \in Ids
      PROVE  ~new[id].dropped /\ \A k \in Nat : Roomy(targets[id], k) => Roomy(new[id], k)
  <2>1. new[id] = Close(Now[id]) \/ new[id] = Now[id]
    OBVIOUS
  <2>2. Now[id] \in Target /\ ~Now[id].dropped
    BY GivenNow
  <2> HIDE DEF new
  <2>3. QED
    BY <2>1, <2>2, NowRoomy, Closes, RoomAfterClose, NotAtLimit
<1> HIDE DEF new
<1>3. QED
  BY <1>1, <1>2, HandlerRoom

LEMMA KillCarrierRoom ==
  ASSUME Sound, RoomIsKept, KillCarrier
  PROVE  RoomIsKept'
<1>1. chan' = chan /\ \A id \in Ids : targets'[id] = NewTarget
  BY DEF KillCarrier
<1>2. ~NewTarget.dropped /\ ~AtLimit(NewTarget)
  BY NewKeeps, RoomAfterClose DEF Consistent
<1>3. Bytes(chan') < SendSize
  BY <1>1 DEF RoomIsKept
<1>4. QED
  BY <1>1, <1>2, <1>3, NotAtLimit DEF RoomIsKept

\* A call that finds the bit not set finds a target that is not blocked, and
\* which therefore has room for all that can be under way.
LEMMA SendCheckRoom ==
  ASSUME Sound, RoomIsKept, NEW p \in Packet, SendCheck(p)
  PROVE  RoomIsKept'
<1>1. /\ sending = <<>> /\ ~SndBit(p.to) /\ sending' = <<p>>
      /\ UNCHANGED <<chan, targets, own, bits, running>>
  BY DEF SendCheck
<1>2. ASSUME NEW id
      PROVE  Load(id)' = Load(id) + Weight(p, id)
  <2>1. Load(id)' = Total(Loads(chan, id)) + Weight(p, id)
    BY <1>1, LoadsOne DEF Load
  <2>2. Load(id) = Total(Loads(chan, id)) + 0
    BY <1>1, LoadsOne DEF Load
  <2>3. Total(Loads(chan, id)) \in Nat
    BY GivenLoads, LoadsAre
  <2>4. QED
    BY <2>1, <2>2, <2>3
<1>3. ASSUME NEW id \in Ids, id % 8 # 7
      PROVE  (targets'[id].dropped => own'[id] > OwnRoom) /\ Roomy(targets'[id], Need(id)')
  <2>1. /\ targets[id].dropped => own[id] > OwnRoom
        /\ Roomy(targets[id], Need(id)) /\ Load(id) \in Nat
        /\ targets'[id] = targets[id] /\ own'[id] = own[id]
    BY <1>1, <1>3, GivenLoads DEF RoomIsKept
  <2>2. CASE p.to # id
    <3>1. Load(id)' = Load(id)
      BY <2>1, <2>2, <1>2 DEF Weight
    <3>2. Need(id)' = Need(id)
      BY <2>1, <3>1, NeedIsLeft
    <3>3. QED
      BY <2>1, <3>2
  <2>3. CASE p.to = id
    <3>1. ~bits[id]
      BY <1>1, <1>3, <2>3 DEF SndBit
    <3>2. CASE running
      <4>1. ~targets[id].block
        BY <3>1, <3>2 DEF Sound, BitMeansBacklog
      <4>2. Roomy(targets[id], Need(id)')
        BY <2>1, <4>1 DEF Roomy
      <4>3. QED
        BY <2>1, <4>2
    <3>3. CASE ~running
      <4>1. targets[id] = NewTarget
        BY <3>3 DEF Sound
      <4>2. ~AtLimit(targets[id])
        BY <4>1, NewKeeps, RoomAfterClose DEF Consistent
      <4>3. QED
        BY <2>1, <4>2, NotAtLimit
    <3>4. QED
      BY <3>2, <3>3
  <2>4. QED
    BY <2>2, <2>3
<1>4. Bytes(chan') < SendSize
  BY <1>1 DEF RoomIsKept
<1>5. QED
  BY <1>3, <1>4 DEF RoomIsKept

\* What it publishes, or does not, was counted when it read the bit.
LEMMA SendFinishRoom ==
  ASSUME Sound, RoomIsKept, SendFinish
  PROVE  RoomIsKept'
<1>1. /\ sending # <<>> /\ sending' = <<>> /\ UNCHANGED <<targets, own>>
      /\ \/ chan' = chan
         \/ Bytes(chan) + sending[1].len < SendSize /\ chan' = Append(chan, sending[1])
  BY DEF SendFinish
<1>2. PICK p \in Packet : sending = <<p>>
  BY <1>1 DEF Sound, TypeOK
<1>3. sending[1] = p
  BY <1>2
<1>4. Bytes(chan) < SendSize /\ chan \in Seq(Packet)
  BY GivenLoads DEF RoomIsKept
<1>5. Bytes(chan') < SendSize
  BY <1>1, <1>3, <1>4, LoadsAppend
<1>6. ASSUME NEW id
      PROVE  Load(id)' \in Nat /\ Load(id)' <= Load(id)
  <2>1. /\ Total(Loads(chan, id)) \in Nat /\ Weight(p, id) \in Nat
        /\ Load(id) = Total(Loads(chan, id)) + Weight(p, id)
    BY <1>2, <1>4, LoadsAre, Weights, LoadsOne DEF Load
  <2>2. Load(id)' = Total(Loads(chan', id)) + 0
    BY <1>1, LoadsOne DEF Load
  <2>3. CASE chan' = chan
    BY <2>1, <2>2, <2>3
  <2>4. CASE chan' = Append(chan, p)
    <3>1. Total(Loads(chan', id)) = Total(Loads(chan, id)) + Weight(p, id)
      BY <2>4, <1>4, LoadsAppend
    <3>2. QED
      BY <2>1, <2>2, <3>1
  <2>5. QED
    BY <2>3, <2>4, <1>1, <1>3
<1>7. ASSUME NEW id \in Ids, id % 8 # 7
      PROVE  (targets'[id].dropped => own'[id] > OwnRoom) /\ Roomy(targets'[id], Need(id)')
  <2> DEFINE a == Load(id)
  <2> DEFINE b == Load(id)'
  <2> DEFINE k == own[id]
  <2>1. /\ targets[id].dropped => k > OwnRoom
        /\ Roomy(targets[id], Left(a, k)) /\ a \in Nat /\ k \in 0 .. OwnRoom + 1
        /\ targets[id] \in Target /\ targets'[id] = targets[id] /\ own'[id] = k
    BY <1>1, <1>7, GivenLoads, NeedIsLeft DEF RoomIsKept
  <2>2. b \in Nat /\ b <= a
    BY <1>6
  <2>3. Need(id)' = Left(b, k)
    BY <2>1, NeedIsLeft
  <2> HIDE DEF a, b, k
  <2>4. Left(b, k) <= Left(a, k) /\ Left(a, k) \in Nat /\ Left(b, k) \in Nat
    <3>1. OwnRoom \in Nat
      BY LensAssumption
    <3>2. QED
      BY <3>1, <2>1, <2>2, Sizes DEF Left
  <2>5. Roomy(targets[id], Left(b, k))
    BY <2>1, <2>4, RoomyLess
  <2>6. QED
    BY <2>1, <2>3, <2>5
<1>8. QED
  BY <1>5, <1>7 DEF RoomIsKept

LEMMA NextRoom ==
  ASSUME Sound, RoomIsKept, [Next]_vars
  PROVE  RoomIsKept'
<1>1. CASE UNCHANGED <<chan, sending, targets, own>>
  BY <1>1 DEF RoomIsKept, Need, Load
<1>2. CASE Upper
  BY <1>2, SendFinishRoom, SendCheckRoom DEF Upper
<1>3. CASE IterSendingList \/ StartCarrier \/ UNCHANGED vars
  <2>1. UNCHANGED <<chan, sending, targets, own>>
    BY <1>3 DEF IterSendingList, StartCarrier, vars
  <2>2. QED
    BY <2>1, <1>1
<1>4. CASE Carrier
  BY <1>3, <1>4, DispatchBridgeRoom, CheckSndBuffMemoryRoom, ConnectTargetRoom, SendInnerRoom,
     PeerClosesRoom, IterNodeRoom, ReloadRoom, KillCarrierRoom DEF Carrier
<1>5. QED
  BY <1>2, <1>3, <1>4 DEF Next

LEMMA InitRoom == Init => RoomIsKept
<1> SUFFICES ASSUME Init PROVE RoomIsKept
  OBVIOUS
<1>1. chan = <<>> /\ \A id \in Ids : targets[id] = NewTarget
  BY DEF Init
<1>2. Bytes(chan) < SendSize
  <2>1. Bytes(<<>>) = 0
    BY TotalNone DEF Bytes
  <2>2. QED
    BY <1>1, <2>1, Sizes
<1>3. ~NewTarget.dropped /\ ~AtLimit(NewTarget)
  BY NewKeeps, RoomAfterClose DEF Consistent
<1>4. QED
  BY <1>1, <1>2, <1>3, NotAtLimit DEF RoomIsKept

-----------------------------------------------------------------------------
(* The theorems.                                                           *)

\* Whatever the upper process, the sockets, the peers, the carrier's own
\* packets, reloads and kills do, every target is as its handlers expect it,
\* its bit tells its state, and its buffer has room for what is under way to
\* it and for OwnRoom bytes of the carrier's own.
THEOREM Inductive == Spec => []IInv
<1>1. Init => IInv
  BY InitSound, InitRoom DEF IInv
<1>2. IInv /\ [Next]_vars => IInv'
  BY NextSound, NextRoom DEF IInv
<1>3. QED
  BY <1>1, <1>2, PTL DEF Spec

\* Every variable keeps to its type, and no buffer is ever so full that its
\* two positions would meet.
THEOREM TypeCorrect == Spec => []TypeOK
<1>1. IInv => TypeOK
  BY DEF IInv, Sound
<1>2. QED
  BY <1>1, Inductive, PTL

\* A bit the upper process sees while the carrier is up is one of a connected
\* target with data to send, and no such target waits without its bit.
THEOREM BitsAreTrue == Spec => []BitMeansBacklog
<1>1. IInv => BitMeansBacklog
  BY DEF IInv, Sound
<1>2. QED
  BY <1>1, Inductive, PTL

\* Until the first reload, data of a connected target is on the sending list.
THEOREM NothingIsForgotten == Spec => []BacklogIsListed
<1>1. IInv => BacklogIsListed
  BY DEF IInv, Sound
<1>2. QED
  BY <1>1, Inductive, PTL

\* No packet of the upper process is dropped for want of space, unless the
\* carrier's own packets for a blocked target have come to more than OwnRoom,
\* of any target whose bit the upper process can see: one with the highest bit
\* of a byte is left out, and the run seventh_bit shows why.
THEOREM NothingIsDropped ==
  ASSUME \A id \in Ids : id % 8 # 7
  PROVE  Spec => []NoDropForSpace
<1>1. IInv => NoDropForSpace
  BY DEF IInv, RoomIsKept, NoDropForSpace
<1>2. QED
  BY <1>1, Inductive, PTL

=============================================================================
