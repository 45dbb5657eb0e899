-------------------------- MODULE Knowledge_proofs --------------------------
(***************************************************************************)
(* What is made of the knowledge, proved of the flows for every value of   *)
(* the constants: evidence windows, the quality screen, enrichment, notes, *)
(* context packs, the graph view and the staging gate.                     *)
(***************************************************************************)
EXTENDS Intake_proofs

-----------------------------------------------------------------------------
(* Evidence windows.                                                       *)

Chars == Windows!Characters

\* A slice of a sequence, as Python takes it.
LEMMA SliceIs ==
  ASSUME NEW t \in Seq(Chars), NEW i \in Nat, NEW j \in Nat, i <= j, j <= Len(t)
  PROVE  /\ Windows!Slice(t, i, j) \in Seq(Chars)
         /\ Len(Windows!Slice(t, i, j)) = j - i
         /\ \A k \in 1 .. j - i : Windows!Slice(t, i, j)[k] = t[i + k]
<1>1. \A k \in i + 1 .. j : t[k] \in Chars
  OBVIOUS
<1>2. /\ SubSeq(t, i + 1, j) \in Seq(Chars)
      /\ Len(SubSeq(t, i + 1, j)) = IF i + 1 <= j THEN j - (i + 1) + 1 ELSE 0
      /\ \A k \in 1 .. j - (i + 1) + 1 : SubSeq(t, i + 1, j)[k] = t[i + 1 + k - 1]
  BY <1>1, SubSeqProperties
<1>3. \A k \in 1 .. j - i : k \in 1 .. j - (i + 1) + 1 /\ i + 1 + k - 1 = i + k
  OBVIOUS
<1> QED BY <1>2, <1>3 DEF Windows!Slice

\* A slice of a slice is a slice.
LEMMA SliceOfSlice ==
  ASSUME NEW t \in Seq(Chars), NEW i \in Nat, NEW j \in Nat, i <= j, j <= Len(t),
         NEW k \in Nat, NEW l \in Nat, k <= l, l <= j - i
  PROVE  Windows!Slice(Windows!Slice(t, i, j), k, l) = Windows!Slice(t, i + k, i + l)
<1>1. PICK u : u = Windows!Slice(t, i, j)
  OBVIOUS
<1>2. u \in Seq(Chars) /\ Len(u) = j - i /\ \A m \in 1 .. j - i : u[m] = t[i + m]
  BY <1>1, SliceIs
<1>3. PICK v : v = Windows!Slice(u, k, l)
  OBVIOUS
<1>4. v \in Seq(Chars) /\ Len(v) = l - k /\ \A m \in 1 .. l - k : v[m] = u[k + m]
  BY <1>2, <1>3, SliceIs
<1>5. PICK w : w = Windows!Slice(t, i + k, i + l)
  OBVIOUS
<1>6. /\ w \in Seq(Chars) /\ Len(w) = (i + l) - (i + k)
      /\ \A m \in 1 .. (i + l) - (i + k) : w[m] = t[i + k + m]
  <2>1. i + k \in Nat /\ i + l \in Nat /\ i + k <= i + l /\ i + l <= Len(t)
    BY <1>2
  <2> QED BY <1>5, <2>1, SliceIs
<1>7. Len(v) = Len(w)
  BY <1>4, <1>6
<1>8. ASSUME NEW m \in 1 .. Len(v) PROVE v[m] = w[m]
  <2>1. m \in 1 .. l - k /\ m \in 1 .. (i + l) - (i + k) /\ k + m \in 1 .. j - i /\ i + (k + m) = i + k + m
    BY <1>4
  <2> QED BY <1>2, <1>4, <1>6, <2>1
<1>9. v = w
  BY <1>4, <1>6, <1>7, <1>8, SeqEqual
<1> QED BY <1>1, <1>3, <1>5, <1>9

\* Finitely many numbers have a least one and a greatest one.
LEMMA LeastAndGreatest ==
  ASSUME NEW n \in Nat, NEW S \in SUBSET (0 .. n), S # {}
  PROVE  /\ Windows!Min(S) \in S /\ \A x \in S : Windows!Min(S) <= x
         /\ Windows!Max(S) \in S /\ \A x \in S : x <= Windows!Max(S)
<1>1. ASSUME NEW R \in SUBSET (0 .. n), R # {}
      PROVE  \E x \in R : \A y \in R : x <= y
  <2> SUFFICES ASSUME \A x \in R : \E y \in R : y < x PROVE FALSE
    OBVIOUS
  <2> DEFINE A == {k \in 0 .. n : \A j \in 0 .. k : j \notin R}
  <2>1. 0 \in A
    OBVIOUS
  <2>2. \A k \in A : k < n => k + 1 \in A
    OBVIOUS
  <2>3. A \in SUBSET (0 .. n)
    OBVIOUS
  <2> HIDE DEF A
  <2>4. n \in A
    BY <2>1, <2>2, <2>3, Climb
  <2> QED BY <1>1, <2>4 DEF A
<1>2. \E x \in S : \A y \in S : x <= y
  BY <1>1
<1>3. \E x \in S : \A y \in S : x >= y
  <2> DEFINE R == {n - x : x \in S}
  <2>1. R \in SUBSET (0 .. n) /\ R # {}
    OBVIOUS
  <2>2. PICK r \in R : \A y \in R : r <= y
    BY <1>1, <2>1
  <2>3. PICK x \in S : r = n - x
    OBVIOUS
  <2>4. \A y \in S : n - x <= n - y
    BY <2>2, <2>3
  <2> QED BY <2>4
<1>4. Windows!Min(S) \in S /\ \A x \in S : Windows!Min(S) <= x
  BY <1>2 DEF Windows!Min
<1>5. Windows!Max(S) \in S /\ \A x \in S : Windows!Max(S) >= x
  BY <1>3 DEF Windows!Max
<1> QED BY <1>4, <1>5

\* What strip() leaves is a slice of the text, which ends with what it cuts off.
LEMMA StripIs ==
  ASSUME NEW t \in Seq(Chars)
  PROVE  /\ Windows!Strip(t) \in Seq(Chars)
         /\ \E lead \in Nat :
              /\ lead + Len(Windows!Strip(t)) <= Len(t)
              /\ Windows!Strip(t) = Windows!Slice(t, lead, lead + Len(Windows!Strip(t)))
<1> DEFINE seen == {i \in DOMAIN t : ~Windows!Blank(t[i])}
<1>1. CASE seen = {}
  <2>1. Windows!Strip(t) = <<>>
    BY <1>1 DEF Windows!Strip
  <2>2. Windows!Slice(t, 0, 0) = <<>>
    BY SubSeqEmpty DEF Windows!Slice
  <2> QED BY <2>1, <2>2
<1>2. CASE seen # {}
  <2>1. seen \in SUBSET (0 .. Len(t)) /\ seen \subseteq 1 .. Len(t)
    OBVIOUS
  <2>2. PICK a, b : a = Windows!Min(seen) /\ b = Windows!Max(seen)
    OBVIOUS
  <2>3. Windows!Strip(t) = SubSeq(t, a, b)
    BY <1>2, <2>2 DEF Windows!Strip
  <2>4. a \in seen /\ b \in seen /\ a <= b
    <3> HIDE DEF seen
    <3>1. Len(t) \in Nat /\ seen # {}
      BY <1>2
    <3>2. /\ Windows!Min(seen) \in seen /\ \A x \in seen : Windows!Min(seen) <= x
          /\ Windows!Max(seen) \in seen /\ \A x \in seen : x <= Windows!Max(seen)
      BY Zenon, <2>1, <3>1, LeastAndGreatest
    <3> QED BY <2>2, <3>2
  <2>5. a - 1 \in Nat /\ b \in Nat /\ a - 1 <= b /\ b <= Len(t) /\ (a - 1) + 1 = a
    BY <2>1, <2>4
  <2>6. Windows!Strip(t) = Windows!Slice(t, a - 1, b)
    BY <2>3, <2>5 DEF Windows!Slice
  <2>7. Windows!Strip(t) \in Seq(Chars) /\ Len(Windows!Strip(t)) = b - (a - 1)
    <3>1. PICK i : i = a - 1
      OBVIOUS
    <3>2. Windows!Slice(t, i, b) \in Seq(Chars) /\ Len(Windows!Slice(t, i, b)) = b - i
      BY <2>5, <3>1, SliceIs
    <3> QED BY <2>6, <3>1, <3>2
  <2>8. (a - 1) + Len(Windows!Strip(t)) = b
    BY <2>5, <2>7
  <2> QED BY <2>5, <2>6, <2>7, <2>8
<1> QED BY <1>1, <1>2

\* A search that starts before an occurrence finds one, at that place or before.
LEMMA FindIs ==
  ASSUME NEW t \in Seq(Chars), NEW s \in Seq(Chars), NEW low \in Nat, NEW m \in Nat,
         low <= m, m + Len(s) <= Len(t), Windows!Slice(t, m, m + Len(s)) = s,
         NEW place, place = Windows!Find(t, s, low)
  PROVE  /\ place \in Nat /\ low <= place /\ place <= m
         /\ Windows!Slice(t, place, place + Len(s)) = s
<1> DEFINE places == {i \in low .. Len(t) - Len(s) : Windows!Slice(t, i, i + Len(s)) = s}
<1>1. m \in places
  OBVIOUS
<1>2. places \in SUBSET (0 .. Len(t)) /\ Len(t) \in Nat
  OBVIOUS
<1>3. place = Windows!Min(places)
  BY <1>1 DEF Windows!Find
<1>4. place \in places /\ place <= m
  <2> HIDE DEF places
  <2>1. places # {}
    BY <1>1
  <2>2. Windows!Min(places) \in places /\ \A x \in places : Windows!Min(places) <= x
    BY Zenon, <1>2, <2>1, LeastAndGreatest
  <2> QED BY <1>1, <1>3, <2>2
<1> QED BY <1>4

\* Where the sections of the text lie in it: one behind the other.
Lies(q, T) ==
  /\ q \in Seq(Seq(Chars)) /\ T \in [DOMAIN q -> Nat]
  /\ \A k \in DOMAIN q : /\ T[k] + Len(q[k]) <= Len(text)
                         /\ Windows!Slice(text, T[k], T[k] + Len(q[k])) = q[k]
  /\ \A k \in DOMAIN q : k < Len(q) => T[k] + Len(q[k]) <= T[k + 1]

Halves == [begun : Nat, bodies : Seq(Seq(Chars))]

\* The section that ends before character i, put behind the others unless blank.
Closed(half, i) ==
  LET body == Windows!Strip(Windows!Slice(text, half.begun, i - 1))
  IN [begun |-> i + 1,
      bodies |-> IF body = <<>> THEN half.bodies ELSE Append(half.bodies, body)]

Halved(half, i) == IF i <= Len(text) /\ text[i] # "h" THEN half ELSE Closed(half, i)

\* The loop over the text, character by character.
LEMMA CutSteps ==
  ASSUME text \in Seq(Chars)
  PROVE  /\ Windows!Cut[0] = [begun |-> 0, bodies |-> <<>>]
         /\ \A i \in 1 .. Len(text) + 1 : Windows!Cut[i] = Halved(Windows!Cut[i - 1], i)
<1> DEFINE n == Len(text) + 1
           empty == [begun |-> 0, bodies |-> <<>>]
           step == [a \in (1 .. n) \X Halves |-> Halved(a[2], a[1])]
           C == Windows!Cut
<1>1. n \in Nat /\ empty \in Halves
  BY DEF Halves
<1>2. ASSUME NEW i \in 1 .. n, NEW half \in Halves PROVE Halved(half, i) \in Halves
  <2>1. half.begun \in Nat /\ half.bodies \in Seq(Seq(Chars))
    BY DEF Halves
  <2>2. PICK low, high : low = half.begun /\ high = i - 1
    OBVIOUS
  <2>3. low \in Nat /\ high \in Nat /\ high <= Len(text)
    BY <2>1, <2>2
  <2>4. Windows!Slice(text, low, high) \in Seq(Chars)
    <3>1. CASE low <= high
      BY <2>3, <3>1, SliceIs
    <3>2. CASE high < low
      <4>1. high < low + 1 /\ low + 1 \in Int /\ high \in Int
        BY <2>3, <3>2
      <4>2. SubSeq(text, low + 1, high) = <<>>
        BY <4>1, SubSeqEmpty
      <4>3. Windows!Slice(text, low, high) = <<>>
        BY <4>2 DEF Windows!Slice
      <4> QED BY <4>3
    <3> QED BY <2>3, <3>1, <3>2
  <2>5. PICK body : body = Windows!Strip(Windows!Slice(text, half.begun, i - 1))
    OBVIOUS
  <2>6. body \in Seq(Chars)
    BY <2>2, <2>4, <2>5, StripIs
  <2>7. Append(half.bodies, body) \in Seq(Seq(Chars)) /\ i + 1 \in Nat
    BY <2>1, <2>6
  <2>8. Closed(half, i) \in Halves
    BY <2>1, <2>5, <2>7 DEF Closed, Halves
  <2> QED BY <2>8 DEF Halved
<1>3. /\ step \in [(1 .. n) \X Halves -> Halves]
      /\ \A i \in 1 .. n, half \in Halves : step[<<i, half>>] = Halved(half, i)
  <2> HIDE DEF n
  <2> QED BY <1>2
<1> HIDE DEF step, n, empty
<1>4. PICK g : Loop(g, n, Halves, empty, step)
  BY <1>1, <1>3, LoopExists
<1>5. ASSUME NEW i \in 0 .. n PROVE g[i] = IF i = 0 THEN empty ELSE Halved(g[i - 1], i)
  <2>1. CASE i = 0
    BY <1>4, <2>1 DEF Loop
  <2>2. CASE i # 0
    <3>1. i \in 1 .. n /\ i - 1 \in 0 .. n
      BY <1>1, <2>2
    <3>2. g[i - 1] \in Halves /\ g[i] = step[<<i, g[i - 1]>>]
      BY <1>4, <2>2, <3>1 DEF Loop
    <3> QED BY <1>3, <2>2, <3>1, <3>2
  <2> QED BY <2>1, <2>2
<1>6. g = [i \in 0 .. n |-> IF i = 0 THEN empty ELSE Halved(g[i - 1], i)]
  BY <1>4, <1>5 DEF Loop
<1>7. \E f : f = [i \in 0 .. Len(text) + 1 |->
             IF i = 0 THEN [begun |-> 0, bodies |-> <<>>]
             ELSE LET prior == f[i - 1]
                      body == Windows!Strip(Windows!Slice(text, prior.begun, i - 1))
                  IN IF i <= Len(text) /\ text[i] # "h" THEN prior
                     ELSE [begun |-> i + 1,
                           bodies |-> IF body = <<>> THEN prior.bodies
                                      ELSE Append(prior.bodies, body)]]
  BY Zenon, <1>6 DEF Halved, Closed, n, empty
<1>8. C = [i \in 0 .. Len(text) + 1 |->
             IF i = 0 THEN [begun |-> 0, bodies |-> <<>>]
             ELSE LET prior == C[i - 1]
                      body == Windows!Strip(Windows!Slice(text, prior.begun, i - 1))
                  IN IF i <= Len(text) /\ text[i] # "h" THEN prior
                     ELSE [begun |-> i + 1,
                           bodies |-> IF body = <<>> THEN prior.bodies
                                      ELSE Append(prior.bodies, body)]]
  BY Zenon, <1>7 DEF Windows!Cut
<1>9. C = [i \in 0 .. n |-> IF i = 0 THEN empty ELSE Halved(C[i - 1], i)]
  BY Zenon, <1>8 DEF Halved, Closed, n, empty
<1> HIDE DEF C
<1>10. C[0] = empty /\ \A i \in 1 .. n : C[i] = Halved(C[i - 1], i)
  <2>1. 0 \in 0 .. n /\ \A i \in 1 .. n : i \in 0 .. n /\ i # 0
    BY <1>1
  <2> QED BY <1>9, <2>1
<1> QED BY <1>10 DEF C, n, empty

\* The sections of a text lie in it, one behind the other.
LEMMA SectionsLie ==
  ASSUME text \in Texts
  PROVE  \E T : Lies(Windows!Sections, T)
<1>1. text \in Seq(Chars) /\ Len(text) \in Nat
  BY WindowAssumption DEF Chars
<1>2. \A i \in 1 .. Len(text) : text[i] = "h" => i < Len(text) /\ text[i + 1] # "h"
  <2>1. \A i \in DOMAIN text : text[i] = "h" => i < Len(text) /\ text[i + 1] \in {"x", "."}
    BY WindowAssumption
  <2>2. DOMAIN text = 1 .. Len(text) /\ "h" \notin {"x", "."}
    BY <1>1
  <2> QED BY <2>1, <2>2
<1> DEFINE C == Windows!Cut
           n == Len(text) + 1
           Behind(half, T) == \A k \in DOMAIN half.bodies : T[k] + Len(half.bodies[k]) <= half.begun
           Good(i, half) ==
             /\ half \in Halves
             /\ i <= Len(text) => \/ half.begun <= i
                                  \/ half.begun = i + 1 /\ i >= 1 /\ text[i] = "h"
             /\ \E T : Lies(half.bodies, T) /\ Behind(half, T)
           S == {i \in 0 .. n : Good(i, C[i])}
<1>3. C[0] = [begun |-> 0, bodies |-> <<>>] /\ \A i \in 1 .. n : C[i] = Halved(C[i - 1], i)
  BY <1>1, CutSteps
<1> HIDE DEF C
<1>4. 0 \in S
  <2>1. PICK half : half = [begun |-> 0, bodies |-> <<>>]
    OBVIOUS
  <2>2. half \in Halves /\ half.begun = 0 /\ half.bodies = <<>>
    BY <2>1 DEF Halves
  <2>3. [k \in {} |-> 0] \in [DOMAIN half.bodies -> Nat]
    BY <2>2
  <2>4. Lies(half.bodies, [k \in {} |-> 0]) /\ Behind(half, [k \in {} |-> 0])
    BY <2>2, <2>3 DEF Lies
  <2>5. Good(0, half)
    BY <2>2, <2>4
  <2> HIDE DEF Good
  <2> QED BY <1>1, <1>3, <2>1, <2>5
<1>5. ASSUME NEW i \in S, i < n PROVE i + 1 \in S
  <2>1. i \in Nat /\ i <= Len(text) /\ i + 1 \in 1 .. n /\ i + 1 \in 0 .. n /\ (i + 1) - 1 = i
    BY <1>1, <1>5
  <2>2. PICK half : half = C[i]
    OBVIOUS
  <2>3. PICK new : new = C[i + 1]
    OBVIOUS
  <2>4. Good(i, half)
    BY <2>2
  <2>5. new = Halved(half, i + 1)
    BY <1>3, <2>1, <2>2, <2>3
  <2>6. half.begun \in Nat /\ half.bodies \in Seq(Seq(Chars))
    BY <2>4 DEF Halves
  <2>7. PICK T : Lies(half.bodies, T) /\ Behind(half, T)
    BY <2>4
  <2>8. CASE i + 1 <= Len(text) /\ text[i + 1] # "h"
    <3>1. new = half
      BY <2>5, <2>8 DEF Halved
    <3>2. half.begun <= i + 1
      BY <2>1, <2>4, <2>6
    <3>3. Good(i + 1, half)
      BY <2>4, <3>2
    <3> HIDE DEF Good
    <3> QED BY <2>1, <2>3, <3>1, <3>3
  <2>9. CASE ~(i + 1 <= Len(text) /\ text[i + 1] # "h")
    <3>1. half.begun <= i
      BY <1>1, <1>2, <2>1, <2>4, <2>9
    <3>2. PICK low : low = half.begun
      OBVIOUS
    <3>3. PICK piece : piece = Windows!Slice(text, low, i)
      OBVIOUS
    <3>4. piece \in Seq(Chars) /\ Len(piece) = i - low
      BY <1>1, <2>1, <2>6, <3>1, <3>2, <3>3, SliceIs
    <3>5. PICK body : body = Windows!Strip(piece)
      OBVIOUS
    <3>6. body \in Seq(Chars)
      BY <3>4, <3>5, StripIs
    <3>7. PICK lead \in Nat : /\ lead + Len(body) <= Len(piece)
                              /\ body = Windows!Slice(piece, lead, lead + Len(body))
      BY <3>4, <3>5, StripIs
    <3>8. PICK len : len = Len(body)
      OBVIOUS
    <3>9. len \in Nat /\ lead + len \in Nat /\ lead <= lead + len /\ lead + len <= i - low
      BY <3>4, <3>6, <3>7, <3>8
    <3>10. Windows!Slice(piece, lead, lead + len) = Windows!Slice(text, low + lead, low + (lead + len))
      BY <1>1, <2>1, <2>6, <3>1, <3>2, <3>3, <3>9, SliceOfSlice
    <3>11. PICK place : place = low + lead
      OBVIOUS
    <3>12. place \in Nat /\ low <= place /\ place + len <= i /\ low + (lead + len) = place + len
      <4>1. low \in Nat /\ i \in Nat
        BY <2>1, <2>6, <3>2
      <4>2. len \in Nat /\ lead + len <= i - low
        BY <3>9
      <4> HIDE DEF S, Good, Behind
      <4> QED BY <3>11, <4>1, <4>2
    <3>13. Windows!Slice(text, place, place + Len(body)) = body
      BY <3>7, <3>8, <3>10, <3>11, <3>12
    <3>14. new = [begun |-> i + 2, bodies |-> IF body = <<>> THEN half.bodies ELSE Append(half.bodies, body)]
      <4>1. new = Closed(half, i + 1)
        BY <2>5, <2>9 DEF Halved
      <4>2. (i + 1) + 1 = i + 2
        BY <2>1
      <4> QED BY <2>1, <3>2, <3>3, <3>5, <4>1, <4>2 DEF Closed
    <3>15. i + 1 <= Len(text) => new.begun = (i + 1) + 1 /\ i + 1 >= 1 /\ text[i + 1] = "h"
      BY <2>1, <2>9, <3>14
    <3>16. new \in Halves /\ \E U : Lies(new.bodies, U) /\ Behind(new, U)
      <4>1. CASE body = <<>>
        <5>1. new.bodies = half.bodies /\ new.begun = i + 2 /\ new \in Halves
          BY <2>1, <2>6, <3>14, <4>1 DEF Halves
        <5>2. \A k \in DOMAIN half.bodies : T[k] \in Nat /\ Len(half.bodies[k]) \in Nat
          BY <2>7 DEF Lies
        <5>3. Behind(new, T)
          <6>1. ASSUME NEW k \in DOMAIN half.bodies
                PROVE  T[k] + Len(half.bodies[k]) <= i + 2
            <7>1. T[k] + Len(half.bodies[k]) <= half.begun
              BY <2>7
            <7>2. PICK end : end = T[k] + Len(half.bodies[k])
              OBVIOUS
            <7>3. end \in Int /\ end <= half.begun
              BY <5>2, <7>1, <7>2
            <7> HIDE DEF S, Good, Behind
            <7> QED BY <2>1, <2>6, <3>1, <7>2, <7>3
          <6> QED BY <5>1, <6>1
        <5> QED BY <2>7, <5>1, <5>3
      <4>2. CASE body # <<>>
        <5>1. PICK q : q = half.bodies
          OBVIOUS
        <5>2. PICK r : r = Append(q, body)
          OBVIOUS
        <5>3. /\ r \in Seq(Seq(Chars)) /\ DOMAIN q = 1 .. Len(q) /\ DOMAIN r = 1 .. Len(q) + 1
              /\ Len(r) = Len(q) + 1 /\ Len(q) \in Nat /\ r[Len(q) + 1] = body
              /\ \A k \in DOMAIN q : r[k] = q[k]
          BY <2>6, <3>6, <5>1, <5>2
        <5>4. new.bodies = r /\ new.begun = i + 2 /\ new \in Halves
          BY <2>1, <3>14, <4>2, <5>1, <5>2, <5>3 DEF Halves
        <5>5. /\ T \in [DOMAIN q -> Nat]
              /\ \A k \in DOMAIN q : /\ T[k] + Len(q[k]) <= Len(text)
                                     /\ Windows!Slice(text, T[k], T[k] + Len(q[k])) = q[k]
                                     /\ T[k] + Len(q[k]) <= low
              /\ \A k \in DOMAIN q : k < Len(q) => T[k] + Len(q[k]) <= T[k + 1]
          BY <2>7, <3>2, <5>1 DEF Lies
        <5>6. PICK U : U = [k \in DOMAIN r |-> IF k \in DOMAIN q THEN T[k] ELSE place]
          OBVIOUS
        <5>7. /\ U \in [DOMAIN r -> Nat] /\ U[Len(q) + 1] = place
              /\ \A k \in DOMAIN q : U[k] = T[k]
          BY <3>12, <5>3, <5>5, <5>6
        <5>8. ASSUME NEW k \in DOMAIN r
              PROVE  /\ U[k] + Len(r[k]) <= Len(text)
                     /\ Windows!Slice(text, U[k], U[k] + Len(r[k])) = r[k]
                     /\ U[k] + Len(r[k]) <= i + 2
                     /\ k < Len(r) => U[k] + Len(r[k]) <= U[k + 1]
          <6>1. CASE k \in DOMAIN q
            <7>1. U[k] = T[k] /\ r[k] = q[k] /\ T[k] + Len(q[k]) <= low
              BY <5>3, <5>5, <5>7, <6>1
            <7>2. T[k] \in Nat /\ Len(q[k]) \in Nat
              BY <2>6, <5>1, <5>5, <6>1
            <7>3. T[k] + Len(q[k]) <= i + 2
              BY <2>1, <2>6, <3>1, <3>2, <7>1, <7>2
            <7>4. k < Len(r) => T[k] + Len(q[k]) <= U[k + 1]
              <8>1. CASE k = Len(q)
                BY <3>12, <5>7, <7>1, <7>2, <8>1, <2>6, <3>2
              <8>2. CASE k < Len(q)
                <9>1. k + 1 \in DOMAIN q /\ U[k + 1] = T[k + 1]
                  BY <5>3, <5>7, <6>1, <8>2
                <9> QED BY <5>5, <6>1, <8>2, <9>1
              <8> QED BY <5>3, <6>1, <8>1, <8>2
            <7> QED BY <5>5, <6>1, <7>1, <7>3, <7>4
          <6>2. CASE k = Len(q) + 1
            <7>1. U[k] = place /\ r[k] = body /\ ~(k < Len(r))
              BY <5>3, <5>7, <6>2
            <7>2. place + Len(body) <= Len(text) /\ place + Len(body) <= i + 2
              BY <1>1, <2>1, <3>8, <3>9, <3>12
            <7> QED BY <3>13, <7>1, <7>2
          <6> QED BY <5>3, <6>1, <6>2
        <5>9. Lies(r, U)
          BY <5>3, <5>7, <5>8 DEF Lies
        <5>10. Behind(new, U)
          BY <5>4, <5>8
        <5> QED BY <5>4, <5>9, <5>10
      <4> QED BY <4>1, <4>2
    <3>17. Good(i + 1, new)
      BY <3>15, <3>16
    <3> HIDE DEF Good
    <3> QED BY <2>1, <2>3, <3>17
  <2> QED BY <2>8, <2>9
<1>6. S \in SUBSET (0 .. n) /\ n \in Nat
  BY <1>1
<1> HIDE DEF S
<1>7. n \in S
  BY <1>4, <1>5, <1>6, Climb
<1>8. PICK bodies, T : bodies = C[n].bodies /\ Lies(bodies, T)
  BY <1>7 DEF S
<1>9. Windows!Sections = <<text>> \/ Windows!Sections = bodies
  BY <1>8 DEF Windows!Sections, C, n
<1>10. Lies(<<text>>, [k \in {1} |-> 0])
  <2>1. <<text>> \in Seq(Seq(Chars)) /\ DOMAIN <<text>> = {1} /\ Len(<<text>>) = 1 /\ <<text>>[1] = text
    BY <1>1
  <2>2. SubSeq(text, 1, Len(text)) = text
    BY <1>1, SubSeqFull
  <2>3. Windows!Slice(text, 0, 0 + Len(text)) = text /\ 0 + Len(text) <= Len(text)
    BY <1>1, <2>2 DEF Windows!Slice
  <2>4. PICK q, U : q = <<text>> /\ U = [k \in {1} |-> 0]
    OBVIOUS
  <2>5. U \in [DOMAIN q -> Nat] /\ U[1] = 0
    BY <2>1, <2>4
  <2> QED BY <2>1, <2>3, <2>4, <2>5 DEF Lies
<1> QED BY <1>8, <1>9, <1>10

\* A window moves on and stays in its section; the next one starts within the
\* overlap, at which the search stops too.
LEMMA WindowIs ==
  ASSUME NEW c \in Seq(Chars), NEW s \in Nat, s < Len(c),
         NEW e, e = Windows!End(c, s),
         NEW next, next = IF e >= Len(c) THEN e ELSE Windows!StartAfter(s, e)
  PROVE  /\ e \in Nat /\ s < e /\ e <= Len(c)
         /\ next \in Nat /\ s <= next /\ next <= Len(c) /\ e - Overlap <= next
<1>1. Limit \in Nat /\ Limit >= 1 /\ Overlap \in Nat /\ Limit \div 2 \in Nat
  BY WindowAssumption
<1>2. PICK half : half = Limit \div 2
  OBVIOUS
<1>3. PICK most : most = Windows!Least2(Len(c), s + Limit)
  OBVIOUS
<1>4. most \in Nat /\ s < most /\ most <= Len(c)
  BY <1>1, <1>3 DEF Windows!Least2
<1>5. e \in Nat /\ s < e /\ e <= Len(c)
  <2> DEFINE breaks == Windows!BreaksIn(c, s, most)
  <2>1. breaks \in SUBSET (0 .. most) /\ \A b \in breaks : b < most
    BY <1>4 DEF Windows!BreaksIn
  <2>2. e = IF most < Len(c) /\ breaks # {} /\ Windows!Max(breaks) > s + half
            THEN Windows!Max(breaks) + 1 ELSE most
    BY <1>2, <1>3 DEF Windows!End
  <2> HIDE DEF breaks
  <2>3. CASE breaks # {} /\ Windows!Max(breaks) > s + half /\ e = Windows!Max(breaks) + 1
    <3>1. Windows!Max(breaks) \in breaks
      BY Zenon, <1>4, <2>1, <2>3, LeastAndGreatest
    <3>2. PICK m \in breaks : m = Windows!Max(breaks)
      BY <3>1
    <3>3. e = m + 1 /\ m > s + half
      BY <2>3, <3>2
    <3>4. m \in Nat /\ m < most
      BY <1>4, <2>1
    <3> QED BY <1>1, <1>2, <1>4, <3>3, <3>4
  <2>4. CASE e = most
    BY <1>4, <2>4
  <2> QED BY <2>2, <2>3, <2>4
<1>6. Windows!Kept \in Nat /\ Windows!Kept <= Overlap
  <2>1. Windows!Greatest2(0, Overlap) = Overlap
    BY <1>1 DEF Windows!Greatest2
  <2>2. Windows!Kept = Windows!Least2(Overlap, half)
    BY <1>2, <2>1 DEF Windows!Kept
  <2> QED BY <1>1, <1>2, <2>2 DEF Windows!Least2
<1>7. CASE e >= Len(c)
  BY <1>1, <1>5, <1>7
<1>8. CASE ~(e >= Len(c))
  <2>1. PICK kept \in Nat : kept = Windows!Kept
    BY <1>6
  <2>2. next = Windows!Greatest2(s + 1, e - kept)
    BY <1>8, <2>1 DEF Windows!StartAfter
  <2> QED BY <1>1, <1>5, <1>6, <1>8, <2>1, <2>2 DEF Windows!Greatest2
<1> QED BY <1>7, <1>8

Chunk == [content : Seq(Chars), first : Nat, last : Nat]

WindowTypes ==
  /\ text \in Texts /\ cutting \in BOOLEAN
  /\ at \in Nat /\ at <= Len(Windows!Sections)
  /\ start \in Nat /\ from \in Nat /\ offset \in Nat
  /\ chunks \in Seq(Chunk)

\* A copy of the section in hand, in its place or before, which the search has not
\* passed: the windows still to come are in it.
CopyAhead(T, G) ==
  /\ G + Len(Windows!Cleaned) <= T[at + 1] + Len(Windows!Sections[at + 1])
  /\ Windows!Slice(text, G, G + Len(Windows!Cleaned)) = Windows!Cleaned
  /\ from <= G + start

\* The search has not passed the sections still to come.
SearchAhead(T) ==
  /\ at < Len(Windows!Sections) => offset <= T[at + 1]
  /\ cutting => /\ at < Len(Windows!Sections) /\ start <= Len(Windows!Cleaned)
                /\ \E G \in Nat : CopyAhead(T, G)

WindowsInv ==
  /\ WindowTypes /\ Windows!QuotesAreExact
  /\ \E T : Lies(Windows!Sections, T) /\ SearchAhead(T)

\* The sections are those of the text, which stays.
LEMMA SectionsStay ==
  ASSUME UNCHANGED text
  PROVE  /\ UNCHANGED Windows!Sections
         /\ at' = at => UNCHANGED Windows!Cleaned
<1>1. UNCHANGED Windows!Cut
  BY ZenonT(40) DEF Windows!Cut
<1>2. UNCHANGED Windows!Sections
  BY <1>1 DEF Windows!Sections
<1> QED BY <1>2 DEF Windows!Cleaned

\* The section in hand and what strip() leaves of it.
LEMMA CleanedIs ==
  ASSUME NEW T, Lies(Windows!Sections, T), at \in Nat, at < Len(Windows!Sections),
         NEW section, section = Windows!Sections[at + 1]
  PROVE  /\ section \in Seq(Chars) /\ T[at + 1] \in Nat
         /\ Windows!Cleaned \in Seq(Chars) /\ Windows!Cleaned = Windows!Strip(section)
         /\ T[at + 1] + Len(section) <= Len(text)
         /\ Windows!Slice(text, T[at + 1], T[at + 1] + Len(section)) = section
         /\ at + 1 < Len(Windows!Sections) =>
              T[at + 2] \in Nat /\ T[at + 1] + Len(section) <= T[at + 2]
<1>1. PICK q : q = Windows!Sections
  OBVIOUS
<1>2. /\ q \in Seq(Seq(Chars)) /\ at + 1 \in DOMAIN q /\ section = q[at + 1]
      /\ at + 1 < Len(q) => at + 2 \in DOMAIN q /\ (at + 1) + 1 = at + 2
  BY <1>1 DEF Lies
<1>3. section \in Seq(Chars)
  BY <1>2
<1>4. Windows!Cleaned = Windows!Strip(section)
  BY DEF Windows!Cleaned
<1> QED BY <1>1, <1>2, <1>3, <1>4, StripIs DEF Lies

\* A section is looked up in the text.
LEMMA WindowsBegin ==
  ASSUME WindowsInv, Windows!BeginSection
  PROVE  WindowsInv'
<1>1. /\ at < Len(Windows!Sections) /\ cutting' = TRUE /\ start' = 0
      /\ from' = Windows!Find(text, Windows!Sections[at + 1], offset)
      /\ UNCHANGED <<text, at, offset, chunks>>
  BY DEF Windows!BeginSection
<1>2. PICK T : Lies(Windows!Sections, T) /\ SearchAhead(T)
  BY DEF WindowsInv
<1>3. UNCHANGED Windows!Sections /\ UNCHANGED Windows!Cleaned
  BY <1>1, SectionsStay
<1>4. PICK section : section = Windows!Sections[at + 1]
  OBVIOUS
<1>5. PICK place, cleaned : place = T[at + 1] /\ cleaned = Windows!Cleaned
  OBVIOUS
<1>6. WindowTypes
  BY DEF WindowsInv
<1>7. /\ section \in Seq(Chars) /\ place \in Nat /\ cleaned \in Seq(Chars)
      /\ cleaned = Windows!Strip(section) /\ place + Len(section) <= Len(text)
      /\ Windows!Slice(text, place, place + Len(section)) = section
      /\ offset \in Nat /\ offset <= place /\ text \in Seq(Chars)
  <2>1. at \in Nat /\ offset \in Nat /\ text \in Seq(Chars)
    BY <1>6, WindowAssumption DEF WindowTypes, Chars
  <2> QED BY <1>1, <1>2, <1>4, <1>5, <2>1, CleanedIs DEF SearchAhead
<1>8. PICK found : found = Windows!Find(text, section, offset)
  OBVIOUS
<1>9. /\ found \in Nat /\ found <= place
      /\ Windows!Slice(text, found, found + Len(section)) = section
  BY <1>7, <1>8, FindIs
<1>10. PICK lead \in Nat : /\ lead + Len(cleaned) <= Len(section)
                           /\ cleaned = Windows!Slice(section, lead, lead + Len(cleaned))
  BY <1>7, StripIs
<1>11. PICK G, size : G = found + lead /\ size = Len(cleaned)
  OBVIOUS
<1>12. /\ G \in Nat /\ size \in Nat /\ found <= G /\ G + size <= place + Len(section)
       /\ found + Len(section) \in Nat /\ found <= found + Len(section)
       /\ found + Len(section) <= Len(text)
       /\ lead + size \in Nat /\ lead <= lead + size
       /\ lead + size <= (found + Len(section)) - found
       /\ found + (lead + size) = G + size
  BY <1>7, <1>9, <1>10, <1>11
<1>13. Windows!Slice(text, G, G + size) = cleaned
  <2>1. Windows!Slice(Windows!Slice(text, found, found + Len(section)), lead, lead + size)
          = Windows!Slice(text, found + lead, found + (lead + size))
    BY <1>7, <1>9, <1>12, SliceOfSlice
  <2> QED BY <1>9, <1>10, <1>11, <1>12, <2>1
<1>14. WindowTypes'
  BY <1>1, <1>3, <1>4, <1>6, <1>8, <1>9 DEF WindowTypes
<1>15. SearchAhead(T)'
  <2>1. CopyAhead(T, G)'
    BY <1>1, <1>3, <1>4, <1>5, <1>8, <1>11, <1>12, <1>13 DEF CopyAhead
  <2>2. 0 <= Len(cleaned)
    BY <1>7
  <2> QED BY <1>1, <1>2, <1>3, <1>5, <1>12, <2>1, <2>2 DEF SearchAhead
<1>16. Lies(Windows!Sections, T)'
  BY <1>1, <1>2, <1>3 DEF Lies
<1>17. Windows!QuotesAreExact'
  BY <1>1 DEF WindowsInv, Windows!QuotesAreExact
<1> QED BY <1>14, <1>15, <1>16, <1>17 DEF WindowsInv

\* A window is looked up in the text.
LEMMA WindowsCut ==
  ASSUME WindowsInv, Windows!CutWindow
  PROVE  WindowsInv'
<1>1. PICK T : Lies(Windows!Sections, T) /\ SearchAhead(T)
  BY DEF WindowsInv
<1>2. cutting /\ start < Len(Windows!Cleaned) /\ UNCHANGED <<text, at, cutting, offset>>
  BY DEF Windows!CutWindow
<1>3. UNCHANGED Windows!Sections /\ UNCHANGED Windows!Cleaned
  BY <1>2, SectionsStay
<1>4. PICK c : c = Windows!Cleaned
  OBVIOUS
<1>5. PICK e : e = Windows!End(c, start)
  OBVIOUS
<1>6. PICK piece : piece = Windows!Strip(Windows!Slice(c, start, e))
  OBVIOUS
<1>7. PICK place : place = Windows!Find(text, piece, from)
  OBVIOUS
<1>8. /\ IF piece = <<>>
         THEN UNCHANGED <<chunks, from>>
         ELSE /\ chunks' = Append(chunks, [content |-> piece, first |-> place, last |-> place + Len(piece)])
              /\ from' = Windows!SearchAfter(place + Len(piece), from)
      /\ start' = IF e >= Len(c) THEN e ELSE Windows!StartAfter(start, e)
  BY <1>4, <1>5, <1>6, <1>7 DEF Windows!CutWindow
<1>9. WindowTypes
  BY DEF WindowsInv
<1>10. /\ at < Len(Windows!Sections) /\ at \in Nat /\ start \in Nat /\ from \in Nat
       /\ text \in Seq(Chars) /\ chunks \in Seq(Chunk)
  BY <1>1, <1>2, <1>9, WindowAssumption DEF WindowTypes, SearchAhead, Chars
<1>11. PICK G \in Nat : CopyAhead(T, G)
  BY <1>1, <1>2 DEF SearchAhead
<1>12. PICK room : room = T[at + 1] + Len(Windows!Sections[at + 1])
  OBVIOUS
<1>13. /\ c \in Seq(Chars) /\ Len(c) \in Nat /\ room \in Nat /\ room <= Len(text)
       /\ G + Len(c) <= room /\ Windows!Slice(text, G, G + Len(c)) = c /\ from <= G + start
  <2>1. PICK section : section = Windows!Sections[at + 1]
    OBVIOUS
  <2>2. section \in Seq(Chars) /\ T[at + 1] \in Nat /\ c \in Seq(Chars) /\ T[at + 1] + Len(section) <= Len(text)
    BY <1>1, <1>4, <1>10, <2>1, CleanedIs
  <2> QED BY <1>4, <1>11, <1>12, <2>1, <2>2 DEF CopyAhead
<1>14. /\ e \in Nat /\ start < e /\ e <= Len(c)
       /\ start' \in Nat /\ start <= start' /\ start' <= Len(c) /\ e - Overlap <= start'
  <2>1. start < Len(c)
    BY <1>2, <1>4
  <2>2. PICK next : next = IF e >= Len(c) THEN e ELSE Windows!StartAfter(start, e)
    OBVIOUS
  <2>3. /\ e \in Nat /\ start < e /\ e <= Len(c)
        /\ next \in Nat /\ start <= next /\ next <= Len(c) /\ e - Overlap <= next
    BY <1>5, <1>10, <1>13, <2>1, <2>2, WindowIs
  <2> QED BY <1>8, <2>2, <2>3
<1>15. PICK window : window = Windows!Slice(c, start, e)
  OBVIOUS
<1>16. window \in Seq(Chars) /\ Len(window) = e - start /\ piece = Windows!Strip(window)
  <2>1. start <= e
    BY <1>10, <1>14
  <2>2. window \in Seq(Chars) /\ Len(window) = e - start
    BY <1>10, <1>13, <1>14, <1>15, <2>1, SliceIs
  <2> QED BY <1>6, <1>15, <2>2
<1>17. piece \in Seq(Chars) /\ Len(piece) \in Nat
  BY <1>16, StripIs
<1>18. PICK lead \in Nat : /\ lead + Len(piece) <= Len(window)
                           /\ piece = Windows!Slice(window, lead, lead + Len(piece))
  BY <1>16, StripIs
<1>19. PICK size, M : size = Len(piece) /\ M = G + start + lead
  OBVIOUS
<1>20. /\ size \in Nat /\ M \in Nat /\ from <= M /\ M + size <= G + e /\ M + size <= Len(text)
       /\ lead + size \in Nat /\ lead <= lead + size /\ lead + size <= e - start
       /\ start + lead \in Nat /\ start + (lead + size) \in Nat
       /\ start + lead <= start + (lead + size) /\ start + (lead + size) <= (G + Len(c)) - G
       /\ G + (start + lead) = M /\ G + (start + (lead + size)) = M + size
       /\ G + Len(c) \in Nat /\ G <= G + Len(c) /\ G + Len(c) <= Len(text)
  <2>1. PICK all, most, len : all = Len(text) /\ most = Len(c) /\ len = e - start
    OBVIOUS
  <2>2. all \in Nat /\ most \in Nat /\ G + most <= all
    BY <1>10, <1>13, <2>1
  <2>3. start \in Nat /\ e \in Nat /\ start < e /\ e <= most /\ from \in Nat /\ from <= G + start
    BY <1>10, <1>13, <1>14, <2>1
  <2>4. size \in Nat /\ lead + size <= len
    BY <1>16, <1>17, <1>18, <1>19, <2>1
  <2>5. /\ M \in Nat /\ from <= M /\ M + size <= G + e /\ M + size <= all
        /\ G + (start + lead) = M /\ G + (start + (lead + size)) = M + size
    BY <1>19, <2>1, <2>2, <2>3, <2>4
  <2>6. /\ lead + size \in Nat /\ lead <= lead + size /\ lead + size <= e - start
        /\ start + lead \in Nat /\ start + (lead + size) \in Nat
        /\ start + lead <= start + (lead + size) /\ start + (lead + size) <= (G + most) - G
        /\ G + most \in Nat /\ G <= G + most /\ G + most <= all
    BY <2>1, <2>2, <2>3, <2>4
  <2> QED BY <2>1, <2>4, <2>5, <2>6
<1>21. Windows!Slice(text, M, M + size) = piece
  <2>1. Windows!Slice(window, lead, lead + size) = Windows!Slice(c, start + lead, start + (lead + size))
    <3>1. PICK f, k, l : f = start /\ k = lead /\ l = lead + size
      OBVIOUS
    <3>2. /\ f \in Nat /\ e \in Nat /\ f <= e /\ e <= Len(c) /\ k \in Nat /\ l \in Nat
          /\ k <= l /\ l <= e - f
      BY <1>10, <1>14, <1>20, <3>1
    <3>3. Windows!Slice(Windows!Slice(c, f, e), k, l) = Windows!Slice(c, f + k, f + l)
      BY <1>13, <3>2, SliceOfSlice
    <3> QED BY Zenon, <1>15, <3>1, <3>3
  <2>2. Windows!Slice(Windows!Slice(text, G, G + Len(c)), start + lead, start + (lead + size))
          = Windows!Slice(text, G + (start + lead), G + (start + (lead + size)))
    BY <1>10, <1>20, SliceOfSlice
  <2> QED BY <1>13, <1>18, <1>19, <1>20, <2>1, <2>2
<1>22. /\ place \in Nat /\ from <= place /\ place <= M
       /\ Windows!Slice(text, place, place + size) = piece
  <2>1. size = Len(piece)
    BY <1>19
  <2>2. /\ from \in Nat /\ M \in Nat /\ from <= M /\ M + Len(piece) <= Len(text)
        /\ Windows!Slice(text, M, M + Len(piece)) = piece
    BY Zenon, <1>10, <1>20, <1>21, <2>1
  <2>3. /\ place \in Nat /\ from <= place /\ place <= M
        /\ Windows!Slice(text, place, place + Len(piece)) = piece
    BY <1>7, <1>10, <1>17, <2>2, FindIs
  <2> QED BY Zenon, <2>1, <2>3
<1>23. from' \in Nat /\ from' <= G + start'
  <2>1. CASE piece = <<>>
    BY <1>8, <1>10, <1>13, <1>14, <2>1
  <2>2. CASE piece # <<>>
    <3>1. PICK behind : behind = place + Len(piece) - Overlap
      OBVIOUS
    <3>2. from' = from \/ (from' = behind /\ behind > from)
      <4>1. from' = Windows!SearchAfter(place + Len(piece), from)
        BY <1>8, <2>2
      <4>2. place \in Nat /\ Len(piece) \in Nat /\ Overlap \in Nat /\ from \in Nat
        BY <1>10, <1>17, <1>22, WindowAssumption
      <4> QED BY <3>1, <4>1, <4>2 DEF Windows!SearchAfter, Windows!Greatest2
    <3>3. behind \in Int /\ behind <= G + start' /\ from <= G + start'
      <4>1. Overlap \in Nat
        BY WindowAssumption
      <4>2. PICK next \in Nat : next = start'
        BY <1>14
      <4>3. start <= next /\ e - Overlap <= next /\ e \in Nat
        BY <1>14, <4>2
      <4>4. place \in Nat /\ size \in Nat /\ place <= M /\ M \in Nat /\ M + size <= G + e
        BY <1>20, <1>22
      <4>5. place + size - Overlap <= G + next /\ place + size - Overlap \in Int
        BY <4>1, <4>3, <4>4
      <4>6. from <= G + next
        BY <1>10, <1>13, <4>3
      <4>7. behind = place + size - Overlap
        BY <1>19, <3>1
      <4>8. behind <= G + next /\ behind \in Int
        BY Zenon, <4>5, <4>7
      <4> QED BY Zenon, <4>2, <4>6, <4>8
    <3>4. from \in Nat
      BY <1>10
    <3>5. behind > from => behind \in Nat
      BY <3>3, <3>4
    <3> QED BY Zenon, <3>2, <3>3, <3>4, <3>5
  <2> QED BY <2>1, <2>2
<1>24. chunks' \in Seq(Chunk) /\ Windows!QuotesAreExact'
  <2>1. Windows!QuotesAreExact
    BY DEF WindowsInv
  <2>2. CASE piece = <<>>
    BY <1>2, <1>8, <1>10, <2>1, <2>2 DEF Windows!QuotesAreExact
  <2>3. CASE piece # <<>>
    <3>1. PICK chunk : chunk = [content |-> piece, first |-> place, last |-> place + size]
      OBVIOUS
    <3>2. /\ chunk \in Chunk /\ chunk.last <= Len(text)
          /\ Windows!Slice(text, chunk.first, chunk.last) = chunk.content
      BY <1>10, <1>17, <1>20, <1>22, <3>1 DEF Chunk
    <3>3. chunks' = Append(chunks, chunk)
      BY <1>8, <1>19, <2>3, <3>1
    <3>4. /\ chunks' \in Seq(Chunk) /\ chunks'[Len(chunks) + 1] = chunk
          /\ \A k \in DOMAIN chunks : chunks'[k] = chunks[k]
          /\ \A k \in DOMAIN chunks' : k \in DOMAIN chunks \/ k = Len(chunks) + 1
      BY <1>10, <3>2, <3>3
    <3>5. ASSUME NEW k \in DOMAIN chunks'
          PROVE  /\ chunks'[k].last <= Len(text)
                 /\ Windows!Slice(text, chunks'[k].first, chunks'[k].last) = chunks'[k].content
      <4>1. CASE k \in DOMAIN chunks
        BY <2>1, <3>4, <4>1 DEF Windows!QuotesAreExact
      <4>2. CASE k = Len(chunks) + 1
        BY <3>2, <3>4, <4>2
      <4> QED BY <3>4, <4>1, <4>2
    <3> QED BY <1>2, <3>4, <3>5 DEF Windows!QuotesAreExact
  <2> QED BY <2>2, <2>3
<1>25. WindowTypes'
  BY <1>2, <1>3, <1>9, <1>14, <1>23, <1>24 DEF WindowTypes
<1>26. SearchAhead(T)'
  <2>1. CopyAhead(T, G)'
    BY <1>2, <1>3, <1>4, <1>12, <1>13, <1>23 DEF CopyAhead
  <2> QED BY <1>1, <1>2, <1>3, <1>4, <1>14, <2>1 DEF SearchAhead
<1>27. Lies(Windows!Sections, T)'
  BY <1>1, <1>2, <1>3 DEF Lies
<1> QED BY <1>24, <1>25, <1>26, <1>27 DEF WindowsInv

\* The search goes on for the next section.
LEMMA WindowsEnd ==
  ASSUME WindowsInv, Windows!EndSection
  PROVE  WindowsInv'
<1>1. PICK T : Lies(Windows!Sections, T) /\ SearchAhead(T)
  BY DEF WindowsInv
<1>2. /\ cutting /\ start >= Len(Windows!Cleaned) /\ cutting' = FALSE /\ at' = at + 1
      /\ offset' = Windows!Greatest2(offset, from) /\ UNCHANGED <<text, start, from, chunks>>
  BY DEF Windows!EndSection
<1>3. UNCHANGED Windows!Sections
  BY <1>2, SectionsStay
<1>4. WindowTypes
  BY DEF WindowsInv
<1>5. at \in Nat /\ at < Len(Windows!Sections) /\ start \in Nat /\ from \in Nat /\ offset \in Nat
  BY <1>1, <1>2, <1>4 DEF WindowTypes, SearchAhead
<1>6. PICK G \in Nat : CopyAhead(T, G)
  BY <1>1, <1>2 DEF SearchAhead
<1>7. PICK section, c : section = Windows!Sections[at + 1] /\ c = Windows!Cleaned
  OBVIOUS
<1>8. /\ section \in Seq(Chars) /\ T[at + 1] \in Nat /\ c \in Seq(Chars)
      /\ at + 1 < Len(Windows!Sections) =>
           T[at + 2] \in Nat /\ T[at + 1] + Len(section) <= T[at + 2]
  BY <1>1, <1>5, <1>7, CleanedIs
<1>9. /\ G + Len(c) <= T[at + 1] + Len(section) /\ from <= G + start /\ start <= Len(c)
      /\ offset <= T[at + 1]
  BY <1>1, <1>2, <1>5, <1>6, <1>7 DEF CopyAhead, SearchAhead
<1>10. offset' \in Nat /\ (at + 1 < Len(Windows!Sections) => offset' <= T[at + 2])
  <2>1. PICK size, len, low : size = Len(section) /\ len = Len(c) /\ low = T[at + 1]
    OBVIOUS
  <2>2. size \in Nat /\ len \in Nat /\ low \in Nat
    BY <1>8, <2>1
  <2>3. G + len <= low + size /\ from <= G + start /\ start <= len /\ offset <= low
    BY <1>9, <2>1
  <2>4. offset' = IF offset > from THEN offset ELSE from
    BY <1>2 DEF Windows!Greatest2
  <2>5. offset' \in Nat /\ offset' <= low + size
    BY <1>5, <2>2, <2>3, <2>4
  <2>6. ASSUME at + 1 < Len(Windows!Sections) PROVE offset' <= T[at + 2]
    <3>1. T[at + 2] \in Nat /\ low + size <= T[at + 2]
      BY <1>8, <2>1, <2>6
    <3>2. PICK next : next = T[at + 2]
      OBVIOUS
    <3> QED BY <2>2, <2>5, <3>1, <3>2
  <2> QED BY <2>5, <2>6
<1>11. WindowTypes'
  <2>1. Len(Windows!Sections) \in Nat
    BY <1>1 DEF Lies
  <2>2. at + 1 \in Nat /\ at + 1 <= Len(Windows!Sections)
    BY <1>5, <2>1
  <2> QED BY <1>2, <1>3, <1>4, <1>10, <2>2 DEF WindowTypes
<1>12. SearchAhead(T)'
  <2>1. (at + 1) + 1 = at + 2
    BY <1>5
  <2> QED BY <1>2, <1>3, <1>10, <2>1 DEF SearchAhead
<1>13. Lies(Windows!Sections, T)'
  BY <1>1, <1>2, <1>3 DEF Lies
<1>14. Windows!QuotesAreExact'
  BY <1>2 DEF WindowsInv, Windows!QuotesAreExact
<1> QED BY <1>11, <1>12, <1>13, <1>14 DEF WindowsInv

\* For every text, window and overlap: the offsets of a chunk lead to its content.
\* Neither a search that finds an earlier copy of a section or of a window, nor the
\* overlap, makes a later search miss what it looks for.
THEOREM OffsetsLeadToQuotes == Spec => []QuotesAreExact
<1>1. Init => (On("windows") => WindowsInv)
  <2> SUFFICES ASSUME Windows!Init PROVE WindowsInv
    BY DEF Init, On
  <2>1. /\ text \in Texts /\ at = 0 /\ cutting = FALSE
        /\ start = 0 /\ from = 0 /\ offset = 0 /\ chunks = <<>>
    BY DEF Windows!Init
  <2>2. PICK T : Lies(Windows!Sections, T)
    BY <2>1, SectionsLie
  <2>3. Windows!Sections \in Seq(Seq(Chars)) /\ T \in [DOMAIN Windows!Sections -> Nat]
    BY <2>2 DEF Lies
  <2>4. WindowTypes
    <3>1. Len(Windows!Sections) \in Nat
      BY <2>3
    <3>2. at <= Len(Windows!Sections) /\ chunks \in Seq(Chunk)
      BY <2>1, <3>1
    <3> QED BY <2>1, <3>2 DEF WindowTypes
  <2>5. 0 < Len(Windows!Sections) => 0 <= T[0 + 1]
    BY <2>3
  <2>6. SearchAhead(T)
    BY <2>1, <2>5 DEF SearchAhead
  <2>7. Windows!QuotesAreExact
    BY <2>1 DEF Windows!QuotesAreExact
  <2> QED BY <2>2, <2>4, <2>6, <2>7 DEF WindowsInv
<1>2. (On("windows") => WindowsInv) /\ [Next]_vars => (On("windows") => WindowsInv)'
  <2> SUFFICES ASSUME On("windows") => WindowsInv, [Next]_vars, On("windows")'
               PROVE  WindowsInv'
    OBVIOUS
  <2>1. WindowsInv /\ (Windows!Next \/ UNCHANGED windowVars)
    BY OnePart DEF On
  <2>2. CASE Windows!Next
    BY <2>1, <2>2, WindowsBegin, WindowsCut, WindowsEnd DEF Windows!Next
  <2>3. CASE UNCHANGED windowVars
    <3>1. UNCHANGED <<text, at, cutting, start, from, offset, chunks>>
      BY <2>3 DEF windowVars
    <3>2. UNCHANGED Windows!Sections /\ UNCHANGED Windows!Cleaned
      BY <3>1, SectionsStay
    <3>3. PICK T : Lies(Windows!Sections, T) /\ SearchAhead(T)
      BY <2>1 DEF WindowsInv
    <3>4. Lies(Windows!Sections, T)' /\ SearchAhead(T)'
      BY <3>1, <3>2, <3>3 DEF Lies, SearchAhead, CopyAhead
    <3>5. WindowTypes' /\ Windows!QuotesAreExact'
      BY <2>1, <3>1, <3>2 DEF WindowsInv, WindowTypes, Windows!QuotesAreExact
    <3> QED BY <3>4, <3>5 DEF WindowsInv
  <2> QED BY <2>1, <2>2, <2>3
<1>3. (On("windows") => WindowsInv) => QuotesAreExact
  BY DEF WindowsInv, QuotesAreExact
<1> QED BY <1>1, <1>2, <1>3, PTL DEF Spec

-----------------------------------------------------------------------------
(* The quality screen.                                                     *)

\* A text that has been assessed.
Known(text0) == \E a \in assessments : a.text = text0

TextAt(r) == TextOf[submitting[r].source]

\* A request that carries a source on without a warning, not told apart from a
\* concurrent one.
Alone(r) == submitting[r].disposition = "accept" /\ TextAt(r) \notin concurrent

Requests ==
  [step : {"rest", "store", "submit"}, source : Submitted \cup {Screen!Resting.source},
   disposition : {"accept", "accept_with_warnings", "quarantine", "reject"}]

\* An assessment is stored before its candidate, so that what a request finds in
\* the table covers every candidate of the text and every request about to make
\* one; those it cannot see yet are the concurrent ones.
ScreenInv ==
  /\ submitting \in [Submitters -> Requests]
  /\ \A c \in candidates : Known(TextOf[c.source])
  /\ \A r \in Submitters : submitting[r].step = "submit" => Known(TextAt(r))
  /\ \A r \in Submitters : submitting[r].step = "store" /\ Alone(r) =>
       /\ ~Known(TextAt(r))
       /\ \A q \in Submitters \ {r} : submitting[q].step = "store" => TextAt(q) # TextAt(r)
  /\ \A r \in Submitters : submitting[r].step = "submit" /\ Alone(r) =>
       /\ \A c \in candidates : c.disposition = "accept" => TextOf[c.source] # TextAt(r)
       /\ \A q \in Submitters \ {r} :
            submitting[q].step = "submit" /\ submitting[q].disposition = "accept"
            => TextAt(q) # TextAt(r)
  /\ Screen!RepeatsAreFlagged

\* A source that is accepted has no flaw, so it was not recognised.
LEMMA AcceptedIsNew ==
  ASSUME NEW flaws
  PROVE  /\ Screen!Disposition(flaws) \in {"accept", "accept_with_warnings", "quarantine", "reject"}
         /\ Screen!Disposition(flaws) = "accept" => flaws = {}
BY DEF Screen!Disposition

\* A new request is alone only if the text is in no other hand.
LEMMA ScreenAssess ==
  ASSUME ScreenInv, NEW r \in Submitters, NEW source \in Submitted, Screen!Assess(r, source)
  PROVE  ScreenInv'
<1>1. PICK flaws : /\ Known(TextOf[source]) => "duplicate" \in flaws
                   /\ submitting' = [submitting EXCEPT ![r] =
                        [step |-> "store", source |-> source,
                         disposition |-> Screen!Disposition(flaws)]]
  BY DEF Screen!Assess, Known
<1>2. /\ submitting[r].step = "rest"
      /\ concurrent \subseteq concurrent'
      /\ \A q \in Submitters : submitting[q].step = "store" /\ TextAt(q) = TextOf[source]
           => TextOf[source] \in concurrent'
      /\ UNCHANGED <<assessments, candidates>>
  BY DEF Screen!Assess, TextAt
<1> DEFINE new == [step |-> "store", source |-> source, disposition |-> Screen!Disposition(flaws)]
<1>3. /\ new \in Requests /\ new.step = "store" /\ new.source = source
      /\ new.disposition = "accept" => ~Known(TextOf[source])
  BY <1>1, AcceptedIsNew DEF Requests
<1> HIDE DEF new
<1>4. /\ submitting' \in [Submitters -> Requests]
      /\ \A q \in Submitters : submitting'[q] = IF q = r THEN new ELSE submitting[q]
  BY <1>1, <1>3 DEF ScreenInv, new
<1>5. \A text0 : Known(text0)' <=> Known(text0)
  BY <1>2 DEF Known
<1>6. /\ TextAt(r)' = TextOf[source] /\ (Alone(r)' => ~Known(TextOf[source]) /\ TextOf[source] \notin concurrent')
      /\ \A q \in Submitters \ {r} : TextAt(q)' = TextAt(q) /\ (Alone(q)' => Alone(q) /\ TextAt(q) \notin concurrent')
  BY <1>2, <1>3, <1>4 DEF TextAt, Alone
<1>7. \A q \in Submitters : submitting'[q].step = "submit" => q # r /\ submitting[q].step = "submit"
  BY <1>3, <1>4
<1>8. \A q \in Submitters : submitting'[q].step = "submit" => Known(TextAt(q))'
  BY <1>5, <1>6, <1>7 DEF ScreenInv
<1>9. ASSUME NEW q \in Submitters, submitting'[q].step = "store", Alone(q)'
      PROVE  /\ ~Known(TextAt(q))'
             /\ \A p \in Submitters \ {q} : submitting'[p].step = "store" => TextAt(p)' # TextAt(q)'
  <2>1. CASE q = r
    <3>1. TextAt(q)' = TextOf[source] /\ ~Known(TextOf[source]) /\ TextOf[source] \notin concurrent'
      BY <1>6, <1>9, <2>1
    <3>2. ~Known(TextAt(q))'
      BY <1>2, <3>1 DEF Known
    <3>3. \A p \in Submitters \ {q} : submitting'[p].step = "store" => TextAt(p)' # TextAt(q)'
      BY <1>2, <1>4, <1>6, <2>1, <3>1
    <3> QED BY <3>2, <3>3
  <2>2. CASE q # r
    <3>1. submitting[q].step = "store" /\ Alone(q) /\ TextAt(q) \notin concurrent' /\ TextAt(q)' = TextAt(q)
      BY <1>4, <1>6, <1>9, <2>2
    <3> QED BY <1>2, <1>4, <1>5, <1>6, <3>1 DEF ScreenInv
  <2> QED BY <2>1, <2>2
<1>10. ASSUME NEW q \in Submitters, submitting'[q].step = "submit", Alone(q)'
       PROVE  /\ \A c \in candidates' : c.disposition = "accept" => TextOf[c.source] # TextAt(q)'
              /\ \A p \in Submitters \ {q} :
                   submitting'[p].step = "submit" /\ submitting'[p].disposition = "accept"
                   => TextAt(p)' # TextAt(q)'
  BY <1>2, <1>4, <1>6, <1>7, <1>10 DEF ScreenInv
<1>11. Screen!RepeatsAreFlagged'
  BY <1>2 DEF ScreenInv, Screen!RepeatsAreFlagged
<1>12. \A c \in candidates' : Known(TextOf[c.source])'
  BY <1>2, <1>5 DEF ScreenInv
<1> QED BY <1>4, <1>8, <1>9, <1>10, <1>11, <1>12 DEF ScreenInv

\* The assessment of a request that is alone is the first of its text.
LEMMA ScreenStore ==
  ASSUME ScreenInv, NEW r \in Submitters, Screen!StoreAssessment(r)
  PROVE  ScreenInv'
<1>1. /\ submitting[r].step = "store"
      /\ assessments' = assessments \cup
           {[text |-> TextAt(r), disposition |-> submitting[r].disposition]}
      /\ UNCHANGED <<candidates, concurrent>>
  BY DEF Screen!StoreAssessment, TextAt
<1>2. PICK next \in {"rest", "submit"} : submitting' = [submitting EXCEPT ![r].step = next]
  BY DEF Screen!StoreAssessment
<1>3. /\ submitting' \in [Submitters -> Requests]
      /\ \A q \in Submitters : /\ submitting'[q].step = IF q = r THEN next ELSE submitting[q].step
                               /\ submitting'[q].source = submitting[q].source
                               /\ submitting'[q].disposition = submitting[q].disposition
  BY <1>2 DEF ScreenInv, Requests
<1>4. \A q \in Submitters : TextAt(q)' = TextAt(q) /\ (Alone(q)' <=> Alone(q))
  BY <1>1, <1>3 DEF TextAt, Alone
<1>5. \A text0 : Known(text0)' <=> Known(text0) \/ text0 = TextAt(r)
  <2> DEFINE new == [text |-> TextAt(r), disposition |-> submitting[r].disposition]
  <2>1. assessments' = assessments \cup {new} /\ new.text = TextAt(r)
    BY <1>1
  <2> HIDE DEF new
  <2> QED BY <2>1 DEF Known
<1>6. ASSUME NEW q \in Submitters, submitting'[q].step = "store", Alone(q)'
      PROVE  /\ ~Known(TextAt(q))'
             /\ \A p \in Submitters \ {q} : submitting'[p].step = "store" => TextAt(p)' # TextAt(q)'
  <2>1. q # r /\ submitting[q].step = "store" /\ Alone(q)
    BY <1>2, <1>3, <1>4, <1>6
  <2>2. ~Known(TextAt(q)) /\ \A p \in Submitters \ {q} : submitting[p].step = "store" => TextAt(p) # TextAt(q)
    BY <2>1 DEF ScreenInv
  <2> QED BY <1>1, <1>2, <1>3, <1>4, <1>5, <2>1, <2>2
<1>7. ASSUME NEW q \in Submitters, submitting'[q].step = "submit", Alone(q)'
      PROVE  /\ \A c \in candidates' : c.disposition = "accept" => TextOf[c.source] # TextAt(q)'
             /\ \A p \in Submitters \ {q} :
                  submitting'[p].step = "submit" /\ submitting'[p].disposition = "accept"
                  => TextAt(p)' # TextAt(q)'
  <2>1. CASE q = r
    <3>1. ~Known(TextAt(r))
      BY <1>1, <1>4, <1>7, <2>1 DEF ScreenInv
    <3> QED BY <1>1, <1>3, <1>4, <2>1, <3>1 DEF ScreenInv
  <2>2. CASE q # r
    <3>1. submitting[q].step = "submit" /\ Alone(q) /\ Known(TextAt(q))
      BY <1>3, <1>4, <1>7, <2>2 DEF ScreenInv
    <3>2. submitting[r].disposition = "accept" => TextAt(r) # TextAt(q)
      BY <1>1, <3>1 DEF ScreenInv, Alone
    <3> QED BY <1>1, <1>3, <1>4, <2>2, <3>1, <3>2 DEF ScreenInv
  <2> QED BY <2>1, <2>2
<1>8. Screen!RepeatsAreFlagged'
  BY <1>1 DEF ScreenInv, Screen!RepeatsAreFlagged
<1>9. /\ \A c \in candidates' : Known(TextOf[c.source])'
      /\ \A q \in Submitters : submitting'[q].step = "submit" => Known(TextAt(q))'
  BY <1>1, <1>3, <1>4, <1>5 DEF ScreenInv
<1> QED BY <1>3, <1>6, <1>7, <1>8, <1>9 DEF ScreenInv

\* A request ends, with its candidate or without.
LEMMA ScreenEnd ==
  ASSUME ScreenInv, NEW r \in Submitters, Screen!SubmitCandidate(r) \/ Screen!BreakOffSubmission(r)
  PROVE  ScreenInv'
<1>1. /\ submitting' = [submitting EXCEPT ![r].step = "rest"]
      /\ UNCHANGED <<assessments, concurrent>>
  BY DEF Screen!SubmitCandidate, Screen!BreakOffSubmission
<1>2. /\ submitting' \in [Submitters -> Requests]
      /\ \A q \in Submitters : /\ submitting'[q].step = IF q = r THEN "rest" ELSE submitting[q].step
                               /\ submitting'[q].source = submitting[q].source
                               /\ submitting'[q].disposition = submitting[q].disposition
  BY <1>1 DEF ScreenInv, Requests
<1>3. \A q \in Submitters : TextAt(q)' = TextAt(q) /\ (Alone(q)' <=> Alone(q))
  BY <1>1, <1>2 DEF TextAt, Alone
<1>4. \A text0 : Known(text0)' <=> Known(text0)
  BY <1>1 DEF Known
<1>5. \/ candidates' = candidates
      \/ /\ submitting[r].step = "submit"
         /\ \E c : /\ candidates' = candidates \cup {c}
                   /\ c.source = submitting[r].source /\ c.disposition = submitting[r].disposition
  BY DEF Screen!SubmitCandidate, Screen!BreakOffSubmission
<1>6. CASE candidates' = candidates
  <2>1. Screen!RepeatsAreFlagged'
    BY <1>1, <1>6 DEF ScreenInv, Screen!RepeatsAreFlagged
  <2> QED BY <1>2, <1>3, <1>4, <1>6, <2>1 DEF ScreenInv
<1>7. CASE candidates' # candidates
  <2>1. PICK c : /\ submitting[r].step = "submit" /\ candidates' = candidates \cup {c}
                 /\ TextOf[c.source] = TextAt(r) /\ c.disposition = submitting[r].disposition
    BY <1>5, <1>7 DEF TextAt
  <2>2. \A d \in candidates' : Known(TextOf[d.source])'
    BY <1>4, <2>1 DEF ScreenInv
  <2>3. ASSUME NEW q \in Submitters, submitting'[q].step = "submit", Alone(q)'
        PROVE  \A d \in candidates' : d.disposition = "accept" => TextOf[d.source] # TextAt(q)'
    BY <1>2, <1>3, <2>1, <2>3 DEF ScreenInv
  <2>4. ASSUME c.disposition = "accept", TextOf[c.source] \notin concurrent, NEW d \in candidates,
               d.disposition = "accept"
        PROVE  TextOf[d.source] # TextOf[c.source]
    BY <2>1, <2>4 DEF ScreenInv, Alone
  <2>5. Screen!RepeatsAreFlagged'
    BY <1>1, <2>1, <2>4 DEF ScreenInv, Screen!RepeatsAreFlagged
  <2> QED BY <1>2, <1>3, <1>4, <2>2, <2>3, <2>5 DEF ScreenInv
<1> QED BY <1>6, <1>7

\* A text without warnings becomes a candidate once, however many requests bring
\* it, unless two assessed it at the same time.
THEOREM RepeatsCarryWarnings == Spec => []RepeatsAreFlagged
<1>1. Init => (On("screen") => ScreenInv)
  <2> SUFFICES ASSUME Screen!Init PROVE ScreenInv
    BY DEF Init, On
  <2>1. /\ candidates = {} /\ submitting = [r \in Submitters |-> Screen!Resting]
        /\ Screen!Resting.step = "rest" /\ Screen!Resting \in Requests
    BY DEF Screen!Init, Screen!Resting, Requests
  <2> QED BY <2>1 DEF ScreenInv, Screen!RepeatsAreFlagged
<1>2. (On("screen") => ScreenInv) /\ [Next]_vars => (On("screen") => ScreenInv)'
  <2> SUFFICES ASSUME On("screen") => ScreenInv, [Next]_vars, On("screen")'
               PROVE  ScreenInv'
    OBVIOUS
  <2>1. ScreenInv /\ (Screen!Next \/ UNCHANGED screenVars)
    BY OnePart DEF On
  <2>2. CASE UNCHANGED screenVars
    BY <2>1, <2>2 DEF screenVars, ScreenInv, Known, TextAt, Alone, Screen!RepeatsAreFlagged
  <2> QED BY <2>1, <2>2, ScreenAssess, ScreenStore, ScreenEnd DEF Screen!Next
<1>3. (On("screen") => ScreenInv) => RepeatsAreFlagged
  BY DEF ScreenInv, RepeatsAreFlagged
<1> QED BY <1>1, <1>2, <1>3, PTL DEF Spec

-----------------------------------------------------------------------------
(* Enrichment.                                                             *)

\* What RunsAreTrue says of one run.
RunIsTrue(kind, level, truth, row) ==
  IF kind = "source"
  THEN /\ row.fallback <=> truth.by \in {"noop", "nobody"}
       /\ ~row.fallback => row.provider = truth.by
       /\ row.status = "skipped" <=> truth.by = "nobody"
       /\ truth.sent /\ truth.by = "noop" => row.status = "failed"
       /\ truth.sent /\ Enrich!Hosted /\ level >= Confidential => settings.hostedAllowed
  ELSE /\ row.fallback => truth.by \in {"noop", "nobody"}
       /\ truth.by = "nobody" /\ row.status = "completed" => ~settings.enabled

Row(kind, made) == IF kind = "source" THEN Enrich!SourceRun(made) ELSE Enrich!PackRun(made)

\* A model is asked only by a process that has one, and a hosted one not for a
\* source it must not see.  What is about to be recorded would be true.
EnrichInv ==
  /\ task.kind \in {"none", "source", "pack"}
  /\ task.step \in {"rest", "call", "record"}
  /\ task = [kind |-> task.kind, step |-> task.step, level |-> task.level,
             objects |-> task.objects, done |-> task.done]
  /\ settings.provider \in Enrich!Providers
  /\ task.step = "call" =>
       /\ settings.enabled /\ settings.provider # "noop"
       /\ task.kind = "source" => ~Enrich!Blocked(task.level)
  /\ task.step = "record" =>
       RunIsTrue(task.kind, task.level, task.done, Row(task.kind, task.done))
  /\ \A r \in runs : RunIsTrue(r.kind, r.level, r.truth, r.row)

\* The configuration stays as it is.
LEMMA RunsStayTrue ==
  ASSUME UNCHANGED settings
  PROVE  \A kind, level, truth, row :
           RunIsTrue(kind, level, truth, row)' <=> RunIsTrue(kind, level, truth, row)
BY DEF RunIsTrue, Enrich!Hosted

\* A task that no model is asked for is recorded as such.
LEMMA EnrichStart ==
  ASSUME EnrichInv, NEW kind \in {"source", "pack"}, NEW level, NEW has,
         Enrich!Start(kind, level, has)
  PROVE  EnrichInv'
<1>1. /\ UNCHANGED <<settings, runs>>
      /\ \A k, l, truth, row : RunIsTrue(k, l, truth, row)' <=> RunIsTrue(k, l, truth, row)
  BY RunsStayTrue DEF Enrich!Start
<1>2. PICK step, made :
        /\ task' = [kind |-> kind, step |-> step, level |-> level, objects |-> has, done |-> made]
        /\ \/ /\ step = "record" /\ ~settings.enabled
              /\ made = Enrich!By("nobody", IF kind = "source" THEN "skipped" ELSE "completed")
           \/ /\ step = "record" /\ settings.enabled /\ Enrich!Offline(kind, level, has)
              /\ made = Enrich!By("noop", "completed")
           \/ /\ step = "record" /\ settings.enabled /\ Enrich!Unkeyed(kind)
              /\ made = Enrich!By("noop", "failed")
           \/ /\ step = "call" /\ settings.enabled /\ ~Enrich!Offline(kind, level, has)
  BY DEF Enrich!Start
<1>3. task'.kind = kind /\ task'.step = step /\ task'.level = level /\ task'.done = made
      /\ task'.objects = has /\ step \in {"call", "record"}
  BY <1>2
<1>4. \A r \in runs' : RunIsTrue(r.kind, r.level, r.truth, r.row)'
  BY <1>1 DEF EnrichInv
<1>5. step = "call" => settings.provider # "noop" /\ (kind = "source" => ~Enrich!Blocked(level))
  BY <1>2 DEF Enrich!Offline
<1>6. step = "record" => RunIsTrue(kind, level, made, Row(kind, made))
  <2>1. ASSUME NEW status, made = Enrich!By("nobody", status), ~settings.enabled,
               status = IF kind = "source" THEN "skipped" ELSE "completed"
        PROVE  RunIsTrue(kind, level, made, Row(kind, made))
    BY <2>1 DEF RunIsTrue, Row, Enrich!By, Enrich!SourceRun, Enrich!PackRun, Enrich!ProviderOf
  <2>2. ASSUME made = Enrich!By("noop", "completed")
        PROVE  RunIsTrue(kind, level, made, Row(kind, made))
    BY <2>2 DEF RunIsTrue, Row, Enrich!By, Enrich!SourceRun, Enrich!PackRun, Enrich!ProviderOf
  <2>3. ASSUME made = Enrich!By("noop", "failed"), kind = "source"
        PROVE  RunIsTrue(kind, level, made, Row(kind, made))
    BY <2>3 DEF RunIsTrue, Row, Enrich!By, Enrich!SourceRun, Enrich!PackRun, Enrich!ProviderOf
  <2> QED BY <1>2, <2>1, <2>2, <2>3 DEF Enrich!Unkeyed
<1>7. Row(kind, made)' = Row(kind, made) /\ (Enrich!Blocked(level)' <=> Enrich!Blocked(level))
  BY <1>1 DEF Row, Enrich!SourceRun, Enrich!PackRun, Enrich!ProviderOf, Enrich!Blocked, Enrich!Hosted
<1>8. step = "record" => RunIsTrue(task.kind, task.level, task.done, Row(task.kind, task.done))'
  BY <1>1, <1>3, <1>6, <1>7 DEF RunIsTrue, Row, Enrich!SourceRun, Enrich!PackRun, Enrich!ProviderOf, Enrich!Hosted
<1>9. step = "call" /\ kind = "source" => ~Enrich!Blocked(task.level)'
  BY <1>1, <1>3, <1>5 DEF Enrich!Blocked, Enrich!Hosted
<1> QED BY <1>1, <1>2, <1>3, <1>4, <1>5, <1>8, <1>9 DEF EnrichInv

\* However the call of the model ends.
LEMMA EnrichCall ==
  ASSUME EnrichInv, Enrich!Reply \/ Enrich!Fall \/ Enrich!Break
  PROVE  EnrichInv'
<1>1. /\ UNCHANGED <<settings, runs>> /\ task.step = "call"
      /\ settings.enabled /\ settings.provider \in Enrich!Providers \ {"noop"}
      /\ task.kind = "source" => ~Enrich!Blocked(task.level)
      /\ \A k, l, truth, row : RunIsTrue(k, l, truth, row)' <=> RunIsTrue(k, l, truth, row)
      /\ task.kind \in {"none", "source", "pack"}
  BY RunsStayTrue DEF EnrichInv, Enrich!Reply, Enrich!Fall, Enrich!Break
<1>2. \A r \in runs' : RunIsTrue(r.kind, r.level, r.truth, r.row)'
  BY <1>1 DEF EnrichInv
<1>3. CASE task' = Enrich!NoTask
  BY <1>1, <1>2, <1>3 DEF EnrichInv, Enrich!NoTask
<1>4. CASE task' # Enrich!NoTask
  <2>1. PICK by, status :
          /\ task' = [task EXCEPT !.step = "record",
                                  !.done = [by |-> by, status |-> status, sent |-> TRUE]]
          /\ \/ by = settings.provider /\ status = "completed"
             \/ by = "noop" /\ status = IF task.kind = "source" THEN "failed" ELSE "completed"
             \/ task.kind # "source" /\ status = "failed" /\ by = "nobody"
             \/ task.kind # "source" /\ status = "failed" /\ Enrich!Hosted /\ by = "openai"
    <3>1. CASE Enrich!Reply
      BY <3>1 DEF Enrich!Reply
    <3>2. CASE Enrich!Fall
      BY <3>2 DEF Enrich!Fall
    <3>3. CASE Enrich!Break
      BY <1>4, <3>3 DEF Enrich!Break
    <3> QED BY <3>1, <3>2, <3>3
  <2> DEFINE made == [by |-> by, status |-> status, sent |-> TRUE]
  <2>2. task' = [kind |-> task.kind, step |-> "record", level |-> task.level,
                 objects |-> task.objects, done |-> made]
    BY <2>1 DEF EnrichInv
  <2>3. RunIsTrue(task.kind, task.level, made, Row(task.kind, made))
    BY <1>1, <2>1 DEF RunIsTrue, Row, Enrich!SourceRun, Enrich!PackRun, Enrich!ProviderOf,
       Enrich!Blocked, Enrich!Hosted, Enrich!Providers
  <2> HIDE DEF made
  <2>4. RunIsTrue(task.kind, task.level, task.done, Row(task.kind, task.done))'
    BY <1>1, <2>2, <2>3 DEF RunIsTrue, Row, Enrich!SourceRun, Enrich!PackRun, Enrich!ProviderOf, Enrich!Hosted
  <2> QED BY <1>1, <1>2, <2>2, <2>4 DEF EnrichInv
<1> QED BY <1>3, <1>4

\* What was true of the task is recorded.
LEMMA EnrichRecord ==
  ASSUME EnrichInv, Enrich!Record
  PROVE  EnrichInv'
<1>1. /\ task.step = "record" /\ UNCHANGED settings /\ task' = Enrich!NoTask
      /\ runs' = runs \cup {[kind |-> task.kind, level |-> task.level, truth |-> task.done,
                             row |-> Row(task.kind, task.done)]}
  BY DEF Enrich!Record, Row
<1>2. \A k, l, truth, row : RunIsTrue(k, l, truth, row)' <=> RunIsTrue(k, l, truth, row)
  BY <1>1, RunsStayTrue
<1>3. RunIsTrue(task.kind, task.level, task.done, Row(task.kind, task.done))
  BY <1>1 DEF EnrichInv
<1>4. \A r \in runs' : RunIsTrue(r.kind, r.level, r.truth, r.row)
  BY <1>1, <1>3 DEF EnrichInv
<1>5. \A r \in runs' : RunIsTrue(r.kind, r.level, r.truth, r.row)'
  BY <1>2, <1>4
<1> QED BY <1>1, <1>5 DEF EnrichInv, Enrich!NoTask

\* In every configuration and however a call ends: from the run of a source an
\* auditor can tell whose result it is; the run of a pack, which names the configured
\* provider, never claims the fallback for what a model wrote.
THEOREM RunsTellTheTruth == Spec => []RunsAreTrue
<1>1. Init => (On("enrich") => EnrichInv)
  <2> SUFFICES ASSUME Enrich!Init PROVE EnrichInv
    BY DEF Init, On
  <2>1. task = Enrich!NoTask /\ runs = {} /\ settings.provider \in Enrich!Providers
    BY DEF Enrich!Init
  <2> QED BY <2>1 DEF EnrichInv, Enrich!NoTask
<1>2. (On("enrich") => EnrichInv) /\ [Next]_vars => (On("enrich") => EnrichInv)'
  <2> SUFFICES ASSUME On("enrich") => EnrichInv, [Next]_vars, On("enrich")'
               PROVE  EnrichInv'
    OBVIOUS
  <2>1. EnrichInv /\ (Enrich!Next \/ UNCHANGED enrichVars)
    BY OnePart DEF On
  <2>2. CASE UNCHANGED enrichVars
    BY <2>1, <2>2 DEF enrichVars, EnrichInv, RunIsTrue, Row, Enrich!Hosted, Enrich!Blocked,
       Enrich!SourceRun, Enrich!PackRun, Enrich!ProviderOf
  <2> QED BY <2>1, <2>2, EnrichStart, EnrichCall, EnrichRecord DEF Enrich!Next
<1>3. (On("enrich") => EnrichInv) => RunsAreTrue
  BY DEF EnrichInv, RunIsTrue, RunsAreTrue, Enrich!RunsAreTrue
<1> QED BY <1>1, <1>2, <1>3, PTL DEF Spec

-----------------------------------------------------------------------------
(* Obsidian notes.                                                         *)

MemoryFields == {"episode", "by", "body", "links", "version", "subject", "status"}

\* The episode holds the note of the promotion, or another one that its key has
\* stood for.
HoldsNote(episode, p) ==
  \/ episode.note = p.note
  \/ \E b \in begun : Obsidian!StandsUnder(b) = Obsidian!StandsUnder(p) /\ b.note = episode.note

\* The memory of a promotion is stored.
IsRemembered(p) ==
  \E m \in memories :
    /\ Obsidian!Checksum(m) = p.memory
    /\ m.body = p.note.body /\ m.by = p.by /\ HoldsNote(m.episode, p)

IsRelated(p, links0) == \A link \in links0 : [memory |-> p.memory, link |-> link] \in related

\* An episode is under a key of one of the promotions of its note; a memory may
\* become disputed, but keeps what its checksum covers.
NotesInv ==
  /\ \A m \in memories : m = [field \in MemoryFields |-> m[field]]
  /\ \A e \in episodes : \E b \in begun : Obsidian!StandsUnder(b) = e.key /\ b.note = e.note
  /\ promoting.step \in {"rest", "memory", "links"}
  /\ promoting.step = "memory" => HoldsNote(promoting.episode, promoting)
  /\ promoting.step = "links" =>
       /\ IsRemembered(promoting)
       /\ IsRelated(promoting, promoting.note.links \ promoting.left)
  /\ \A d \in done : IsRemembered(d) /\ IsRelated(d, d.note.links)

\* Promotions and relationships are only added.
LEMMA NotesGrow ==
  ASSUME begun \subseteq begun', related \subseteq related'
  PROVE  /\ \A e, p : HoldsNote(e, p) => HoldsNote(e, p)'
         /\ \A p, links0 : IsRelated(p, links0) => IsRelated(p, links0)'
BY DEF HoldsNote, IsRelated, Obsidian!StandsUnder

\* A memory that keeps what its checksum covers stays what was remembered.
LEMMA MemoriesStay ==
  ASSUME begun \subseteq begun', related \subseteq related',
         \A m \in memories : \E n \in memories' :
            n.episode = m.episode /\ n.by = m.by /\ n.body = m.body /\ n.links = m.links
            /\ n.version = m.version /\ n.subject = m.subject
  PROVE  \A p : IsRemembered(p) => IsRemembered(p)'
<1> SUFFICES ASSUME NEW p, IsRemembered(p) PROVE IsRemembered(p)'
  OBVIOUS
<1>1. PICK m \in memories : /\ Obsidian!Checksum(m) = p.memory
                            /\ m.body = p.note.body /\ m.by = p.by /\ HoldsNote(m.episode, p)
  BY DEF IsRemembered
<1>2. PICK n \in memories' :
        n.episode = m.episode /\ n.by = m.by /\ n.body = m.body /\ n.links = m.links
        /\ n.version = m.version /\ n.subject = m.subject
  OBVIOUS
<1>3. Obsidian!Checksum(n) = p.memory /\ n.body = p.note.body /\ n.by = p.by
  BY <1>1, <1>2 DEF Obsidian!Checksum
<1>4. HoldsNote(n.episode, p)'
  BY <1>1, <1>2 DEF HoldsNote, Obsidian!StandsUnder
<1> QED BY <1>3, <1>4 DEF IsRemembered, Obsidian!Checksum

\* The episode of the key, that of the text, or a new one.
LEMMA NotesIngest ==
  ASSUME NotesInv, NEW note, NEW person, NEW given, Obsidian!Ingest(note, person, given)
  PROVE  NotesInv'
<1> DEFINE key == Obsidian!Key(note, given)
           this == [note |-> note, given |-> given]
<1>1. /\ begun' = begun \cup {this} /\ UNCHANGED <<memories, related, done>>
  BY DEF Obsidian!Ingest
<1>2. PICK episode :
        /\ episodes' = episodes \cup {episode}
        /\ promoting' = [step |-> "memory", note |-> note, by |-> person, given |-> given,
                         episode |-> episode]
        /\ \/ episode \in episodes /\ episode.key = key
           \/ episode \in episodes /\ episode.note = note
           \/ episode = [key |-> key, note |-> note]
  BY DEF Obsidian!Ingest
<1>3. Obsidian!StandsUnder(this) = key /\ this.note = note
  BY DEF Obsidian!StandsUnder, Obsidian!Key
<1>4. promoting'.step = "memory" /\ promoting'.note = note /\ promoting'.episode = episode
      /\ Obsidian!StandsUnder(promoting') = key
  BY <1>2 DEF Obsidian!StandsUnder, Obsidian!Key
<1> HIDE DEF key, this
<1>5. \A e \in episodes' : \E b \in begun' : Obsidian!StandsUnder(b) = e.key /\ b.note = e.note
  BY <1>1, <1>2, <1>3 DEF NotesInv
<1>6. HoldsNote(promoting.episode, promoting)'
  <2>1. CASE episode \in episodes /\ episode.key = key
    <3>1. PICK b \in begun : Obsidian!StandsUnder(b) = key /\ b.note = episode.note
      BY <2>1 DEF NotesInv
    <3> QED BY <1>1, <1>4, <3>1 DEF HoldsNote, Obsidian!StandsUnder
  <2>2. CASE episode.note = note
    BY <1>4, <2>2 DEF HoldsNote
  <2> QED BY <1>2, <2>1, <2>2
<1>7. \A d \in done' : IsRemembered(d)' /\ IsRelated(d, d.note.links)'
  BY <1>1, MemoriesStay, NotesGrow DEF NotesInv
<1>8. \A m \in memories' : m = [field \in MemoryFields |-> m[field]]
  BY <1>1 DEF NotesInv
<1> QED BY <1>4, <1>5, <1>6, <1>7, <1>8 DEF NotesInv

\* Whatever becomes disputed, the memory of the note is there afterwards.
LEMMA NotesRemember ==
  ASSUME NotesInv, Obsidian!Remember
  PROVE  NotesInv'
<1> DEFINE note == promoting.note
           built == [episode |-> promoting.episode, by |-> promoting.by, body |-> note.body,
                     links |-> note.links, version |-> note.version, subject |-> note.subject,
                     status |-> note.status]
           same == {m \in memories : Obsidian!Checksum(m) = Obsidian!Checksum(built)}
           rivals == Obsidian!Rivals(built)
           disputed(m) == [m EXCEPT !.status = "conflicting"]
<1>1. /\ promoting.step = "memory" /\ UNCHANGED <<episodes, related, begun, done>>
      /\ memories' = IF same # {} THEN memories
                     ELSE IF rivals = {} THEN memories \cup {built}
                     ELSE (memories \ rivals) \cup {disputed(m) : m \in rivals \cup {built}}
      /\ promoting' = [step |-> "links", note |-> note, by |-> promoting.by,
                       given |-> promoting.given, memory |-> Obsidian!Checksum(built),
                       left |-> note.links]
  BY DEF Obsidian!Remember
<1>2. built = [field \in MemoryFields |-> built[field]]
  BY DEF MemoryFields
<1>3. rivals \subseteq memories
  BY DEF Obsidian!Rivals
<1>4. \A m : m = [field \in MemoryFields |-> m[field]] =>
        /\ disputed(m) = [field \in MemoryFields |-> disputed(m)[field]]
        /\ disputed(m).episode = m.episode /\ disputed(m).by = m.by /\ disputed(m).body = m.body
        /\ disputed(m).links = m.links /\ disputed(m).version = m.version
        /\ disputed(m).subject = m.subject
  BY DEF MemoryFields
<1>5. built.episode = promoting.episode /\ built.by = promoting.by /\ built.body = note.body
  OBVIOUS
<1> HIDE DEF built, disputed, rivals
<1>6. ASSUME NEW m \in memories
      PROVE  \E n \in memories' :
               n.episode = m.episode /\ n.by = m.by /\ n.body = m.body /\ n.links = m.links
               /\ n.version = m.version /\ n.subject = m.subject
  <2>1. m = [field \in MemoryFields |-> m[field]]
    BY DEF NotesInv
  <2> QED BY <1>1, <1>3, <1>4, <2>1
<1>7. \A m \in memories' : m = [field \in MemoryFields |-> m[field]]
  BY <1>1, <1>2, <1>3, <1>4 DEF NotesInv
<1>8. \E n \in memories' : /\ Obsidian!Checksum(n) = Obsidian!Checksum(built)
                           /\ n.body = built.body /\ n.by = built.by /\ n.episode = built.episode
  <2>1. CASE same # {}
    <3>1. PICK n \in memories : Obsidian!Checksum(n) = Obsidian!Checksum(built)
      BY <2>1
    <3> QED BY <1>1, <2>1, <3>1 DEF Obsidian!Checksum
  <2>2. CASE same = {} /\ rivals = {}
    BY <1>1, <2>2
  <2>3. CASE same = {} /\ rivals # {}
    <3>1. disputed(built) \in memories'
      BY <1>1, <2>3
    <3> QED BY <1>2, <1>4, <3>1 DEF Obsidian!Checksum
  <2> QED BY <2>1, <2>2, <2>3
<1>9. /\ promoting'.step = "links" /\ promoting'.note = note /\ promoting'.by = promoting.by
      /\ promoting'.memory = Obsidian!Checksum(built) /\ promoting'.left = note.links
      /\ promoting'.given = promoting.given
  BY <1>1
<1>10. IsRemembered(promoting)'
  <2>1. PICK n \in memories' : /\ Obsidian!Checksum(n) = Obsidian!Checksum(built)
                               /\ n.body = built.body /\ n.by = built.by /\ n.episode = built.episode
    BY <1>8
  <2>2. HoldsNote(promoting.episode, promoting)
    BY <1>1 DEF NotesInv
  <2>3. HoldsNote(n.episode, promoting)'
    BY <1>1, <1>5, <1>9, <2>1, <2>2 DEF HoldsNote, Obsidian!StandsUnder
  <2> QED BY <1>5, <1>9, <2>1, <2>3 DEF IsRemembered, Obsidian!Checksum
<1>11. IsRelated(promoting, promoting.note.links \ promoting.left)'
  BY <1>9 DEF IsRelated
<1>12. \A d \in done' : IsRemembered(d)' /\ IsRelated(d, d.note.links)'
  BY <1>1, <1>6, MemoriesStay, NotesGrow DEF NotesInv
<1>13. \A e \in episodes' : \E b \in begun' : Obsidian!StandsUnder(b) = e.key /\ b.note = e.note
  BY <1>1 DEF NotesInv
<1> QED BY <1>7, <1>9, <1>10, <1>11, <1>12, <1>13 DEF NotesInv

\* The links, the answer, and every way to end without one.
LEMMA NotesRest ==
  ASSUME NotesInv,
         \/ Obsidian!Relate \/ Obsidian!Return \/ Obsidian!RefuseMemory
         \/ Obsidian!BreakOffPromotion \/ UNCHANGED noteVars
  PROVE  NotesInv'
<1>1. UNCHANGED <<episodes, memories, begun>> /\ related \subseteq related'
  BY DEF Obsidian!Relate, Obsidian!Return, Obsidian!RefuseMemory, Obsidian!BreakOffPromotion, noteVars
<1>2. /\ \A p : IsRemembered(p) => IsRemembered(p)'
      /\ \A p, links0 : IsRelated(p, links0) => IsRelated(p, links0)'
  BY <1>1, MemoriesStay, NotesGrow
<1>3. /\ \A m \in memories' : m = [field \in MemoryFields |-> m[field]]
      /\ \A e \in episodes' : \E b \in begun' : Obsidian!StandsUnder(b) = e.key /\ b.note = e.note
  BY <1>1 DEF NotesInv
<1>4. CASE Obsidian!Relate
  <2>1. PICK link \in promoting.left :
          /\ related' = related \cup {[memory |-> promoting.memory, link |-> link]}
          /\ promoting' = [promoting EXCEPT !.left = @ \ {link}]
    BY <1>4 DEF Obsidian!Relate
  <2>2. promoting.step = "links" /\ done' = done
    BY <1>4 DEF Obsidian!Relate
  <2>3. /\ promoting'.step = "links" /\ promoting'.note = promoting.note
        /\ promoting'.by = promoting.by /\ promoting'.memory = promoting.memory
        /\ promoting'.given = promoting.given /\ promoting'.left = promoting.left \ {link}
    BY <2>1, <2>2
  <2>4. IsRemembered(promoting) /\ IsRelated(promoting, promoting.note.links \ promoting.left)
    BY <2>2 DEF NotesInv
  <2>5. Obsidian!StandsUnder(promoting)' = Obsidian!StandsUnder(promoting)
    BY <2>3 DEF Obsidian!StandsUnder
  <2>6. \A e : HoldsNote(e, promoting) => HoldsNote(e, promoting)'
    BY <1>1, <2>3, <2>5 DEF HoldsNote, Obsidian!StandsUnder
  <2>7. IsRemembered(promoting)'
    BY <1>1, <2>3, <2>4, <2>6 DEF IsRemembered, Obsidian!Checksum
  <2>8. IsRelated(promoting, promoting.note.links \ promoting.left)'
    BY <2>1, <2>3, <2>4 DEF IsRelated
  <2>9. \A d \in done' : IsRemembered(d)' /\ IsRelated(d, d.note.links)'
    BY <1>2, <2>2 DEF NotesInv
  <2> QED BY <1>3, <2>3, <2>7, <2>8, <2>9 DEF NotesInv
<1>5. CASE Obsidian!Return
  <2> DEFINE d == [note |-> promoting.note, by |-> promoting.by, given |-> promoting.given,
                   memory |-> promoting.memory]
  <2>1. /\ promoting.step = "links" /\ promoting.left = {} /\ promoting' = Obsidian!Resting
        /\ done' = done \cup {d}
    BY <1>5 DEF Obsidian!Return
  <2>2. d.note = promoting.note /\ d.by = promoting.by /\ d.memory = promoting.memory
        /\ Obsidian!StandsUnder(d) = Obsidian!StandsUnder(promoting)
    BY DEF Obsidian!StandsUnder
  <2> HIDE DEF d
  <2>3. IsRemembered(d) /\ IsRelated(d, d.note.links)
    BY <2>1, <2>2 DEF NotesInv, IsRemembered, IsRelated, HoldsNote
  <2>4. \A x \in done' : IsRemembered(x) /\ IsRelated(x, x.note.links)
    BY <2>1, <2>3 DEF NotesInv
  <2> QED BY <1>2, <1>3, <2>1, <2>4 DEF NotesInv, Obsidian!Resting
<1>6. CASE Obsidian!RefuseMemory \/ Obsidian!BreakOffPromotion
  <2>1. promoting' = Obsidian!Resting /\ done' = done
    BY <1>6 DEF Obsidian!RefuseMemory, Obsidian!BreakOffPromotion
  <2> QED BY <1>2, <1>3, <2>1 DEF NotesInv, Obsidian!Resting
<1>7. CASE UNCHANGED noteVars
  <2>1. promoting' = promoting /\ done' = done
    BY <1>7 DEF noteVars
  <2>2. \A e : HoldsNote(e, promoting) => HoldsNote(e, promoting)'
    BY <1>1, <2>1 DEF HoldsNote, Obsidian!StandsUnder
  <2>3. IsRemembered(promoting) => IsRemembered(promoting)'
    BY <1>1, <2>1, <2>2 DEF IsRemembered, Obsidian!Checksum
  <2>4. IsRelated(promoting, promoting.note.links \ promoting.left)
        => IsRelated(promoting, promoting.note.links \ promoting.left)'
    BY <1>1, <2>1 DEF IsRelated
  <2>5. \A d \in done' : IsRemembered(d)' /\ IsRelated(d, d.note.links)'
    BY <1>2, <2>1 DEF NotesInv
  <2>6. promoting.step = "memory" => HoldsNote(promoting.episode, promoting)'
    BY <2>1, <2>2 DEF NotesInv
  <2> QED BY <1>3, <2>1, <2>3, <2>4, <2>5, <2>6 DEF NotesInv
<1> QED BY <1>4, <1>5, <1>6, <1>7

\* An answered promotion left its memory, its links and the episode that holds its
\* note, for all notes, keys and principals, however often it died and was repeated.
THEOREM NotesAreKept == Spec => []NotesAreTraceable
<1>1. Init => (On("notes") => NotesInv)
  <2> SUFFICES ASSUME Obsidian!Init PROVE NotesInv
    BY DEF Init, On
  <2> QED BY DEF Obsidian!Init, Obsidian!Resting, NotesInv
<1>2. (On("notes") => NotesInv) /\ [Next]_vars => (On("notes") => NotesInv)'
  <2> SUFFICES ASSUME On("notes") => NotesInv, [Next]_vars, On("notes")'
               PROVE  NotesInv'
    OBVIOUS
  <2>1. NotesInv /\ (Obsidian!Next \/ UNCHANGED noteVars)
    BY OnePart DEF On
  <2> QED BY <2>1, NotesIngest, NotesRemember, NotesRest DEF Obsidian!Next
<1>3. (On("notes") => NotesInv) => NotesAreTraceable
  <2> SUFFICES ASSUME NotesInv, NEW d \in done, Obsidian!OwnKey(d)
               PROVE  \E m \in memories :
                        /\ Obsidian!Checksum(m) = d.memory
                        /\ m.body = d.note.body /\ m.by = d.by /\ m.episode.note = d.note
                        /\ \A link \in d.note.links : [memory |-> d.memory, link |-> link] \in related
    BY DEF NotesAreTraceable, Obsidian!NotesAreTraceable
  <2>1. IsRemembered(d) /\ IsRelated(d, d.note.links)
    BY DEF NotesInv
  <2> QED BY <2>1 DEF IsRemembered, IsRelated, HoldsNote, Obsidian!OwnKey
<1> QED BY <1>1, <1>2, <1>3, PTL DEF Spec

-----------------------------------------------------------------------------
(* Context packs.                                                          *)

\* What a sequence of hits holds when its head is taken off.
LEMMA HitsHeadOff ==
  ASSUME NEW S, NEW s \in Seq(S), s # <<>>
  PROVE  /\ Head(s) \in S /\ Tail(s) \in Seq(S)
         /\ Context!ToSet(s) = {Head(s)} \cup Context!ToSet(Tail(s))
<1>1. \A q : Context!ToSet(q) = Elements(q)
  BY DEF Context!ToSet, Elements
<1>2. /\ Head(s) \in S /\ Tail(s) \in Seq(S)
      /\ Elements(s) = {Head(s)} \cup Elements(Tail(s))
  BY Zenon, HeadOff
<1> QED BY Zenon, <1>1, <1>2

\* ... and when one is put at the end.
LEMMA HitsOneMore ==
  ASSUME NEW S, NEW s \in Seq(S), NEW x \in S
  PROVE  Append(s, x) \in Seq(S) /\ Context!ToSet(Append(s, x)) = Context!ToSet(s) \cup {x}
BY OneMore DEF Context!ToSet, Elements

Returned == {r.object : r \in Context!ToSet(results)}

\* Every published object among the hits is withheld, returned, or not yet looked
\* at; what was looked at is on one side, for its clearance.
ContextInv ==
  /\ hits \in Seq(Context!Hits) /\ results \in Seq(Context!Hits)
  /\ \A h \in Context!ToSet(hits) : h.object \in asked
  /\ asked \cap published \subseteq {h.object : h \in Context!ToSet(hits)} \cup denied \cup Returned
  /\ denied \subseteq asked \cap published
  /\ \A r \in Context!ToSet(results) :
       r.object \in asked \cap published /\ r.object \notin denied /\ Context!Readable(r)
  /\ Context!PackIsReadable /\ Context!MissingIsTrue

\* An empty answer is no pack.
LEMMA NoPack ==
  ASSUME answer = Context!NoAnswer,
         \A r \in Context!ToSet(results) : Context!Readable(r)
  PROVE  Context!PackIsReadable /\ Context!MissingIsTrue
BY DEF Context!PackIsReadable, Context!MissingIsTrue, Context!NoAnswer, Context!Readable

\* Nothing is asked yet.
LEMMA ContextInit ==
  ASSUME Context!Init
  PROVE  ContextInv
<1>1. PICK n \in 0 .. HitLimit : hits \in [1 .. n -> Context!Hits]
  BY DEF Context!Init
<1>2. hits \in Seq(Context!Hits)
  BY <1>1, ContextAssumption
<1>3. /\ results = <<>> /\ denied = {} /\ answer = Context!NoAnswer
      /\ asked = {h.object : h \in Context!ToSet(hits)}
  BY DEF Context!Init
<1>4. Context!ToSet(results) = {}
  BY <1>3 DEF Context!ToSet
<1>5. results \in Seq(Context!Hits)
  BY <1>3
<1>6. Context!PackIsReadable /\ Context!MissingIsTrue
  BY <1>3, <1>4, NoPack
<1> QED BY <1>2, <1>3, <1>4, <1>5, <1>6 DEF ContextInv

\* A hit that is looked at is settled one way or the other, for its clearance.
LEMMA ContextLooks ==
  ASSUME ContextInv, Context!PassHit \/ Context!Examine
  PROVE  ContextInv'
<1> DEFINE hit == Head(hits)
<1>1. /\ answer = Context!NoAnswer /\ hits # <<>> /\ hits' = Tail(hits)
      /\ UNCHANGED <<levels, sourceLevel, published, clearance, asked, answer>>
  BY DEF Context!PassHit, Context!Examine, Context!Examining
<1>2. /\ hit \in Context!Hits /\ hits' \in Seq(Context!Hits)
      /\ Context!ToSet(hits) = {hit} \cup Context!ToSet(hits')
  BY <1>1, HitsHeadOff DEF ContextInv
<1>3. \A r : Context!Readable(r)' <=> Context!Readable(r)
  BY <1>1 DEF Context!Readable, Context!CanRead
<1>4. PICK returned \in SUBSET {hit} :
        /\ results' \in Seq(Context!Hits)
        /\ Context!ToSet(results') = Context!ToSet(results) \cup returned
        /\ \A r \in returned : hit.object \in published /\ hit.object \notin denied /\ Context!Readable(hit)
        /\ denied' = denied \/ (returned = {} /\ denied' = denied \cup {hit.object} /\ hit.object \in published
                                /\ hit.object \notin Returned)
        /\ hit.object \in published =>
             hit.object \in denied' \/ hit.object \in Returned \/ returned = {hit}
  <2>1. CASE Context!PassHit
    <3>1. /\ results' = results /\ denied' = denied
          /\ Context!Settled(hit.object) \/ hit.object \notin published
      BY <2>1 DEF Context!PassHit
    <3> HIDE DEF hit
    <3>2. hit.object \in published => hit.object \in denied \/ hit.object \in Returned
      BY <3>1 DEF Context!Settled, Returned
    <3>3. results' \in Seq(Context!Hits) /\ Context!ToSet(results') = Context!ToSet(results) \cup {}
      BY <3>1 DEF ContextInv
    <3> WITNESS {} \in SUBSET {hit}
    <3> QED BY <3>1, <3>2, <3>3
  <2>2. CASE Context!Examine /\ Context!Readable(hit)
    <3>1. /\ results' = Append(results, hit) /\ denied' = denied
          /\ ~Context!Settled(hit.object) /\ hit.object \in published
      BY <2>2 DEF Context!Examine
    <3> HIDE DEF hit
    <3>2. /\ results' \in Seq(Context!Hits)
          /\ Context!ToSet(results') = Context!ToSet(results) \cup {hit}
      BY <1>2, <3>1, HitsOneMore DEF ContextInv
    <3>3. hit.object \notin denied
      BY <3>1 DEF Context!Settled
    <3> QED BY <2>2, <3>1, <3>2, <3>3
  <2>3. CASE Context!Examine /\ ~Context!Readable(hit)
    <3>1. /\ results' = results /\ denied' = denied \cup {hit.object}
          /\ ~Context!Settled(hit.object) /\ hit.object \in published
      BY <2>3 DEF Context!Examine
    <3> HIDE DEF hit
    <3>2. hit.object \notin Returned
      BY <3>1 DEF Context!Settled, Returned
    <3>3. results' \in Seq(Context!Hits) /\ Context!ToSet(results') = Context!ToSet(results) \cup {}
      BY <3>1 DEF ContextInv
    <3> WITNESS {} \in SUBSET {hit}
    <3> QED BY <3>1, <3>2, <3>3
  <2> QED BY <2>1, <2>2, <2>3
<1> HIDE DEF hit
<1>5. hit.object \in asked
  BY <1>2 DEF ContextInv
<1>6. Returned' = Returned \cup {r.object : r \in returned}
  BY <1>4 DEF Returned
<1>7. (\A h \in Context!ToSet(hits) : h.object \in asked)'
  BY <1>1, <1>2 DEF ContextInv
<1>8. (asked \cap published \subseteq {h.object : h \in Context!ToSet(hits)} \cup denied \cup Returned)'
  <2> SUFFICES ASSUME NEW o \in asked \cap published,
                      o \notin {h.object : h \in Context!ToSet(hits')}
               PROVE  o \in denied' \cup Returned'
    BY <1>1
  <2>1. CASE o = hit.object
    BY <1>4, <1>6, <2>1
  <2>2. CASE o # hit.object
    <3>1. o \in denied \cup Returned
      BY <1>2, <2>2 DEF ContextInv
    <3> QED BY <1>4, <1>6, <3>1
  <2> QED BY <2>1, <2>2
<1>9. (denied \subseteq asked \cap published)'
  BY <1>1, <1>4, <1>5 DEF ContextInv
<1>10. ASSUME NEW r \in Context!ToSet(results')
       PROVE  r.object \in asked \cap published /\ r.object \notin denied' /\ Context!Readable(r)'
  <2>1. CASE r \in Context!ToSet(results)
    <3>1. r.object \in asked \cap published /\ r.object \notin denied /\ Context!Readable(r)
          /\ r.object \in Returned
      BY <2>1 DEF ContextInv, Returned
    <3> QED BY <1>3, <1>4, <3>1
  <2>2. CASE r \in returned
    BY <1>3, <1>4, <1>5, <2>2
  <2> QED BY <1>4, <2>1, <2>2
<1>11. (\A r \in Context!ToSet(results) :
           r.object \in asked \cap published /\ r.object \notin denied /\ Context!Readable(r))'
  BY <1>1, <1>10
<1>12. (Context!PackIsReadable /\ Context!MissingIsTrue)'
  <2>1. /\ answer' = Context!NoAnswer
        /\ \A r \in Context!ToSet(results') : Context!Readable(r)'
    BY <1>1, <1>10
  <2> QED BY <2>1 DEF Context!PackIsReadable, Context!MissingIsTrue, Context!NoAnswer, Context!Readable
<1> QED BY <1>2, <1>4, <1>7, <1>8, <1>9, <1>11, <1>12 DEF ContextInv

\* What a result is cited with is readable, and it is cited with nothing only when
\* none of its sources is.
LEMMA CitedReadable ==
  ASSUME NEW r, NEW chunks0, NEW sources \in Context!Cited(r, chunks0)
  PROVE  /\ \A s \in sources : Context!CanRead(sourceLevel[s])
         /\ sources = {} => \A s \in SourcesOf[r.object] : ~Context!CanRead(sourceLevel[s])
<1> DEFINE quoted == {ChunkSource[c] : c \in {c \in chunks0 : Context!CanRead(sourceLevel[ChunkSource[c]])}}
           open == {s \in SourcesOf[r.object] : Context!CanRead(sourceLevel[s])}
<1>1. sources \in (IF quoted # {} THEN {quoted} ELSE IF open # {} THEN {{s} : s \in open} ELSE {{}})
  BY DEF Context!Cited
<1>2. /\ \A s \in quoted : Context!CanRead(sourceLevel[s])
      /\ \A s \in open : Context!CanRead(sourceLevel[s])
      /\ open = {} => \A s \in SourcesOf[r.object] : ~Context!CanRead(sourceLevel[s])
  OBVIOUS
<1> HIDE DEF quoted, open
<1>3. CASE quoted # {}
  BY <1>1, <1>2, <1>3
<1>4. CASE quoted = {} /\ open # {}
  BY <1>1, <1>2, <1>4
<1>5. CASE quoted = {} /\ open = {}
  BY <1>1, <1>2, <1>5
<1> QED BY <1>3, <1>4, <1>5

\* What the pack is built from: the walk ended, so that every published hit was
\* settled unless there was something to return.
LEMMA ContextBuilds ==
  ASSUME ContextInv, Context!Build
  PROVE  ContextInv'
<1> DEFINE found == Context!ToSet(results)
           objects == {r.object : r \in found}
           missing(cited) == CASE Context!Decision(objects) = "denied" -> {"withheld"}
                               [] Context!Decision(objects) # "denied" /\ objects = {} -> {"unknown"}
                               [] objects # {} /\ \A r \in found : cited[r] = {} -> {"uncited"}
                               [] OTHER -> {}
           pack(cited) == [decision |-> Context!Decision(objects),
                           objects |-> objects,
                           evidence |-> UNION {cited[r] : r \in found},
                           cited |-> {r.object : r \in {r \in found : cited[r] # {}}},
                           related |-> {o \in UNION {ObjectLinks[o] : o \in objects} :
                                            Context!CanRead(levels[o])},
                           conflicts |-> Context!Conflicts(objects),
                           missing |-> missing(cited)]
<1>1. /\ answer = Context!NoAnswer /\ ~Context!Examining
      /\ UNCHANGED <<levels, sourceLevel, published, clearance, hits, asked, results, denied>>
  BY DEF Context!Build
<1>2. PICK chunks0 \in [found -> SUBSET ChunkIds], cited \in [found -> SUBSET Context!SourceIds] :
        /\ \A r \in found : cited[r] \in Context!Cited(r, chunks0[r])
        /\ answer' = pack(cited)
  BY DEF Context!Build
<1>3. /\ answer'.decision = Context!Decision(objects) /\ answer'.objects = objects
      /\ answer'.evidence = UNION {cited[r] : r \in found}
      /\ answer'.cited = {r.object : r \in {r \in found : cited[r] # {}}}
      /\ answer'.related \subseteq {o : o \in {o \in UNION {ObjectLinks[o] : o \in objects} :
                                            Context!CanRead(levels[o])}}
      /\ answer'.missing = missing(cited)
  BY <1>2
<1>4. objects = Returned
  BY DEF Returned
<1>5. \A r \in found : /\ \A s \in cited[r] : Context!CanRead(sourceLevel[s])
                       /\ cited[r] = {} => \A s \in SourcesOf[r.object] : ~Context!CanRead(sourceLevel[s])
  BY <1>2, CitedReadable
<1>6. \A r \in found : r.object \in asked \cap published /\ r.object \notin denied /\ Context!Readable(r)
  BY DEF ContextInv
<1>7. Context!PackIsReadable'
  <2>1. \A o \in answer'.objects \cup answer'.related : Context!CanRead(levels[o])
    BY <1>3, <1>6 DEF Context!Readable
  <2>2. \A s \in answer'.evidence : Context!CanRead(sourceLevel[s])
    BY <1>3, <1>5
  <2>3. \A r \in found : r.chunk # NoChunk => Context!CanRead(sourceLevel[ChunkSource[r.chunk]])
    BY <1>6 DEF Context!Readable
  <2>4. answer'.objects \subseteq published
    BY <1>3, <1>6
  <2> QED BY <1>1, <2>1, <2>2, <2>3, <2>4 DEF Context!PackIsReadable, Context!CanRead
<1>8. objects = {} => denied = asked \cap published
  <2> SUFFICES ASSUME objects = {} PROVE denied = asked \cap published
    OBVIOUS
  <2>1. results = <<>>
    <3> SUFFICES ASSUME results # <<>> PROVE FALSE
      OBVIOUS
    <3>1. Head(results) \in found
      BY HitsHeadOff DEF ContextInv
    <3> QED BY <3>1
  <2>2. Len(results) < ResultLimit
    BY <2>1, ContextAssumption
  <2>3. hits = <<>>
    BY <1>1, <2>2 DEF Context!Examining
  <2>4. Context!ToSet(hits) = {}
    BY <2>3 DEF Context!ToSet
  <2> QED BY <1>4, <2>4 DEF ContextInv
<1>9. objects # {} => \E o \in asked \cap published : o \notin denied
  BY <1>6
<1>10. objects \subseteq asked \cap published /\ denied \subseteq asked \cap published
  BY <1>6 DEF ContextInv
<1> HIDE DEF objects, found
<1>11. (answer'.decision = "denied") <=> (asked \cap published # {} /\ asked \cap published = denied)
  BY <1>3, <1>8, <1>9, <1>10 DEF Context!Decision
<1>12. ("unknown" \in answer'.missing) <=> (asked \cap published = {})
  <2>1. ("unknown" \in missing(cited)) <=> (Context!Decision(objects) # "denied" /\ objects = {})
    OBVIOUS
  <2> QED BY <1>3, <1>8, <1>10, <2>1 DEF Context!Decision
<1>13. \A o \in answer'.objects \ answer'.cited : \A s \in SourcesOf[o] : ~Context!CanRead(sourceLevel[s])
  BY <1>3, <1>5 DEF objects
<1>14. Context!MissingIsTrue'
  BY <1>1, <1>11, <1>12, <1>13 DEF Context!MissingIsTrue, Context!CanRead
<1> QED BY <1>1, <1>7, <1>14 DEF ContextInv, Returned, Context!Readable, Context!CanRead

\* The walk over the hits keeps its books, and the pack is built from them.
LEMMA ContextNext ==
  ASSUME ContextInv, Context!Next \/ UNCHANGED contextVars
  PROVE  ContextInv'
<1>1. CASE UNCHANGED contextVars
  BY <1>1 DEF contextVars, ContextInv, Returned, Context!Readable, Context!CanRead,
              Context!PackIsReadable, Context!MissingIsTrue, Context!NoAnswer
<1> QED BY <1>1, ContextLooks, ContextBuilds DEF Context!Next

\* The invariant of the walk.
LEMMA ContextInvariant == Spec => [](On("context") => ContextInv)
<1>1. Init => (On("context") => ContextInv)
  BY ContextInit DEF Init, On
<1>2. (On("context") => ContextInv) /\ [Next]_vars => (On("context") => ContextInv)'
  <2> SUFFICES ASSUME On("context") => ContextInv, [Next]_vars, On("context")'
               PROVE  ContextInv'
    OBVIOUS
  <2>1. ContextInv /\ (Context!Next \/ UNCHANGED contextVars)
    BY OnePart DEF On
  <2> QED BY <2>1, ContextNext
<1> QED BY <1>1, <1>2, PTL DEF Spec

\* For all objects, sources, sensitivities, rankings and clearances: what a pack hands
\* out as objects, evidence, citations and related objects is not above the clearance
\* of its principal.  Of its conflicts this is false.
THEOREM PacksStayReadable == Spec => []PackIsReadable
<1>1. (On("context") => ContextInv) => PackIsReadable
  BY DEF ContextInv, PackIsReadable
<1> QED BY <1>1, ContextInvariant, PTL

\* ... and what it says is missing is true: "denied" and "unknown" are told apart,
\* and an object without a citation has no readable source.
THEOREM PacksTellWhatIsMissing == Spec => []MissingIsTrue
<1>1. (On("context") => ContextInv) => MissingIsTrue
  BY DEF ContextInv, MissingIsTrue
<1> QED BY <1>1, ContextInvariant, PTL

-----------------------------------------------------------------------------
(* The graph view.                                                         *)

\* What a graph shows of the store it was built from.
ViewInv ==
  /\ \E stored \in SUBSET Objects : known \in [Sources \cup stored -> Levels]
  /\ DOMAIN reviewed \subseteq Reviews
  /\ View!GraphIsReadable

\* An identifier that is none of a review item or a brief.
NoReview(id) == id \notin Reviews /\ \A r \in Reviews : AiOf[r] # id

\* An end of an edge that is no review item, or one that is not withheld, or the
\* brief of such a one, is readable, unless it is hidden.
LEMMA ViewEnds ==
  ASSUME ViewInv, NEW reviews \in BOOLEAN, NEW id, id \notin View!Hidden(reviews),
         \/ NoReview(id)
         \/ \E r \in Reviews : /\ r \in DOMAIN reviewed => View!Visible(reviewed[r])
                               /\ id = r \/ (id = AiOf[r] /\ id # NoBrief)
  PROVE  View!Readable(id)
<1>1. id \in DOMAIN known => View!Visible(known[id])
  BY DEF View!Hidden
<1>2. ASSUME NEW q \in DOMAIN reviewed, id = q \/ id = AiOf[q]
      PROVE  View!Visible(reviewed[q])
  <2>1. q \in Reviews
    BY DEF ViewInv
  <2>2. CASE NoReview(id)
    BY <1>2, <2>1, <2>2 DEF NoReview
  <2>3. CASE \E r \in Reviews : /\ r \in DOMAIN reviewed => View!Visible(reviewed[r])
                                /\ id = r \/ (id = AiOf[r] /\ id # NoBrief)
    <3>1. PICK r \in Reviews : /\ r \in DOMAIN reviewed => View!Visible(reviewed[r])
                               /\ id = r \/ (id = AiOf[r] /\ id # NoBrief)
      BY <2>3
    <3>2. r = q
      BY <1>2, <2>1, <3>1, ViewAssumption
    <3> QED BY <3>1, <3>2
  <2> QED BY <2>2, <2>3
<1> QED BY <1>1, <1>2 DEF View!Readable

\* Each edge that is drawn has such ends.
LEMMA ViewDraws ==
  ASSUME ViewInv, NEW reviews \in BOOLEAN, NEW e \in View!Drawn(reviews), NEW id \in {e.source, e.target}
  PROVE  \/ NoReview(id)
         \/ \E r \in Reviews : /\ r \in DOMAIN reviewed => View!Visible(reviewed[r])
                               /\ id = r \/ (id = AiOf[r] /\ id # NoBrief)
<1> DEFINE readable == {r \in View!Included(reviews) : View!Visible(reviewed[r])}
           reviewEdges == UNION {View!ReviewEdges(r) : r \in readable}
           evidenced == {o \in View!StoredObjects : View!Visible(known[o])} \cup {CandidateOf[r] : r \in readable}
<1>1. readable \subseteq Reviews /\ \A r \in readable : View!Visible(reviewed[r])
  BY DEF View!Included, ViewInv
<1>2. evidenced \subseteq Objects
  BY <1>1, ViewAssumption DEF View!StoredObjects
<1>3. e \in View!EvidenceEdges(evidenced) \cup reviewEdges \cup View!LinkEdges
  BY DEF View!Drawn
<1> HIDE DEF readable, evidenced, reviewEdges
<1>4. CASE e \in View!EvidenceEdges(evidenced)
  <2>1. PICK o \in evidenced : \E s \in SourcesOf[o] : e = View!Edge(s, "evidence_for", o)
    BY <1>4 DEF View!EvidenceEdges
  <2>2. PICK s \in SourcesOf[o] : e = View!Edge(s, "evidence_for", o)
    BY <2>1
  <2>3. s \in Sources /\ o \in Objects /\ e.source = s /\ e.target = o
    BY <1>2, <2>1, <2>2, ViewAssumption DEF View!Edge
  <2> QED BY <2>3, ViewAssumption DEF NoReview
<1>5. CASE e \in reviewEdges
  <2>1. PICK r \in readable : e \in View!ReviewEdges(r)
    BY <1>5 DEF reviewEdges
  <2>2. r \in Reviews /\ View!Visible(reviewed[r]) /\ ReviewSource[r] \in Sources /\ CandidateOf[r] \in Objects
    BY <1>1, ViewAssumption
  <2>3. \/ e.source = ReviewSource[r] /\ e.target = r
        \/ e.source = r /\ e.target = CandidateOf[r]
        \/ AiOf[r] # NoBrief /\ e.source = AiOf[r] /\ e.target = r
    BY <2>1 DEF View!ReviewEdges, View!Edge
  <2> QED BY <2>2, <2>3, ViewAssumption DEF NoReview
<1>6. CASE e \in View!LinkEdges
  <2>1. PICK l \in Links : e = View!Edge(l.source, "relates", l.target)
    BY <1>6 DEF View!LinkEdges
  <2>2. e.source = l.source /\ e.target = l.target
    BY <2>1 DEF View!Edge
  <2>3. id \in {l.source, l.target}
    BY <2>2
  <2>4. \A r \in Reviews : {l.source, l.target} \cap {r, AiOf[r]} = {}
    BY ViewAssumption
  <2> QED BY <2>3, <2>4 DEF NoReview
<1> QED BY <1>3, <1>4, <1>5, <1>6

\* The graph of one pass over the store.
LEMMA ViewBuilds ==
  ASSUME ViewInv, View!Build
  PROVE  ViewInv'
<1>1. PICK reviews \in BOOLEAN :
        shown' = [nodes |-> View!Nodes(reviews), edges |-> View!Shown(reviews), built |-> TRUE]
  BY DEF View!Build
<1>2. shown'.nodes = View!Nodes(reviews) /\ shown'.edges = View!Shown(reviews)
  BY <1>1
<1>3. UNCHANGED <<known, reviewed, reading>>
  BY DEF View!Build
<1>4. \A n \in View!Nodes(reviews) : View!Visible(n.level)
  <2> SUFFICES ASSUME NEW n \in View!Nodes(reviews) PROVE View!Visible(n.level)
    OBVIOUS
  <2>1. CASE \E s \in DOMAIN known : View!Visible(known[s]) /\ n = [id |-> s, level |-> known[s]]
    BY <2>1
  <2>2. CASE \E r \in View!Included(reviews) : View!Visible(reviewed[r]) /\ n.level = reviewed[r]
    BY <2>2
  <2>3. \/ \E s \in DOMAIN known : View!Visible(known[s]) /\ n = [id |-> s, level |-> known[s]]
        \/ \E r \in View!Included(reviews) : View!Visible(reviewed[r]) /\ n.level = reviewed[r]
    BY DEF View!Nodes
  <2> QED BY <2>1, <2>2, <2>3
<1>5. \A e \in View!Shown(reviews) : View!Readable(e.source) /\ View!Readable(e.target)
  <2> SUFFICES ASSUME NEW e \in View!Shown(reviews), NEW id \in {e.source, e.target}
               PROVE  View!Readable(id)
    OBVIOUS
  <2>1. e \in View!Drawn(reviews) /\ id \notin View!Hidden(reviews)
    BY DEF View!Shown
  <2> QED BY <2>1, ViewEnds, ViewDraws
<1>6. ASSUME NEW id \in DOMAIN known, View!Visible(known[id])
      PROVE  \E n \in View!Nodes(reviews) : n.id = id
  <2>1. [id |-> id, level |-> known[id]] \in View!Nodes(reviews)
    BY <1>6 DEF View!Nodes
  <2> QED BY <2>1
<1>7. ASSUME NEW l \in Links, l.published, {l.source, l.target} \subseteq View!StoredObjects,
             l.source # l.target, View!Visible(known[l.source]), View!Visible(known[l.target]),
             \A r \in DOMAIN reviewed :
                CandidateOf[r] \in {l.source, l.target} => View!Visible(reviewed[r])
      PROVE  View!Edge(l.source, "relates", l.target) \in View!Shown(reviews)
  <2>1. View!Edge(l.source, "relates", l.target) \in View!Drawn(reviews)
    <3>1. View!Edge(l.source, "relates", l.target) \in View!LinkEdges
      BY <1>7 DEF View!LinkEdges
    <3>2. View!LinkEdges \subseteq View!Drawn(reviews)
      BY DEF View!Drawn
    <3> QED BY <3>1, <3>2
  <2>2. ASSUME NEW id \in {l.source, l.target}
        PROVE  id \notin View!Hidden(reviews)
    <3>1. id \in Objects /\ View!Visible(known[id])
      BY <1>7 DEF View!StoredObjects
    <3>2. ASSUME NEW r \in View!Included(reviews), ~View!Visible(reviewed[r])
          PROVE  id \notin {r, CandidateOf[r]}
      <4>1. r \in DOMAIN reviewed /\ r \in Reviews
        BY <3>2 DEF View!Included, ViewInv
      <4> QED BY <1>7, <3>1, <3>2, <4>1, ViewAssumption
    <3> QED BY <3>1, <3>2 DEF View!Hidden
  <2>3. /\ View!Edge(l.source, "relates", l.target).source = l.source
        /\ View!Edge(l.source, "relates", l.target).target = l.target
    BY DEF View!Edge
  <2> QED BY <2>1, <2>2, <2>3 DEF View!Shown
<1>8. View!GraphIsReadable'
  <2>1. /\ (\A n \in shown.nodes : View!Visible(n.level))'
        /\ (\A e \in shown.edges : View!Readable(e.source) /\ View!Readable(e.target))'
    BY <1>2, <1>3, <1>4, <1>5 DEF View!Visible, View!Readable
  <2>2. (\A id \in DOMAIN known : View!Visible(known[id]) => \E n \in shown.nodes : n.id = id)'
    BY <1>2, <1>3, <1>6 DEF View!Visible
  <2>3. (\A l \in Links :
           /\ l.published /\ {l.source, l.target} \subseteq View!StoredObjects /\ l.source # l.target
           /\ View!Visible(known[l.source]) /\ View!Visible(known[l.target])
           /\ \A r \in DOMAIN reviewed :
                 CandidateOf[r] \in {l.source, l.target} => View!Visible(reviewed[r])
           => View!Edge(l.source, "relates", l.target) \in shown.edges)'
    BY <1>2, <1>3, <1>7 DEF View!Visible, View!StoredObjects, View!Edge
  <2> QED BY <2>1, <2>2, <2>3 DEF View!GraphIsReadable
<1> QED BY <1>3, <1>8 DEF ViewInv

\* For every store, with or without review items: what a view shows may be read,
\* and what may be read is shown.
THEOREM ViewsShowWhatMayBeRead == Spec => []GraphIsReadable
<1>1. Init => (On("view") => ViewInv)
  <2> SUFFICES ASSUME View!Init PROVE ViewInv
    BY DEF Init, On
  <2>1. \E stored \in SUBSET Objects : known \in [Sources \cup stored -> Levels]
    BY DEF View!Init
  <2>2. DOMAIN reviewed \subseteq Reviews
    BY DEF View!Init
  <2>3. View!GraphIsReadable
    BY DEF View!Init, View!NoGraph, View!GraphIsReadable
  <2> QED BY <2>1, <2>2, <2>3 DEF ViewInv
<1>2. (On("view") => ViewInv) /\ [Next]_vars => (On("view") => ViewInv)'
  <2> SUFFICES ASSUME On("view") => ViewInv, [Next]_vars, On("view")'
               PROVE  ViewInv'
    OBVIOUS
  <2>1. ViewInv /\ (View!Next \/ UNCHANGED viewVars)
    BY OnePart DEF On
  <2>2. CASE UNCHANGED viewVars
    BY <2>1, <2>2 DEF viewVars, ViewInv, View!GraphIsReadable, View!Visible, View!Readable,
                      View!StoredObjects, View!Edge
  <2> QED BY <2>1, <2>2, ViewBuilds DEF View!Next
<1>3. (On("view") => ViewInv) => GraphIsReadable
  BY DEF ViewInv, GraphIsReadable
<1> QED BY <1>1, <1>2, <1>3, PTL DEF Spec

-----------------------------------------------------------------------------
(* Staging readiness.                                                      *)

\* Deployments and demands stay, so that the verdict is about them.
GateInv ==
  gate = "ready" => Gate!Ready(deployment, "oidc" \in demands, "graphiti" \in demands)

\* Two sets of identities that are inhabited and differ have two identities, one
\* of each.
LEMMA TwoOfThem ==
  ASSUME NEW S, NEW T, S # {}, T # {}, (S \ T) \cup (T \ S) # {}
  PROVE  \E s \in S, t \in T : s # t
<1>1. CASE \E s \in S : s \notin T
  BY <1>1
<1>2. CASE \E t \in T : t \notin S
  BY <1>2
<1> QED BY <1>1, <1>2

\* The checks that a ready deployment passed.
LEMMA ReadyPassed ==
  ASSUME NEW env, NEW oidcNeeded \in BOOLEAN, NEW graphitiNeeded \in BOOLEAN,
         Gate!Ready(env, oidcNeeded, graphitiNeeded)
  PROVE  /\ Gate!StrongSecret(env.apiToken) /\ Gate!StrongSecret(env.dbPassword)
         /\ env.apiToken # env.dbPassword
         /\ env.tenant # "absent"
         /\ Gate!Separated(env.principals)
         /\ \A p \in env.principals : Gate!StrongSecret(p.token) /\ p.tenant = env.tenant
         /\ oidcNeeded => Gate!OidcComplete(env)
         /\ graphitiNeeded => Gate!GraphitiComplete(env)
<1> DEFINE checks == {Gate!SecretChecks(env), Gate!PlaceholderCheck(env), Gate!ImageChecks(env),
                      Gate!IdentityChecks(env), Gate!StoreChecks(env), Gate!RetrievalChecks(env),
                      Gate!CorsCheck(env), Gate!AssistantChecks(env), Gate!ConnectorChecks(env),
                      Gate!OidcCheck(env, oidcNeeded), Gate!GraphitiCheck(env, graphitiNeeded)}
           strongPair == /\ Gate!StrongSecret(env.apiToken) /\ Gate!StrongSecret(env.dbPassword)
                         /\ env.apiToken # env.dbPassword
           mapped == /\ Gate!Separated(env.principals)
                     /\ \A p \in env.principals : Gate!StrongSecret(p.token)
                     /\ Gate!TenantNamed(env) => \A p \in env.principals : p.tenant = env.tenant
<1>1. ASSUME NEW check \in checks, NEW x \in DOMAIN check
      PROVE  check[x] # "failed"
  <2>1. check[x] \in Gate!Values(check)
    BY DEF Gate!Values
  <2> QED BY <2>1 DEF Gate!Ready, Gate!Statuses
<1>2. /\ Gate!SecretChecks(env) \in checks /\ Gate!IdentityChecks(env) \in checks
      /\ Gate!OidcCheck(env, oidcNeeded) \in checks /\ Gate!GraphitiCheck(env, graphitiNeeded) \in checks
  OBVIOUS
<1> HIDE DEF checks, strongPair, mapped
<1>3. strongPair
  <2>1. /\ "secretSeparation" \in DOMAIN Gate!SecretChecks(env)
        /\ Gate!SecretChecks(env)["secretSeparation"] = Gate!Verdict(strongPair)
    BY DEF Gate!SecretChecks, strongPair
  <2> QED BY <1>1, <1>2, <2>1 DEF Gate!Verdict
<1>4. Gate!TenantNamed(env)
  <2>1. /\ "defaultTenant" \in DOMAIN Gate!IdentityChecks(env)
        /\ Gate!IdentityChecks(env)["defaultTenant"] = Gate!Verdict(Gate!TenantNamed(env))
    BY DEF Gate!IdentityChecks
  <2> QED BY <1>1, <1>2, <2>1 DEF Gate!Verdict
<1>5. mapped
  <2>1. /\ "principalMap" \in DOMAIN Gate!IdentityChecks(env)
        /\ Gate!IdentityChecks(env)["principalMap"] = Gate!PrincipalMapCheck(env)
    BY DEF Gate!IdentityChecks
  <2>2. Gate!PrincipalMapCheck(env) # "failed"
    BY <1>1, <1>2, <2>1
  <2>3. Gate!Separated(env.principals)
    BY <2>2 DEF Gate!PrincipalMapCheck, Gate!Verdict
  <2>4. \A p \in env.principals : Gate!StrongSecret(p.token)
    BY <2>2 DEF Gate!PrincipalMapCheck, Gate!Verdict
  <2>5. Gate!TenantNamed(env) => \A p \in env.principals : p.tenant = env.tenant
    BY <2>2 DEF Gate!PrincipalMapCheck, Gate!Verdict
  <2> QED BY <2>3, <2>4, <2>5 DEF mapped
<1>6. oidcNeeded => Gate!OidcComplete(env)
  <2>1. /\ "oidc" \in DOMAIN Gate!OidcCheck(env, oidcNeeded)
        /\ Gate!OidcCheck(env, oidcNeeded)["oidc"] = Gate!Optional(Gate!OidcComplete(env), oidcNeeded)
    BY DEF Gate!OidcCheck
  <2> QED BY <1>1, <1>2, <2>1 DEF Gate!Optional
<1>7. graphitiNeeded => Gate!GraphitiComplete(env)
  <2>1. /\ "graphiti" \in DOMAIN Gate!GraphitiCheck(env, graphitiNeeded)
        /\ Gate!GraphitiCheck(env, graphitiNeeded)["graphiti"]
             = Gate!Optional(Gate!GraphitiComplete(env), graphitiNeeded)
    BY DEF Gate!GraphitiCheck
  <2> QED BY <1>1, <1>2, <2>1 DEF Gate!Optional
<1> QED BY <1>3, <1>4, <1>5, <1>6, <1>7 DEF strongPair, mapped, Gate!TenantNamed

\* Whatever the settings of a deployment: the gate lets it pass only when two
\* people with strong tokens of its tenant can govern it once it runs, provided
\* every principal names its subject; when the token of the API is not the password
\* of the database; and when what was demanded is configured.
THEOREM ReadyMeansGoverned == Spec => []ReadyIsGoverned
<1>1. Init => (On("gate") => GateInv)
  BY DEF Init, On, Gate!Init, GateInv
<1>2. (On("gate") => GateInv) /\ [Next]_vars => (On("gate") => GateInv)'
  <2> SUFFICES ASSUME On("gate") => GateInv, [Next]_vars, On("gate")'
               PROVE  GateInv'
    OBVIOUS
  <2>1. GateInv /\ (Gate!Next \/ UNCHANGED gateVars)
    BY OnePart DEF On
  <2>2. CASE Gate!Validate
    BY <2>2 DEF Gate!Validate, GateInv
  <2>3. CASE Gate!Probe
    BY <2>1, <2>3 DEF Gate!Probe, GateInv
  <2>4. CASE UNCHANGED gateVars
    BY <2>1, <2>4 DEF gateVars, GateInv
  <2> QED BY <2>1, <2>2, <2>3, <2>4 DEF Gate!Next
<1>3. (On("gate") => GateInv) => ReadyIsGoverned
  <2> SUFFICES ASSUME GateInv, gate = "ready" PROVE Gate!ReadyIsGoverned
    BY DEF ReadyIsGoverned, Gate!ReadyIsGoverned
  <2> DEFINE reviewers == Gate!Subjects(deployment.principals, "reviewer")
             publishers == Gate!Subjects(deployment.principals, "publisher")
             oidcNeeded == "oidc" \in demands
             graphitiNeeded == "graphiti" \in demands
  <2>1. /\ Gate!Ready(deployment, oidcNeeded, graphitiNeeded)
        /\ oidcNeeded \in BOOLEAN /\ graphitiNeeded \in BOOLEAN
    BY DEF GateInv
  <2> HIDE DEF oidcNeeded, graphitiNeeded
  <2>2. /\ deployment.apiToken # deployment.dbPassword
        /\ deployment.tenant # "absent"
        /\ Gate!Separated(deployment.principals)
        /\ \A p \in deployment.principals :
             Gate!StrongSecret(p.token) /\ p.tenant = deployment.tenant
        /\ oidcNeeded => Gate!OidcComplete(deployment)
        /\ graphitiNeeded => Gate!GraphitiComplete(deployment)
    BY <2>1, ReadyPassed
  <2>3. ASSUME \A p \in deployment.principals : p.subject # NoSubject
        PROVE  Gate!TwoCanGovern(deployment, Gate!Configured(deployment))
    <3>1. PICK s \in reviewers, t \in publishers : s # t
      <4>1. reviewers # {} /\ publishers # {}
            /\ (reviewers \ publishers) \cup (publishers \ reviewers) # {}
        BY <2>2 DEF Gate!Separated
      <4> HIDE DEF reviewers, publishers
      <4> QED BY <4>1, TwoOfThem
    <3>2. PICK r \in deployment.principals :
            {"reviewer", "governance_admin"} \cap r.roles # {} /\ r.subject = s
      BY DEF Gate!Subjects
    <3>3. PICK p \in deployment.principals :
            {"publisher", "governance_admin"} \cap p.roles # {} /\ p.subject = t
      BY DEF Gate!Subjects
    <3>4. r \in Gate!Configured(deployment) /\ p \in Gate!Configured(deployment)
      BY <2>2, <2>3, <3>2, <3>3 DEF Gate!Configured
    <3> QED BY <2>2, <3>1, <3>2, <3>3, <3>4 DEF Gate!TwoCanGovern, Gate!StrongSecret
  <2> QED BY <2>2, <2>3 DEF Gate!ReadyIsGoverned, oidcNeeded, graphitiNeeded
<1> QED BY <1>1, <1>2, <1>3, PTL DEF Spec

=============================================================================
