----------------------------- MODULE TextProofs -----------------------------
(***************************************************************************)
(* Proofs about the two modules that are about texts.  FuelPrice: for any  *)
(* prices from 1.00 to 99.99 and any colours, what the administrator typed *)
(* in survives every round trip.  CookieParse: how the text that           *)
(* ParseCookie writes differs from its buffer's size, for any header; and  *)
(* that for one of any number of plain cookies it is their JSON object,    *)
(* as long as the buffer.                                                  *)
(***************************************************************************)
EXTENDS FuelPrice, CookieParse, FiniteSetTheorems, SequenceTheorems, TLAPS


-----------------------------------------------------------------------------
(* The conversions.                                                        *)

\* The powers that the float format needs.
LEMMA Powers ==
  /\ 2^0 = 1 /\ 2^1 = 2 /\ 2^2 = 4 /\ 2^3 = 8 /\ 2^4 = 16 /\ 2^5 = 32 /\ 2^6 = 64 /\ 2^7 = 128
  /\ 2^11 = 2048 /\ 2^12 = 4096 /\ 2^13 = 8192 /\ 2^14 = 16384
  /\ 2^15 = 32768 /\ 2^16 = 65536 /\ 2^17 = 131072 /\ 2^18 = 262144
  /\ 2^19 = 524288 /\ 2^20 = 1048576 /\ 2^21 = 2097152 /\ 2^22 = 4194304
  /\ 2^23 = 8388608
  OBVIOUS

\* The prices whose float has exponent k are those from Low(k) up to High(k).
Low(k)  == 2^(23 - k) * 100
High(k) == 2^(24 - k) * 100

LEMMA Bounds ==
  /\ Low(23) = 100  /\ Low(22) = 200  /\ Low(21) = 400   /\ Low(20) = 800
  /\ Low(19) = 1600 /\ Low(18) = 3200 /\ Low(17) = 6400
  /\ High(23) = 200  /\ High(22) = 400  /\ High(21) = 800   /\ High(20) = 1600
  /\ High(19) = 3200 /\ High(18) = 6400 /\ High(17) = 12800
  BY Powers DEF Low, High

\* So the exponent of a price's float is determined.
LEMMA Exponent ==
  ASSUME NEW p \in Nat, NEW k \in 17 .. 23, Low(k) <= p, p < High(k)
  PROVE  FloatOf(p) = [n |-> Nearest(p * 2^k, 100), k |-> k]
<1>1. ASSUME NEW h \in 17 .. 23, Low(h) <= p, p < High(h) PROVE h = k
  <2>1. k = 17 \/ k = 18 \/ k = 19 \/ k = 20 \/ k = 21 \/ k = 22 \/ k = 23  OBVIOUS
  <2>2. h = 17 \/ h = 18 \/ h = 19 \/ h = 20 \/ h = 21 \/ h = 22 \/ h = 23  OBVIOUS
  <2> QED  BY <1>1, <2>1, <2>2, Bounds
<1> DEFINE c == CHOOSE h \in 17 .. 23 : Low(h) <= p /\ p < High(h)
<1>2. c = k  BY <1>1
<1>3. FloatOf(p) = [n |-> Nearest(p * 2^c, 100), k |-> c]  BY Zenon DEF FloatOf, Low, High
<1> HIDE DEF c
<1> QED  BY <1>2, <1>3, Zenon

\* Nearest is off by half of the divisor at most.
LEMMA NearestBound ==
  ASSUME NEW a \in Nat, NEW b \in Nat, b > 0
  PROVE  /\ Nearest(a, b) \in Nat
         /\ 2 * a <= 2 * (b * Nearest(a, b)) + b
         /\ 2 * (b * Nearest(a, b)) <= 2 * a + b
<1> DEFINE q == a \div b
           r == a % b
<1>1. q \in Nat /\ r \in Nat /\ r < b /\ a = b * q + r  OBVIOUS
<1>2. b * (q + 1) = b * q + b  BY <1>1
<1>3. b * q \in Nat  BY <1>1
<1>4. Nearest(a, b) = q \/ Nearest(a, b) = q + 1  BY DEF Nearest
<1>5. Nearest(a, b) = q + 1 => 2 * r >= b
  BY <1>1 DEF Nearest
<1>6. Nearest(a, b) = q => 2 * r <= b
  BY <1>1 DEF Nearest
<1> DEFINE x == b * q
           y == b * Nearest(a, b)
<1>7. y = x \/ y = x + b  BY <1>2, <1>4
<1>8. y = x + b /\ y # x => 2 * r >= b  BY <1>4, <1>5
<1>9. y = x /\ y # x + b => 2 * r <= b  BY <1>2, <1>4, <1>6
<1>10. Nearest(a, b) \in Nat  BY <1>1, <1>4
<1>11. 2 * a <= 2 * y + b /\ 2 * y <= 2 * a + b
  <2> HIDE DEF q, r, x, y
  <2> QED  BY <1>1, <1>3, <1>7, <1>8, <1>9 DEF x
<1> QED  BY <1>10, <1>11

\* Two decimals of a price's float are the price; six of them, cut down to two,
\* are the price or a hundredth less.
LEMMA AtExponent ==
  ASSUME NEW p \in Nat, NEW k \in 17 .. 23, Low(k) <= p, p < High(k)
  PROVE  /\ floatToString(FloatOf(p)) = p
         /\ ShownPrice(FloatOf(p)) \in {p - 1, p}
         /\ k > 19 => ShownPrice(FloatOf(p)) = p
<1> DEFINE e == 2^k
           h == 2^(k - 2)
           m == 2^(k - 6)
           f == Nearest(p * e, 100)
           s == Nearest(f * 25, h)
           t == (f \div m) * 15625 + Nearest((f % m) * 15625, m)
<1>1. \/ k = 23 /\ e = 8388608 /\ h = 2097152 /\ m = 131072 /\ 100 <= p /\ p < 200
      \/ k = 22 /\ e = 4194304 /\ h = 1048576 /\ m = 65536 /\ 200 <= p /\ p < 400
      \/ k = 21 /\ e = 2097152 /\ h = 524288 /\ m = 32768 /\ 400 <= p /\ p < 800
      \/ k = 20 /\ e = 1048576 /\ h = 262144 /\ m = 16384 /\ 800 <= p /\ p < 1600
      \/ k = 19 /\ e = 524288 /\ h = 131072 /\ m = 8192 /\ 1600 <= p /\ p < 3200
      \/ k = 18 /\ e = 262144 /\ h = 65536 /\ m = 4096 /\ 3200 <= p /\ p < 6400
      \/ k = 17 /\ e = 131072 /\ h = 32768 /\ m = 2048 /\ 6400 <= p /\ p < 12800
  <2>1. k = 17 \/ k = 18 \/ k = 19 \/ k = 20 \/ k = 21 \/ k = 22 \/ k = 23  OBVIOUS
  <2>2. k = 23 => e = 8388608 /\ h = 2097152 /\ m = 131072  BY Powers
  <2>3. k = 22 => e = 4194304 /\ h = 1048576 /\ m = 65536  BY Powers
  <2>4. k = 21 => e = 2097152 /\ h = 524288 /\ m = 32768  BY Powers
  <2>5. k = 20 => e = 1048576 /\ h = 262144 /\ m = 16384  BY Powers
  <2>6. k = 19 => e = 524288 /\ h = 131072 /\ m = 8192  BY Powers
  <2>7. k = 18 => e = 262144 /\ h = 65536 /\ m = 4096  BY Powers
  <2>8. k = 17 => e = 131072 /\ h = 32768 /\ m = 2048  BY Powers
  <2> HIDE DEF e, h, m
  <2> QED  BY <2>1, <2>2, <2>3, <2>4, <2>5, <2>6, <2>7, <2>8, Bounds
<1>2. FloatOf(p) = [n |-> f, k |-> k]
  <2>1. FloatOf(p) = [n |-> Nearest(p * 2^k, 100), k |-> k]  BY Exponent
  <2> QED  BY <2>1
<1>3. floatToString(FloatOf(p)) = s /\ ShownPrice(FloatOf(p)) = t \div 10000
  BY <1>2 DEF floatToString, ShownPrice, to_string
<1> HIDE DEF e, h, m
<1>4. e \in Nat /\ h \in Nat /\ m \in Nat /\ h > 0 /\ m > 0  BY <1>1
<1>5. f \in Nat /\ 2 * (p * e) <= 200 * f + 100 /\ 200 * f <= 2 * (p * e) + 100
  <2> DEFINE a == p * e
  <2>1. a \in Nat  BY <1>4
  <2> HIDE DEF a
  <2>2. Nearest(a, 100) = f  BY DEF a
  <2> HIDE DEF f
  <2>3. f \in Nat /\ 2 * a <= 2 * (100 * f) + 100 /\ 2 * (100 * f) <= 2 * a + 100
    BY <2>1, <2>2, NearestBound
  <2>4. 2 * a <= 200 * f + 100 /\ 200 * f <= 2 * a + 100  BY <2>1, <2>3
  <2> QED  BY <2>3, <2>4 DEF a
<1>6. s \in Nat /\ 50 * f <= 2 * (h * s) + h /\ 2 * (h * s) <= 50 * f + h
  <2> HIDE DEF f
  <2> DEFINE a == f * 25
             x == h * s
  <2>1. a \in Nat /\ 2 * a = 50 * f  BY <1>5
  <2> HIDE DEF a
  <2>2. s = Nearest(a, h)  BY DEF a
  <2> HIDE DEF s
  <2>3. s \in Nat /\ 2 * a <= 2 * x + h /\ 2 * x <= 2 * a + h
    BY <1>4, <2>1, <2>2, NearestBound
  <2> QED  BY <2>1, <2>3
<1> DEFINE q == f \div m
           r == f % m
           d == Nearest(r * 15625, m)
<1>7. q \in Nat /\ r \in Nat /\ f = m * q + r
  <2> HIDE DEF f
  <2> QED  BY <1>4, <1>5
<1>8. d \in Nat /\ 31250 * r <= 2 * (m * d) + m /\ 2 * (m * d) <= 31250 * r + m
  <2> DEFINE a == r * 15625
             x == m * d
  <2>1. a \in Nat /\ 2 * a = 31250 * r  BY <1>7
  <2> HIDE DEF a
  <2>2. d = Nearest(a, m)  BY DEF a
  <2> HIDE DEF d
  <2>3. d \in Nat /\ 2 * a <= 2 * x + m /\ 2 * x <= 2 * a + m
    BY <1>4, <2>1, <2>2, NearestBound
  <2> QED  BY <2>1, <2>3
<1>9. t = q * 15625 + d  OBVIOUS
<1> HIDE DEF f, s, t, q, r, d
<1> USE <1>5, <1>6, <1>7, <1>8, <1>9
<1>10. s = p
  <2>1. CASE k = 23  BY <1>1, <2>1
  <2>2. CASE k = 22  BY <1>1, <2>2
  <2>3. CASE k = 21  BY <1>1, <2>3
  <2>4. CASE k = 20  BY <1>1, <2>4
  <2>5. CASE k = 19  BY <1>1, <2>5
  <2>6. CASE k = 18  BY <1>1, <2>6
  <2>7. CASE k = 17  BY <1>1, <2>7
  <2> QED  BY <1>1, <2>1, <2>2, <2>3, <2>4, <2>5, <2>6, <2>7
<1>11. t \in Nat /\ 10000 * p - 4 <= t /\ t <= 10000 * p + 4 /\ (k > 19 => t = 10000 * p)
  <2>1. CASE k = 23  BY <1>1, <2>1
  <2>2. CASE k = 22  BY <1>1, <2>2
  <2>3. CASE k = 21  BY <1>1, <2>3
  <2>4. CASE k = 20  BY <1>1, <2>4
  <2>5. CASE k = 19  BY <1>1, <2>5
  <2>6. CASE k = 18  BY <1>1, <2>6
  <2>7. CASE k = 17  BY <1>1, <2>7
  <2> QED  BY <1>1, <2>1, <2>2, <2>3, <2>4, <2>5, <2>6, <2>7
<1>12. t \div 10000 \in {p - 1, p} /\ (k > 19 => t \div 10000 = p)  BY <1>11
<1> QED  BY <1>3, <1>10, <1>12

\* So it is for every price, and exactly the price below 16.00, where the float
\* is nearer to it than half of the last of six decimals.
LEMMA RoundTrip ==
  ASSUME NEW p \in Nat, 100 <= p, p < 10000
  PROVE  /\ floatToString(FloatOf(p)) = p
         /\ ShownPrice(FloatOf(p)) \in {p - 1, p}
         /\ p < 1600 => ShownPrice(FloatOf(p)) = p
<1>1. CASE p < 200
  <2>1. Low(23) <= p /\ p < High(23)  BY <1>1, Bounds
  <2> QED  BY <1>1, <2>1, AtExponent
<1>2. CASE 200 <= p /\ p < 400
  <2>1. Low(22) <= p /\ p < High(22)  BY <1>2, Bounds
  <2> QED  BY <1>2, <2>1, AtExponent
<1>3. CASE 400 <= p /\ p < 800
  <2>1. Low(21) <= p /\ p < High(21)  BY <1>3, Bounds
  <2> QED  BY <1>3, <2>1, AtExponent
<1>4. CASE 800 <= p /\ p < 1600
  <2>1. Low(20) <= p /\ p < High(20)  BY <1>4, Bounds
  <2> QED  BY <1>4, <2>1, AtExponent
<1>5. CASE 1600 <= p /\ p < 3200
  <2>1. Low(19) <= p /\ p < High(19)  BY <1>5, Bounds
  <2> QED  BY <1>5, <2>1, AtExponent
<1>6. CASE 3200 <= p /\ p < 6400
  <2>1. Low(18) <= p /\ p < High(18)  BY <1>6, Bounds
  <2> QED  BY <1>6, <2>1, AtExponent
<1>7. CASE 6400 <= p
  <2>1. Low(17) <= p /\ p < High(17)  BY <1>7, Bounds
  <2> QED  BY <1>7, <2>1, AtExponent
<1> QED  BY <1>1, <1>2, <1>3, <1>4, <1>5, <1>6, <1>7

\* Three bytes that were put into one number come out again.
LEMMA ColorKept ==
  ASSUME NEW c, \A k \in 1 .. 3 : c[k] \in Int
  PROVE  /\ ColorOf(get_rgb(c)) = Bytes(c)
         /\ \A k \in 1 .. 3 : Bytes(c)[k] \in Int
         /\ Bytes(Bytes(c)) = Bytes(c)
<1> DEFINE r == c[1] % 256
           g == c[2] % 256
           b == c[3] % 256
<1>1. c[1] \in Int /\ c[2] \in Int /\ c[3] \in Int  OBVIOUS
<1>2. r \in 0 .. 255 /\ g \in 0 .. 255 /\ b \in 0 .. 255  BY <1>1
<1>3. get_rgb(c) = r * 65536 + g * 256 + b  BY DEF get_rgb, Byte
<1>4. Bytes(c) = <<r, g, b>>  BY DEF Bytes, Byte
<1> HIDE DEF r, g, b
<1>5. ColorOf(get_rgb(c)) = <<r, g, b>>  BY <1>2, <1>3 DEF ColorOf
<1>6. Bytes(<<r, g, b>>) = <<r, g, b>>  BY <1>2 DEF Bytes, Byte
<1> QED  BY <1>2, <1>4, <1>5, <1>6

-----------------------------------------------------------------------------
(* IInv is inductive.                                                      *)

\* What is typed in satisfies the invariant.
LEMMA InitIInv == Init => IInv
<1> SUFFICES ASSUME Init PROVE IInv
  OBVIOUS
<1>1. PICK p \in Prices, c \in Colors :
        /\ typed = [price |-> p, color |-> c]
        /\ form = [price |-> FloatOf(p), color |-> c]
  BY DEF Init
<1>2. typed.price = p /\ typed.color = c /\ form.price = FloatOf(p) /\ form.color = c
  BY <1>1
<1>3. KeptAsTyped /\ ShownOneLessAtMost  BY DEF Init, KeptAsTyped, ShownOneLessAtMost
<1> QED  BY <1>2, <1>3, PricesAssumption, ColorsAssumption DEF IInv

\* Every step, stuttering included.
LEMMA NextIInv == IInv /\ [Next]_vars => IInv'
<1> SUFFICES ASSUME IInv, [Next]_vars PROVE IInv'
  OBVIOUS
<1>1. typed.price \in Nat /\ 100 <= typed.price /\ typed.price < 10000
  BY PricesAssumption DEF IInv
<1>2. \A k \in 1 .. 3 : typed.color[k] \in Int /\ form.color[k] \in Int
  BY ColorsAssumption DEF IInv
<1>3. CASE Save
  <2>1. tovar'.price = typed.price
    <3>1. tovar'.price = floatToString(FloatOf(typed.price))  BY <1>3 DEF Save, IInv
    <3> QED  BY <1>1, <3>1, RoundTrip
  <2>2. ColorOf(tovar'.color) = Bytes(typed.color)
    BY <1>2, <1>3, ColorKept DEF Save, IInv
  <2>3. KeptAsTyped'  BY <1>3, <2>1, <2>2 DEF Save, KeptAsTyped
  <2> QED  BY <1>3, <2>3 DEF Save, IInv, ShownOneLessAtMost
<1>4. CASE Get
  <2>1. tovar.price = typed.price /\ ColorOf(tovar.color) = Bytes(typed.color)
    BY <1>4 DEF Get, IInv, KeptAsTyped
  <2>2. form' = [price |-> FloatOf(typed.price), color |-> Bytes(typed.color)]
    BY <1>4, <2>1 DEF Get
  <2>3. Bytes(form'.color) = Bytes(typed.color) /\ \A k \in 1 .. 3 : form'.color[k] \in Int
    BY <1>2, <2>2, ColorKept
  <2> QED  BY <1>4, <2>2, <2>3 DEF Get, IInv, KeptAsTyped, ShownOneLessAtMost
<1>5. CASE Show
  <2>1. tovar.price = typed.price  BY <1>5 DEF Show, IInv, KeptAsTyped
  <2>2. shown' = ShownPrice(FloatOf(typed.price)) /\ UNCHANGED typed
    BY <1>5, <2>1 DEF Show
  <2>3. /\ shown' \in {typed.price - 1, typed.price}
        /\ typed.price < 1600 => shown' = typed.price
    BY <1>1, <2>2, RoundTrip
  <2>4. ShownOneLessAtMost'  BY <2>2, <2>3 DEF ShownOneLessAtMost
  <2> QED  BY <1>5, <2>4 DEF Show, IInv, KeptAsTyped
<1>6. CASE UNCHANGED vars
  BY <1>6 DEF vars, IInv, KeptAsTyped, ShownOneLessAtMost
<1> QED  BY <1>3, <1>4, <1>5, <1>6 DEF Next

\* However often the settings page is loaded and saved again, the table keeps
\* every price from 1.00 to 99.99 and the bytes of every colour.
THEOREM PriceKept == Spec => []KeptAsTyped
<1>1. IInv => KeptAsTyped  BY DEF IInv
<1> QED  BY <1>1, InitIInv, NextIInv, PTL DEF Spec

\* The pump page never shows more than a hundredth less than the price, and
\* exactly the price below 16.00.
THEOREM PriceShown == Spec => []ShownOneLessAtMost
<1>1. IInv => ShownOneLessAtMost  BY DEF IInv
<1> QED  BY <1>1, InitIInv, NextIInv, PTL DEF Spec

-----------------------------------------------------------------------------
(* ParseCookie.  Both loops are followed by the place in the header: which  *)
(* cookie, and which character of it.  The header is a concatenation over   *)
(* the cookies, so the lemmas before the loops say where each cookie, name  *)
(* and value stands in it, and what the JSON text before it is.             *)

\* A set of numbers that has 0, and with each number the next, has every number.
LEMMA Induction ==
  ASSUME NEW S \in SUBSET Nat, 0 \in S, \A m \in S : m + 1 \in S
  PROVE  S = Nat
<1> SUFFICES ASSUME S # Nat PROVE FALSE  OBVIOUS
<1> DEFINE T == Nat \ S
           Below(m) == 0 .. m - 1
           All == {Below(m) : m \in T}
<1>1. All \subseteq FiniteSubsetsOf(Nat) /\ All # {}
  <2>1. \A m \in Nat : Below(m) \in SUBSET Nat /\ IsFiniteSet(Below(m))  BY FS_Interval
  <2>2. T # {} /\ T \subseteq Nat  OBVIOUS
  <2> HIDE DEF Below, T
  <2>3. \A m \in T : Below(m) \in FiniteSubsetsOf(Nat)  BY <2>1, <2>2 DEF FiniteSubsetsOf
  <2> QED  BY <2>2, <2>3
<1>2. PICK B \in All : \A U \in All : <<U, B>> \notin StrictSubsetOrdering(Nat)
  <2> HIDE DEF All
  <2> QED  BY <1>1, FS_StrictSubsetOrderingWellFounded, WFMin
<1>3. PICK m \in T : B = Below(m)  OBVIOUS
<1>4. m \in Nat /\ m # 0 /\ m - 1 \in T
  <2>1. m \in Nat /\ m \notin S /\ m # 0  OBVIOUS
  <2>2. m - 1 \in Nat /\ (m - 1) + 1 = m  BY <2>1
  <2> QED  BY <2>1, <2>2
<1>5. <<Below(m - 1), Below(m)>> \in StrictSubsetOrdering(Nat)
  <2>1. Below(m - 1) \subseteq Below(m) /\ m - 1 \in Below(m) /\ m - 1 \notin Below(m - 1)
    BY <1>4
  <2>2. Below(m - 1) \subseteq Nat /\ Below(m) \subseteq Nat  BY <1>4
  <2> HIDE DEF Below
  <2> QED  BY <2>1, <2>2 DEF StrictSubsetOrdering
<1> QED  BY <1>2, <1>3, <1>4, <1>5

\* FlattenSeq is what its recursive function says: it adds the strings one by one.
LEMMA FlattenParts ==
  ASSUME NEW C, NEW s \in Seq(Seq(C)), s # <<>>
  PROVE  \E P \in [1 .. Len(s) -> Seq(C)] :
           /\ P[1] = s[1]
           /\ \A k \in 2 .. Len(s) : P[k] = P[k - 1] \o s[k]
           /\ P[Len(s)] = FlattenSeq(s)
<1> DEFINE n == Len(s)
           Rec(f) == [k \in 1 .. n |-> IF k = 1 THEN s[k] ELSE f[k - 1] \o s[k]]
           Parts(m, f) == /\ f \in [1 .. m -> Seq(C)] /\ f[1] = s[1]
                          /\ \A k \in 2 .. m : f[k] = f[k - 1] \o s[k]
<1>1. n \in Nat /\ n > 0 /\ \A k \in 1 .. n : s[k] \in Seq(C)  OBVIOUS
<1>2. \E f : Parts(n, f)
  <2> DEFINE S == {m \in Nat : m + 1 <= n => \E f : Parts(m + 1, f)}
  <2>1. 0 \in S
    <3>1. Parts(1, [k \in 1 .. 1 |-> s[1]])  BY <1>1
    <3>2. 0 + 1 = 1  OBVIOUS
    <3> HIDE DEF Parts
    <3> QED  BY <3>1, <3>2
  <2>2. ASSUME NEW m \in S PROVE m + 1 \in S
    <3>0. m \in Nat /\ (m + 1) + 1 = m + 2 /\ (m + 1 <= n => \E f : Parts(m + 1, f))
      <4> HIDE DEF Parts
      <4> QED  OBVIOUS
    <3>1. CASE m + 2 <= n
      <4>1. m + 1 \in 1 .. n /\ m + 2 \in 1 .. n /\ m + 1 <= n  BY <3>0, <3>1, <1>1
      <4>2. PICK f : Parts(m + 1, f)
        <5> HIDE DEF Parts
        <5> QED  BY <3>0, <4>1
      <4> DEFINE g == [k \in 1 .. m + 2 |-> IF k <= m + 1 THEN f[k] ELSE f[m + 1] \o s[k]]
      <4>3. f[m + 1] \o s[m + 2] \in Seq(C)
        <5>1. f[m + 1] \in Seq(C) /\ s[m + 2] \in Seq(C)  BY <1>1, <3>0, <4>1, <4>2
        <5> QED  BY <5>1
      <4>4. g \in [1 .. m + 2 -> Seq(C)]
        <5>1. ASSUME NEW k \in 1 .. m + 2 PROVE g[k] \in Seq(C)
          <6>1. CASE k <= m + 1  BY <3>0, <4>1, <4>2, <6>1
          <6>2. CASE k = m + 2  BY <3>0, <4>1, <4>3, <6>2
          <6> QED  BY <3>0, <6>1, <6>2
        <5> QED  BY <5>1
      <4>5. g[1] = s[1]  BY <3>0, <4>2
      <4>6. \A k \in 2 .. m + 2 : g[k] = g[k - 1] \o s[k]
        <5> SUFFICES ASSUME NEW k \in 2 .. m + 2 PROVE g[k] = g[k - 1] \o s[k]  OBVIOUS
        <5>1. g[k - 1] = f[k - 1]  BY <3>0
        <5>2. CASE k <= m + 1
          <6>1. k \in 2 .. m + 1 /\ g[k] = f[k]  BY <3>0, <5>2
          <6>2. f[k] = f[k - 1] \o s[k]  BY <4>2, <6>1
          <6> QED  BY <5>1, <6>1, <6>2
        <5>3. CASE k = m + 2
          <6>1. k - 1 = m + 1 /\ ~(k <= m + 1)  BY <3>0, <5>3
          <6>2. k \in 1 .. m + 2  BY <3>0
          <6>3. g[k] = f[m + 1] \o s[k]  BY <6>1, <6>2
          <6> QED  BY <5>1, <6>1, <6>3
        <5>4. k <= m + 1 \/ k = m + 2  BY <3>0
        <5> HIDE DEF g
        <5> QED  BY <5>2, <5>3, <5>4
      <4>7. Parts(m + 2, g)  BY <4>4, <4>5, <4>6
      <4> HIDE DEF Parts, g
      <4> QED  BY <3>0, <4>7
    <3>2. CASE ~(m + 2 <= n)
      <4> HIDE DEF Parts
      <4> QED  BY <3>0, <3>2
    <3> QED  BY <3>1, <3>2
  <2>3. S \in SUBSET Nat  OBVIOUS
  <2> HIDE DEF S
  <2>4. S = Nat  BY <2>1, <2>2, <2>3, Induction
  <2>5. n - 1 \in S /\ (n - 1) + 1 = n  BY <1>1, <2>4
  <2> HIDE DEF Parts, n
  <2> QED  BY <2>5, <1>1 DEF S
<1>3. PICK P : Parts(n, P)  BY <1>2
<1>4. P = Rec(P)
  <2>1. \A k \in 1 .. n : P[k] = Rec(P)[k]
    <3> SUFFICES ASSUME NEW k \in 1 .. n PROVE P[k] = Rec(P)[k]  OBVIOUS
    <3>1. CASE k = 1  BY <1>3, <3>1
    <3>2. CASE k \in 2 .. n  BY <1>3, <3>2
    <3> QED  BY <1>1, <3>1, <3>2
  <2>2. P = [k \in 1 .. n |-> P[k]]  BY <1>3
  <2> QED  BY <2>1, <2>2
<1> DEFINE F == CHOOSE f : f = Rec(f)
<1>5. F = Rec(F)  BY <1>4
<1>6. \A k \in 1 .. n : F[k] = P[k]
  <2> DEFINE S == {m \in Nat : m + 1 <= n => F[m + 1] = P[m + 1]}
  <2> HIDE DEF F
  <2>1. 0 \in S
    <3>1. 0 + 1 = 1 /\ F[1] = s[1] /\ P[1] = s[1]  BY <1>1, <1>3, <1>5
    <3> QED  BY <3>1
  <2>2. ASSUME NEW m \in S PROVE m + 1 \in S
    <3>1. CASE m + 2 <= n
      <4>1. m \in Nat /\ m + 2 \in 2 .. n /\ (m + 2) - 1 = m + 1 /\ (m + 1) + 1 = m + 2  BY <3>1, <1>1
      <4>2. F[m + 1] = P[m + 1]  BY <3>1, <4>1
      <4>3. P[m + 2] = P[m + 1] \o s[m + 2]
        <5> HIDE DEF n
        <5> QED  BY <1>3, <4>1
      <4>4. F[m + 2] = F[m + 1] \o s[m + 2]
        <5>1. m + 2 \in 1 .. n /\ m + 2 # 1  BY <4>1
        <5>2. Rec(F)[m + 2] = F[(m + 2) - 1] \o s[m + 2]
          <6> HIDE DEF n
          <6> QED  BY <5>1
        <5> HIDE DEF Rec
        <5> QED  BY <5>2, <4>1, <1>5
      <4>5. F[m + 2] = P[m + 2]  BY <4>2, <4>3, <4>4
      <4> QED  BY <4>1, <4>5
    <3>2. CASE ~(m + 2 <= n)  BY <3>2, <1>1
    <3> QED  BY <3>1, <3>2
  <2>3. S \in SUBSET Nat  OBVIOUS
  <2> HIDE DEF S
  <2>4. S = Nat  BY <2>1, <2>2, <2>3, Induction
  <2> SUFFICES ASSUME NEW k \in 1 .. n PROVE F[k] = P[k]  OBVIOUS
  <2>5. k - 1 \in S /\ (k - 1) + 1 = k  BY <1>1, <2>4
  <2> QED  BY <2>5, <1>1 DEF S
<1>7. FlattenSeq(s) = F[n]
  BY <1>1 DEF FlattenSeq
<1> HIDE DEF F
<1>8. P[n] = FlattenSeq(s)  BY <1>1, <1>6, <1>7
<1> QED  BY <1>3, <1>8

\* Two sequences of which the second has one element more.
LEMMA FlattenAppend ==
  ASSUME NEW C, NEW s \in Seq(Seq(C)), NEW x \in Seq(C)
  PROVE  /\ FlattenSeq(<<>>) = <<>>
         /\ FlattenSeq(s) \in Seq(C)
         /\ FlattenSeq(Append(s, x)) = FlattenSeq(s) \o x
<1> DEFINE t == Append(s, x)
           n == Len(s)
<1>1. FlattenSeq(<<>>) = <<>>  BY DEF FlattenSeq
<1>2. t \in Seq(Seq(C)) /\ t # <<>> /\ Len(t) = n + 1 /\ n \in Nat /\ t[n + 1] = x
  <2>1. t \in Seq(Seq(C)) /\ Len(t) = n + 1 /\ n \in Nat /\ t[n + 1] = x  OBVIOUS
  <2> HIDE DEF t
  <2> QED  BY <2>1
<1>3. \A k \in 1 .. n : t[k] = s[k]  OBVIOUS
<1> HIDE DEF t
<1>4. PICK Q \in [1 .. Len(t) -> Seq(C)] :
        /\ Q[1] = t[1]
        /\ \A k \in 2 .. Len(t) : Q[k] = Q[k - 1] \o t[k]
        /\ Q[Len(t)] = FlattenSeq(t)
  BY <1>2, FlattenParts
<1>5. CASE s = <<>>
  <2>1. n = 0 /\ FlattenSeq(s) = <<>>  BY <1>1, <1>5
  <2>2. FlattenSeq(t) = x  BY <1>2, <1>4, <2>1
  <2> QED  BY <1>1, <2>1, <2>2 DEF t
<1>6. CASE s # <<>>
  <2>1. n > 0  BY <1>6
  <2>2. PICK P \in [1 .. n -> Seq(C)] :
          /\ P[1] = s[1]
          /\ \A k \in 2 .. n : P[k] = P[k - 1] \o s[k]
          /\ P[n] = FlattenSeq(s)
    BY <1>6, FlattenParts
  <2> DEFINE S == {m \in Nat : m + 1 <= n => Q[m + 1] = P[m + 1]}
  <2> HIDE DEF n
  <2>3. 0 \in S
    <3>1. 0 + 1 = 1 /\ Q[1] = P[1]  BY <1>2, <1>3, <1>4, <2>1, <2>2
    <3> QED  BY <3>1
  <2>4. ASSUME NEW m \in S PROVE m + 1 \in S
    <3>0. m \in Nat /\ (m + 1) + 1 = m + 2 /\ (m + 2) - 1 = m + 1  OBVIOUS
    <3>1. CASE m + 2 <= n
      <4>1. m + 2 \in 2 .. n /\ m + 2 \in 2 .. Len(t) /\ m + 2 \in 1 .. n  BY <1>2, <3>0, <3>1
      <4>2. Q[m + 1] = P[m + 1]  BY <1>2, <3>0, <3>1
      <4>3. P[m + 2] = P[m + 1] \o s[m + 2]  BY <2>2, <3>0, <4>1
      <4>4. Q[m + 2] = Q[m + 1] \o t[m + 2]  BY <1>4, <3>0, <4>1
      <4>5. Q[m + 2] = P[m + 2]  BY <1>3, <4>1, <4>2, <4>3, <4>4
      <4> QED  BY <3>0, <4>5
    <3>2. CASE ~(m + 2 <= n)  BY <3>0, <3>2
    <3> QED  BY <3>1, <3>2
  <2>5. S \in SUBSET Nat  OBVIOUS
  <2> HIDE DEF S
  <2>6. S = Nat  BY <2>3, <2>4, <2>5, Induction
  <2>7. n - 1 \in S /\ (n - 1) + 1 = n  BY <1>2, <2>1, <2>6
  <2>8. Q[n] = P[n]  BY <2>7, <1>2 DEF S
  <2>9. n + 1 \in 2 .. Len(t) /\ (n + 1) - 1 = n  BY <1>2, <2>1
  <2>10. Q[n + 1] = Q[n] \o t[n + 1]  BY <1>4, <2>9
  <2>11. FlattenSeq(t) = FlattenSeq(s) \o x  BY <1>2, <1>4, <2>2, <2>8, <2>10
  <2>12. FlattenSeq(s) \in Seq(C)  BY <1>2, <2>1, <2>2
  <2> QED  BY <1>1, <2>11, <2>12 DEF t
<1> QED  BY <1>5, <1>6

\* A sequence with one element more is what Append makes.
LEMMA IsAppend ==
  ASSUME NEW D, NEW s \in Seq(D), NEW t \in Seq(D), NEW x \in D,
         Len(t) = Len(s) + 1, t[Len(s) + 1] = x, \A k \in 1 .. Len(s) : t[k] = s[k]
  PROVE  t = Append(s, x)
<1> DEFINE u == Append(s, x)
<1>1. /\ u \in Seq(D) /\ Len(u) = Len(s) + 1 /\ Len(s) \in Nat /\ u[Len(s) + 1] = x
      /\ \A k \in 1 .. Len(s) : u[k] = s[k]
  OBVIOUS
<1> HIDE DEF u
<1>2. \A k \in 1 .. Len(t) : t[k] = u[k]  BY <1>1
<1>3. t = u  BY <1>1, <1>2, SeqEqual
<1> QED  BY <1>3 DEF u

\* Append and \o under other names: a fact stated with them is used as it stands.
Put(s, x) == Append(s, x)
Cat(s, t) == s \o t

\* A list with separators grows by a separator and an element.
LEMMA JoinedAppend ==
  ASSUME NEW C, NEW s \in Seq(Seq(C)), NEW sep \in Seq(C), NEW x \in Seq(C)
  PROVE  /\ Joined(<<>>, sep) = <<>>
         /\ Joined(s, sep) \in Seq(C)
         /\ s = <<>> => Joined(Put(s, x), sep) = x
         /\ s # <<>> => Joined(Put(s, x), sep) = Cat(Joined(s, sep), Cat(sep, x))
<1> DEFINE Parts(u) == [k \in DOMAIN u |-> IF k = 1 THEN u[k] ELSE sep \o u[k]]
           y == IF s = <<>> THEN x ELSE sep \o x
<1>1. \A u \in Seq(Seq(C)) : Parts(u) \in Seq(Seq(C)) /\ Len(Parts(u)) = Len(u)
  <2> SUFFICES ASSUME NEW u \in Seq(Seq(C))
               PROVE  Parts(u) \in Seq(Seq(C)) /\ Len(Parts(u)) = Len(u)
    OBVIOUS
  <2>1. DOMAIN u = 1 .. Len(u) /\ Len(u) \in Nat  OBVIOUS
  <2>2. \A k \in 1 .. Len(u) : u[k] \in Seq(C)  OBVIOUS
  <2>3. \A k \in 1 .. Len(u) : (IF k = 1 THEN u[k] ELSE sep \o u[k]) \in Seq(C)
    BY <2>2
  <2> QED  BY <2>1, <2>3, SMT
<1>2. y \in Seq(C)  OBVIOUS
<1>3. Parts(Append(s, x)) = Append(Parts(s), y)
  <2> DEFINE t == Append(s, x)
  <2>1. t \in Seq(Seq(C)) /\ Len(t) = Len(s) + 1 /\ Len(s) \in Nat /\ t[Len(s) + 1] = x
    OBVIOUS
  <2>2. \A k \in 1 .. Len(s) : t[k] = s[k]  OBVIOUS
  <2>3. s = <<>> <=> Len(s) = 0  OBVIOUS
  <2>4. DOMAIN t = 1 .. Len(s) + 1 /\ DOMAIN s = 1 .. Len(s)  OBVIOUS
  <2> HIDE DEF t
  <2>5. Parts(t)[Len(s) + 1] = y  BY <2>1, <2>3, <2>4
  <2>6. \A k \in 1 .. Len(s) : Parts(t)[k] = Parts(s)[k]  BY <2>1, <2>2, <2>4
  <2>7. Parts(t) \in Seq(Seq(C)) /\ Parts(s) \in Seq(Seq(C)) /\ Len(Parts(t)) = Len(s) + 1
        /\ Len(Parts(s)) = Len(s)
    BY <1>1, <2>1
  <2> HIDE DEF Parts, y
  <2>8. Parts(t) = Append(Parts(s), y)
    <3> DEFINE D == Seq(C)
               P == Parts(t)
               Q == Parts(s)
    <3>1. /\ P \in Seq(D) /\ Q \in Seq(D) /\ y \in D /\ Len(P) = Len(Q) + 1
          /\ P[Len(Q) + 1] = y /\ \A k \in 1 .. Len(Q) : P[k] = Q[k]
      BY <1>2, <2>1, <2>5, <2>6, <2>7
    <3> HIDE DEF D, P, Q
    <3>2. P = Append(Q, y)  BY <3>1, IsAppend
    <3> QED  BY <3>2 DEF P, Q
  <2> QED  BY <2>8 DEF t
<1>4. \A u : Joined(u, sep) = FlattenSeq(Parts(u))  BY DEF Joined
<1>5. Parts(<<>>) = <<>>  BY <1>1
<1>6. Parts(s) \in Seq(Seq(C))  BY <1>1
<1> HIDE DEF Parts
<1>7. Joined(<<>>, sep) = <<>>  BY <1>4, <1>5, FlattenAppend
<1>8. Joined(s, sep) \in Seq(C)  BY <1>4, <1>6, FlattenAppend
<1>9. Joined(Append(s, x), sep) = Joined(s, sep) \o y
  <2> HIDE DEF y
  <2>1. FlattenSeq(Append(Parts(s), y)) = FlattenSeq(Parts(s)) \o y
    BY <1>2, <1>6, FlattenAppend
  <2> QED  BY <1>3, <1>4, <2>1
<1>10. CASE s = <<>>
  <2>1. Joined(s, sep) = <<>> /\ y = x  BY <1>7, <1>10
  <2>2. <<>> \o x = x  OBVIOUS
  <2> HIDE DEF y
  <2>3. Joined(Append(s, x), sep) = x  BY <1>9, <2>1, <2>2
  <2>4. Joined(Put(s, x), sep) = x  BY <2>3, Zenon DEF Put
  <2> QED  BY <1>7, <1>8, <1>10, <2>4, Zenon
<1>11. CASE s # <<>>
  <2>1. y = sep \o x  BY <1>11
  <2> HIDE DEF y
  <2>2. Joined(Put(s, x), sep) = Cat(Joined(s, sep), Cat(sep, x))
    BY <1>9, <2>1, Zenon DEF Put, Cat
  <2> QED  BY <1>7, <1>8, <1>11, <2>2, Zenon
<1> QED  BY <1>10, <1>11

-----------------------------------------------------------------------------

\* The header and the members of the first k cookies of ps, and where cookie k
\* begins in the header (the characters before its name), has its '=', and ends.
HeaderUpTo(ps, k, sep) == Header(SubSeq(ps, 1, k), sep)
MembersUpTo(ps, k) == Members(SubSeq(ps, 1, k))
End(ps, k, sep) == Len(HeaderUpTo(ps, k, sep))
Start(ps, k, sep) == IF k = 1 THEN 0 ELSE End(ps, k - 1, sep) + Len(sep)
Equals(ps, k, sep) == Start(ps, k, sep) + Len(ps[k][1]) + 1

\* The cookies, the cookie that comes next as a browser writes it and as a member.
Pairs == Seq(Names \X Values)
Plain(p) == p[1] \o <<Equal>> \o p[2]
Member(p) == Quoted(p[1]) \o <<Colon>> \o Quoted(p[2])

\* What stands before member k.
Before(ps, k) == IF k = 1 THEN <<>> ELSE MembersUpTo(ps, k - 1) \o <<Comma>>

\* The loops of ParseCookie can tell the characters apart that they test for.
LEMMA MarksDiffer ==
  Equal # Semicolon /\ Equal # Blank /\ Semicolon # Blank
  BY Zenon DEF Equal, Semicolon, Blank

\* A character with a meaning, as a text of one character.
LEMMA OneChar ==
  ASSUME NEW c \in Marks
  PROVE  <<c>> \in Text /\ Len(<<c>>) = 1 /\ <<c>>[1] = c
<1> DEFINE C == Chars \cup Marks
<1>1. c \in C  OBVIOUS
<1> HIDE DEF C
<1>2. <<c>> \in Seq(C)  BY <1>1
<1> QED  BY <1>2 DEF Text, C

\* Texts with a text or a mark between them.
LEMMA TextConcat ==
  ASSUME NEW s \in Text, NEW t \in Text
  PROVE  /\ s \o t \in Text /\ Len(s \o t) = Len(s) + Len(t) /\ Len(s) \in Nat
         /\ \A k \in 1 .. Len(s) : (s \o t)[k] = s[k]
         /\ \A k \in 1 .. Len(t) : (s \o t)[Len(s) + k] = t[k]
<1> DEFINE C == Chars \cup Marks
<1>1. s \in Seq(C) /\ t \in Seq(C)  BY DEF Text
<1> HIDE DEF C
<1>2. s \o t \in Seq(C)  BY <1>1
<1> QED  BY <1>1, <1>2 DEF Text, C

\* A cookie's name, its value, and what ParseCookie reads and writes for it, are
\* texts; the member is four characters longer than the cookie in the header, which
\* is what the first loop adds for a '='.
LEMMA PairType ==
  ASSUME NEW p \in Names \X Values
  PROVE  /\ p[1] \in Text /\ p[2] \in Text /\ Len(p[1]) > 0
         /\ Plain(p) \in Text /\ Len(Plain(p)) = Len(p[1]) + 1 + Len(p[2])
         /\ Member(p) \in Text /\ Len(Member(p)) = Len(p[1]) + Len(p[2]) + 5
<1> DEFINE C == Chars \cup Marks
<1>1. p[1] \in Seq(Chars) /\ p[2] \in Seq(Chars) /\ p[1] # <<>>
  BY TextsAssumption
<1>2. Len(p[1]) > 0  BY <1>1
<1>3. p[1] \in Seq(C) /\ p[2] \in Seq(C)
  <2>1. Chars \subseteq C  OBVIOUS
  <2> HIDE DEF C
  <2> QED  BY <1>1, <2>1
<1>4. p[1] \in Text /\ p[2] \in Text  BY <1>3 DEF Text
<1>5. <<Equal>> \in Text /\ Len(<<Equal>>) = 1  BY OneChar DEF Marks
<1>6. <<Colon>> \in Text /\ Len(<<Colon>>) = 1  BY OneChar DEF Marks
<1>7. <<Quote>> \in Text /\ Len(<<Quote>>) = 1  BY OneChar DEF Marks
<1>8. Plain(p) \in Text /\ Len(Plain(p)) = Len(p[1]) + 1 + Len(p[2])
  <2>1. p[1] \o <<Equal>> \in Text /\ Len(p[1] \o <<Equal>>) = Len(p[1]) + 1
    BY <1>4, <1>5, TextConcat
  <2> QED  BY <1>4, <2>1, TextConcat DEF Plain
<1>9. \A k \in 1 .. 2 : Quoted(p[k]) \in Text /\ Len(Quoted(p[k])) = Len(p[k]) + 2
  <2> SUFFICES ASSUME NEW k \in 1 .. 2
               PROVE  Quoted(p[k]) \in Text /\ Len(Quoted(p[k])) = Len(p[k]) + 2
    OBVIOUS
  <2>1. p[k] \in Text  BY <1>4
  <2>2. <<Quote>> \o p[k] \in Text /\ Len(<<Quote>> \o p[k]) = 1 + Len(p[k]) /\ Len(p[k]) \in Nat
    BY <1>7, <2>1, TextConcat
  <2> QED  BY <1>7, <2>2, TextConcat DEF Quoted
<1>10. /\ Quoted(p[1]) \in Text /\ Len(Quoted(p[1])) = Len(p[1]) + 2
       /\ Quoted(p[2]) \in Text /\ Len(Quoted(p[2])) = Len(p[2]) + 2
  BY <1>9
<1>11. Member(p) \in Text /\ Len(Member(p)) = Len(p[1]) + Len(p[2]) + 5
  <2>1. /\ Quoted(p[1]) \o <<Colon>> \in Text
        /\ Len(Quoted(p[1]) \o <<Colon>>) = Len(p[1]) + 3 /\ Len(p[1]) \in Nat /\ Len(p[2]) \in Nat
    BY <1>4, <1>6, <1>10, TextConcat
  <2>2. Member(p) \in Text /\ Len(Member(p)) = Len(Quoted(p[1]) \o <<Colon>>) + Len(Quoted(p[2]))
    BY <1>10, <2>1, TextConcat DEF Member
  <2>3. Len(Member(p)) = Len(p[1]) + Len(p[2]) + 5
    <3>1. Len(Member(p)) = Len(p[1]) + 3 + (Len(p[2]) + 2)  BY <1>10, <2>1, <2>2
    <3> QED  BY <2>1, <3>1
  <2> QED  BY <2>2, <2>3
<1> QED  BY <1>2, <1>4, <1>8, <1>11

\* The first k cookies are the k - 1 before and cookie k.
LEMMA UpToGrows ==
  ASSUME NEW ps \in Pairs, NEW k \in 1 .. Len(ps)
  PROVE  /\ SubSeq(ps, 1, 0) = <<>> /\ SubSeq(ps, 1, Len(ps)) = ps
         /\ SubSeq(ps, 1, k) = Append(SubSeq(ps, 1, k - 1), ps[k])
         /\ SubSeq(ps, 1, k - 1) \in Pairs /\ ps[k] \in Names \X Values
         /\ SubSeq(ps, 1, k - 1) = <<>> <=> k = 1
<1> DEFINE D == Names \X Values
<1>1. ps \in Seq(D)  BY DEF Pairs
<1> HIDE DEF D
<1>2. SubSeq(ps, 1, k - 1) \in Seq(D) /\ ps[k] \in D  BY <1>1
<1>3. SubSeq(ps, 1, k) = Append(SubSeq(ps, 1, k - 1), ps[k])  BY <1>1, <1>2
<1>4. SubSeq(ps, 1, k - 1) = <<>> <=> k = 1  BY <1>1, <1>2
<1>5. SubSeq(ps, 1, 0) = <<>> /\ SubSeq(ps, 1, Len(ps)) = ps  BY <1>1
<1> QED  BY <1>2, <1>3, <1>4, <1>5 DEF D, Pairs

\* Header and Members of one pair more.
LEMMA ListsAppend ==
  ASSUME NEW ps \in Pairs, NEW p \in Names \X Values, NEW sep \in Separators
  PROVE  /\ Header(<<>>, sep) = <<>> /\ Header(ps, sep) \in Text
         /\ ps = <<>> => Header(Append(ps, p), sep) = Plain(p)
         /\ ps # <<>> => Header(Append(ps, p), sep) = Header(ps, sep) \o (sep \o Plain(p))
         /\ Members(<<>>) = <<>> /\ Members(ps) \in Text
         /\ ps = <<>> => Members(Append(ps, p)) = Member(p)
         /\ ps # <<>> => Members(Append(ps, p)) = Members(ps) \o (<<Comma>> \o Member(p))
<1> DEFINE D == Names \X Values
           Hs(u) == [k \in DOMAIN u |-> Plain(u[k])]
           Ms(u) == [k \in DOMAIN u |-> Member(u[k])]
           C == Chars \cup Marks
<1>1. \A u \in Pairs : /\ Hs(u) \in Seq(Text) /\ Ms(u) \in Seq(Text)
                       /\ Len(Hs(u)) = Len(u) /\ Len(Ms(u)) = Len(u)
  <2> SUFFICES ASSUME NEW u \in Pairs
               PROVE  /\ Hs(u) \in Seq(Text) /\ Ms(u) \in Seq(Text)
                      /\ Len(Hs(u)) = Len(u) /\ Len(Ms(u)) = Len(u)
    OBVIOUS
  <2>1. u \in Seq(D)  BY DEF Pairs
  <2> HIDE DEF D
  <2>2. DOMAIN u = 1 .. Len(u) /\ Len(u) \in Nat /\ \A k \in 1 .. Len(u) : u[k] \in D  BY <2>1
  <2>3. \A k \in 1 .. Len(u) : Plain(u[k]) \in Text /\ Member(u[k]) \in Text
    BY <2>2, PairType DEF D
  <2> QED  BY <2>2, <2>3
<1>2. Hs(Append(ps, p)) = Append(Hs(ps), Plain(p)) /\ Ms(Append(ps, p)) = Append(Ms(ps), Member(p))
  <2> DEFINE t == Append(ps, p)
  <2>1. ps \in Seq(D) /\ p \in D  BY DEF Pairs
  <2>2. t \in Seq(D) /\ Len(t) = Len(ps) + 1 /\ Len(ps) \in Nat /\ t[Len(ps) + 1] = p
    <3> HIDE DEF D
    <3> QED  BY <2>1
  <2>3. \A k \in 1 .. Len(ps) : t[k] = ps[k]
    <3> HIDE DEF D
    <3> QED  BY <2>1
  <2>4. DOMAIN t = 1 .. Len(ps) + 1 /\ DOMAIN ps = 1 .. Len(ps)
    <3> HIDE DEF D, t
    <3> QED  BY <2>1, <2>2
  <2>5. t \in Pairs  BY <2>2 DEF Pairs
  <2> HIDE DEF t, D
  <2>6. Hs(t)[Len(ps) + 1] = Plain(p) /\ Ms(t)[Len(ps) + 1] = Member(p)  BY <2>2, <2>4
  <2>7. \A k \in 1 .. Len(ps) : Hs(t)[k] = Hs(ps)[k] /\ Ms(t)[k] = Ms(ps)[k]
    BY <2>2, <2>3, <2>4
  <2>8. Plain(p) \in Text /\ Member(p) \in Text  BY PairType
  <2>9. /\ Hs(t) \in Seq(Text) /\ Hs(ps) \in Seq(Text)
        /\ Len(Hs(t)) = Len(ps) + 1 /\ Len(Hs(ps)) = Len(ps)
        /\ Ms(t) \in Seq(Text) /\ Ms(ps) \in Seq(Text)
        /\ Len(Ms(t)) = Len(ps) + 1 /\ Len(Ms(ps)) = Len(ps)
    BY <1>1, <2>2, <2>5
  <2> HIDE DEF Hs, Ms
  <2>10. Hs(t) = Append(Hs(ps), Plain(p))  BY <2>6, <2>7, <2>8, <2>9, IsAppend
  <2>11. Ms(t) = Append(Ms(ps), Member(p))  BY <2>6, <2>7, <2>8, <2>9, IsAppend
  <2> QED  BY <2>10, <2>11 DEF t
<1>3. \A u : Header(u, sep) = Joined(Hs(u), sep) /\ Members(u) = Joined(Ms(u), <<Comma>>)
  BY DEF Header, Members, Plain, Member
<1>4. Plain(p) \in Text /\ Member(p) \in Text  BY PairType
<1>5. sep \in Text /\ <<Comma>> \in Text  BY SeparatorsAssumption, OneChar DEF Marks
<1>6. Hs(<<>>) = <<>> /\ Ms(<<>>) = <<>>
  <2>1. <<>> \in Pairs /\ Len(<<>>) = 0  BY DEF Pairs
  <2> HIDE DEF Hs, Ms
  <2> QED  BY <1>1, <2>1
<1>7. /\ Hs(ps) \in Seq(Text) /\ Ms(ps) \in Seq(Text)
      /\ ps = <<>> <=> Hs(ps) = <<>>
      /\ ps = <<>> <=> Ms(ps) = <<>>
  <2>1. ps = <<>> <=> Len(ps) = 0  BY DEF Pairs
  <2> HIDE DEF Hs, Ms
  <2> QED  BY <1>1, <2>1
<1> HIDE DEF Hs, Ms
<1>8. Text = Seq(C)  BY DEF Text
<1> HIDE DEF C
<1>9. /\ Plain(p) \in Seq(C) /\ Member(p) \in Seq(C)
      /\ sep \in Seq(C) /\ <<Comma>> \in Seq(C)
      /\ Hs(ps) \in Seq(Seq(C)) /\ Ms(ps) \in Seq(Seq(C))
  BY <1>4, <1>5, <1>7, <1>8
<1>10. ASSUME NEW u \in Seq(Seq(C)), NEW z \in Seq(C), NEW x \in Seq(C)
       PROVE  /\ Joined(<<>>, z) = <<>> /\ Joined(u, z) \in Seq(C)
              /\ u = <<>> => Joined(Put(u, x), z) = x
              /\ u # <<>> => Joined(Put(u, x), z) = Cat(Joined(u, z), Cat(z, x))
  BY JoinedAppend
<1>11. /\ Joined(<<>>, sep) = <<>> /\ Joined(Hs(ps), sep) \in Seq(C)
       /\ Hs(ps) = <<>> => Joined(Append(Hs(ps), Plain(p)), sep) = Plain(p)
       /\ Hs(ps) # <<>> => Joined(Append(Hs(ps), Plain(p)), sep)
                             = Joined(Hs(ps), sep) \o (sep \o Plain(p))
  <2>1. /\ Joined(<<>>, sep) = <<>> /\ Joined(Hs(ps), sep) \in Seq(C)
        /\ Hs(ps) = <<>> => Joined(Put(Hs(ps), Plain(p)), sep) = Plain(p)
        /\ Hs(ps) # <<>> => Joined(Put(Hs(ps), Plain(p)), sep)
                              = Cat(Joined(Hs(ps), sep), Cat(sep, Plain(p)))
    BY <1>9, <1>10
  <2> QED  BY <2>1 DEF Put, Cat
<1>12. /\ Joined(<<>>, <<Comma>>) = <<>> /\ Joined(Ms(ps), <<Comma>>) \in Seq(C)
       /\ Ms(ps) = <<>> => Joined(Append(Ms(ps), Member(p)), <<Comma>>) = Member(p)
       /\ Ms(ps) # <<>> => Joined(Append(Ms(ps), Member(p)), <<Comma>>)
                             = Joined(Ms(ps), <<Comma>>) \o (<<Comma>> \o Member(p))
  <2>1. /\ Joined(<<>>, <<Comma>>) = <<>> /\ Joined(Ms(ps), <<Comma>>) \in Seq(C)
        /\ Ms(ps) = <<>> => Joined(Put(Ms(ps), Member(p)), <<Comma>>) = Member(p)
        /\ Ms(ps) # <<>> => Joined(Put(Ms(ps), Member(p)), <<Comma>>)
                              = Cat(Joined(Ms(ps), <<Comma>>), Cat(<<Comma>>, Member(p)))
    BY <1>9, <1>10
  <2> QED  BY <2>1 DEF Put, Cat
<1>13. /\ Header(<<>>, sep) = <<>> /\ Header(ps, sep) \in Text
       /\ ps = <<>> => Header(Append(ps, p), sep) = Plain(p)
       /\ ps # <<>> => Header(Append(ps, p), sep) = Header(ps, sep) \o (sep \o Plain(p))
  BY <1>2, <1>3, <1>6, <1>7, <1>8, <1>11
<1>14. /\ Members(<<>>) = <<>> /\ Members(ps) \in Text
       /\ ps = <<>> => Members(Append(ps, p)) = Member(p)
       /\ ps # <<>> => Members(Append(ps, p)) = Members(ps) \o (<<Comma>> \o Member(p))
  BY <1>2, <1>3, <1>6, <1>7, <1>8, <1>12
<1> QED  BY <1>13, <1>14

-----------------------------------------------------------------------------
\* s stands in h after the first `at` characters.
Part(h, at, s) == at + Len(s) <= Len(h) /\ \A j \in 1 .. Len(s) : h[at + j] = s[j]

\* A text is a sequence, whatever the characters are.
LEMMA TextSeq == \A s : s \in Text <=> s \in Seq(Chars \cup Marks)
  BY DEF Text

\* A text has a length, and only the empty one has the length 0.
LEMMA TextLen ==
  ASSUME NEW s \in Text
  PROVE  Len(s) \in Nat /\ (s # <<>> => Len(s) > 0) /\ (s = <<>> => Len(s) = 0)
<1> DEFINE C == Chars \cup Marks
<1>1. s \in Seq(C)  BY TextSeq
<1> HIDE DEF C
<1> QED  BY <1>1

\* Texts that are written one behind the other need no brackets.
LEMMA TextAssoc ==
  ASSUME NEW r \in Text, NEW s \in Text, NEW t \in Text
  PROVE  r \o (s \o t) = (r \o s) \o t
<1> DEFINE C == Chars \cup Marks
<1>1. r \in Seq(C) /\ s \in Seq(C) /\ t \in Seq(C)  BY TextSeq
<1> HIDE DEF C
<1> QED  BY <1>1

\* What stands in a text is still there when more is written behind it, and what a
\* memcpy takes from there is it.
LEMMA PartOf ==
  ASSUME NEW h \in Text, NEW t \in Text, NEW s \in Text, NEW at \in Nat
  PROVE  /\ Part(h, at, s) => Part(h \o t, at, s)
         /\ Part(h \o t, 0, h) /\ Part(h \o t, Len(h), t)
         /\ Part(h, at, s) => SubSeq(h, at + 1, at + Len(s)) = s
<1> DEFINE C == Chars \cup Marks
<1>1. h \in Seq(C) /\ t \in Seq(C) /\ s \in Seq(C)  BY TextSeq
<1> HIDE DEF C
<1>2. /\ Len(h \o t) = Len(h) + Len(t) /\ Len(h) \in Nat /\ Len(t) \in Nat
      /\ \A k \in 1 .. Len(h) : (h \o t)[k] = h[k]
      /\ \A k \in 1 .. Len(t) : (h \o t)[Len(h) + k] = t[k]
  BY TextConcat
<1>3. Part(h, at, s) => Part(h \o t, at, s)
  <2> SUFFICES ASSUME Part(h, at, s) PROVE Part(h \o t, at, s)  OBVIOUS
  <2>1. Len(s) \in Nat  BY <1>1
  <2>2. \A j \in 1 .. Len(s) : at + j \in 1 .. Len(h)  BY <1>2, <2>1 DEF Part
  <2> QED  BY <1>2, <2>1, <2>2 DEF Part
<1>4. Part(h \o t, 0, h)  BY <1>2 DEF Part
<1>5. Part(h \o t, Len(h), t)  BY <1>2 DEF Part
<1>6. Part(h, at, s) => SubSeq(h, at + 1, at + Len(s)) = s
  <2> SUFFICES ASSUME Part(h, at, s) PROVE SubSeq(h, at + 1, at + Len(s)) = s  OBVIOUS
  <2> DEFINE u == SubSeq(h, at + 1, at + Len(s))
  <2>1. Len(s) \in Nat /\ Len(h) \in Nat /\ at + Len(s) <= Len(h)  BY <1>1 DEF Part
  <2>2. u \in Seq(C) /\ Len(u) = Len(s)  BY <1>1, <2>1
  <2>3. \A j \in 1 .. Len(s) : u[j] = h[at + j]  BY <1>1, <2>1
  <2>4. \A j \in 1 .. Len(s) : u[j] = s[j]  BY <2>3 DEF Part
  <2> HIDE DEF u
  <2>5. u = s  BY <1>1, <2>2, <2>4
  <2> QED  BY <2>5 DEF u
<1> QED  BY <1>3, <1>4, <1>5, <1>6

\* What stands in one of a row of texts, each the one before with more behind
\* it, stands in the last one.
LEMMA PartOfLast ==
  ASSUME NEW n \in Nat, NEW F,
         \A k \in 0 .. n : F[k] \in Text,
         \A k \in 1 .. n : \E t \in Text : F[k] = F[k - 1] \o t,
         NEW k \in 0 .. n, NEW s \in Text, NEW at \in Nat, Part(F[k], at, s)
  PROVE  Part(F[n], at, s)
<1> DEFINE S == {m \in Nat : k + m <= n => Part(F[k + m], at, s)}
<1>1. 0 \in S
  <2>1. k + 0 = k  OBVIOUS
  <2> QED  BY <2>1
<1>2. ASSUME NEW m \in S PROVE m + 1 \in S
  <2>1. m + 1 \in Nat  OBVIOUS
  <2>2. ASSUME k + (m + 1) <= n PROVE Part(F[k + (m + 1)], at, s)
    <3>1. k + m \in 0 .. n /\ k + (m + 1) \in 1 .. n /\ (k + (m + 1)) - 1 = k + m
      BY <2>2
    <3>2. Part(F[k + m], at, s)  BY <3>1
    <3>3. F[k + m] \in Text  BY <3>1
    <3>4. PICK t \in Text : F[k + (m + 1)] = F[k + m] \o t  BY <3>1
    <3>5. Part(F[k + m] \o t, at, s)  BY <3>2, <3>3, PartOf
    <3> QED  BY <3>4, <3>5
  <2> QED  BY <2>1, <2>2
<1>3. S \in SUBSET Nat  OBVIOUS
<1> HIDE DEF S
<1>4. S = Nat  BY <1>1, <1>2, <1>3, Induction
<1>5. n - k \in S /\ k + (n - k) = n /\ k + (n - k) <= n  BY <1>4
<1>6. k + (n - k) <= n => Part(F[k + (n - k)], at, s)  BY <1>5 DEF S
<1> QED  BY <1>5, <1>6

\* The header, and the members, of k cookies: those of k - 1, a separator, and
\* cookie k.
LEMMA UpToStep ==
  ASSUME NEW ps \in Pairs, NEW k \in 1 .. Len(ps), NEW sep \in Separators
  PROVE  /\ HeaderUpTo(ps, k - 1, sep) \in Text /\ HeaderUpTo(ps, k, sep) \in Text
         /\ k = 1 => HeaderUpTo(ps, k, sep) = Plain(ps[k])
         /\ k > 1 => HeaderUpTo(ps, k, sep) = HeaderUpTo(ps, k - 1, sep) \o (sep \o Plain(ps[k]))
         /\ MembersUpTo(ps, k - 1) \in Text /\ MembersUpTo(ps, k) \in Text
         /\ k = 1 => MembersUpTo(ps, k) = Member(ps[k])
         /\ k > 1 => MembersUpTo(ps, k) = MembersUpTo(ps, k - 1) \o (<<Comma>> \o Member(ps[k]))
<1> DEFINE u == SubSeq(ps, 1, k - 1)
           v == SubSeq(ps, 1, k)
<1>1. /\ u \in Pairs /\ ps[k] \in Names \X Values /\ v = Append(u, ps[k])
      /\ u = <<>> <=> k = 1
  BY UpToGrows
<1>2. v \in Pairs
  <2> DEFINE D == Names \X Values
  <2>1. u \in Seq(D) /\ ps[k] \in D  BY <1>1 DEF Pairs
  <2> HIDE DEF D, u, v
  <2>2. Append(u, ps[k]) \in Seq(D)  BY <2>1
  <2> QED  BY <1>1, <2>2 DEF D, Pairs
<1>3. k \in Nat /\ (k > 1 => k # 1)  BY DEF Pairs
<1> HIDE DEF u, v
<1>4. /\ Header(u, sep) \in Text /\ Header(v, sep) \in Text
      /\ Members(u) \in Text /\ Members(v) \in Text
  BY <1>1, <1>2, ListsAppend
<1>5. /\ u = <<>> => Header(v, sep) = Plain(ps[k]) /\ Members(v) = Member(ps[k])
      /\ u # <<>> => /\ Header(v, sep) = Header(u, sep) \o (sep \o Plain(ps[k]))
                     /\ Members(v) = Members(u) \o (<<Comma>> \o Member(ps[k]))
  <2>1. /\ u = <<>> => Header(Append(u, ps[k]), sep) = Plain(ps[k])
        /\ u = <<>> => Members(Append(u, ps[k])) = Member(ps[k])
        /\ u # <<>> => Header(Append(u, ps[k]), sep) = Header(u, sep) \o (sep \o Plain(ps[k]))
        /\ u # <<>> => Members(Append(u, ps[k])) = Members(u) \o (<<Comma>> \o Member(ps[k]))
    BY <1>1, ListsAppend
  <2> QED  BY <1>1, <2>1
<1>6. /\ HeaderUpTo(ps, k - 1, sep) = Header(u, sep) /\ MembersUpTo(ps, k - 1) = Members(u)
      /\ HeaderUpTo(ps, k, sep) = Header(v, sep) /\ MembersUpTo(ps, k) = Members(v)
  BY DEF HeaderUpTo, MembersUpTo, u, v
<1> QED  BY <1>1, <1>3, <1>4, <1>5, <1>6

\* None and all of the cookies.
LEMMA UpToEnds ==
  ASSUME NEW ps \in Pairs, NEW sep \in Separators
  PROVE  /\ HeaderUpTo(ps, 0, sep) = <<>> /\ HeaderUpTo(ps, Len(ps), sep) = Header(ps, sep)
         /\ MembersUpTo(ps, 0) = <<>> /\ MembersUpTo(ps, Len(ps)) = Members(ps)
         /\ ps = <<>> => Header(ps, sep) = <<>> /\ Members(ps) = <<>>
         /\ Len(ps) \in Nat /\ Header(ps, sep) \in Text /\ Members(ps) \in Text
<1> DEFINE D == Names \X Values
<1>1. ps \in Seq(D)  BY DEF Pairs
<1> HIDE DEF D
<1>2. SubSeq(ps, 1, 0) = <<>> /\ SubSeq(ps, 1, Len(ps)) = ps /\ Len(ps) \in Nat  BY <1>1
<1>3. CASE ps = <<>>
  <2>1. Len(ps) = 0  BY <1>3
  <2>2. Joined(<<>>, sep) = <<>> /\ Joined(<<>>, <<Comma>>) = <<>>
    <3>1. \A z : [k \in DOMAIN <<>> |-> IF k = 1 THEN <<>>[k] ELSE z \o <<>>[k]] = <<>>  OBVIOUS
    <3>2. FlattenSeq(<<>>) = <<>>
      <4>1. <<>> \in Seq({}) /\ <<>> \in Seq(Seq({}))  OBVIOUS
      <4> QED  BY <4>1, FlattenAppend
    <3> QED  BY <3>1, <3>2 DEF Joined
  <2>4. Header(<<>>, sep) = Joined(<<>>, sep) /\ Members(<<>>) = Joined(<<>>, <<Comma>>)
    <3>1. [k \in DOMAIN <<>> |-> <<>>[k][1] \o <<Equal>> \o <<>>[k][2]] = <<>>  OBVIOUS
    <3>2. [k \in DOMAIN <<>> |-> Quoted(<<>>[k][1]) \o <<Colon>> \o Quoted(<<>>[k][2])] = <<>>
      OBVIOUS
    <3> QED  BY <3>1, <3>2 DEF Header, Members
  <2>3. <<>> \in Text  BY DEF Text
  <2> QED  BY <1>2, <1>3, <2>1, <2>2, <2>3, <2>4 DEF HeaderUpTo, MembersUpTo
<1>4. CASE ps # <<>>
  <2>1. PICK p : p \in D  BY <1>1, <1>4
  <2>2. /\ Header(<<>>, sep) = <<>> /\ Header(ps, sep) \in Text
        /\ Members(<<>>) = <<>> /\ Members(ps) \in Text
    BY <2>1, ListsAppend DEF D
  <2> QED  BY <1>2, <1>4, <2>2 DEF HeaderUpTo, MembersUpTo
<1> QED  BY <1>3, <1>4

\* Cookie k stands in the header after Start(k) characters, and the separator
\* before it after the cookie before; the header ends with the last cookie.
LEMMA Placed ==
  ASSUME NEW ps \in Pairs, NEW sep \in Separators, NEW k \in 1 .. Len(ps)
  PROVE  /\ End(ps, k, sep) \in Nat /\ Start(ps, k, sep) \in Nat
         /\ End(ps, k, sep) = Start(ps, k, sep) + Len(Plain(ps[k]))
         /\ Part(Header(ps, sep), Start(ps, k, sep), Plain(ps[k]))
         /\ k > 1 => /\ k - 1 \in 1 .. Len(ps) /\ End(ps, k - 1, sep) \in Nat
                     /\ Part(Header(ps, sep), End(ps, k - 1, sep), sep)
         /\ End(ps, Len(ps), sep) = Len(Header(ps, sep))
<1> DEFINE n == Len(ps)
           F == [m \in 0 .. n |-> HeaderUpTo(ps, m, sep)]
           h == Header(ps, sep)
           p == ps[k]
           before == HeaderUpTo(ps, k - 1, sep)
           upto == HeaderUpTo(ps, k, sep)
<1>1. n \in Nat /\ k \in 1 .. n /\ HeaderUpTo(ps, 0, sep) = <<>> /\ HeaderUpTo(ps, n, sep) = h
  BY UpToEnds
<1>2. \A m \in 1 .. n : Plain(ps[m]) \in Text /\ sep \in Text
  BY UpToGrows, PairType, SeparatorsAssumption
<1>3. \A m \in 0 .. n : F[m] \in Text
  <2> SUFFICES ASSUME NEW m \in 0 .. n PROVE F[m] \in Text  OBVIOUS
  <2>1. m + 1 \in 1 .. n \/ m \in 1 .. n  BY <1>1
  <2>2. HeaderUpTo(ps, m, sep) \in Text
    <3>1. CASE m \in 1 .. n  BY <3>1, UpToStep
    <3>2. CASE m + 1 \in 1 .. n
      <4>1. HeaderUpTo(ps, (m + 1) - 1, sep) \in Text  BY <3>2, UpToStep
      <4>2. (m + 1) - 1 = m  OBVIOUS
      <4> QED  BY <4>1, <4>2
    <3> QED  BY <2>1, <3>1, <3>2
  <2> QED  BY <2>2
<1>4. \A m \in 1 .. n : \E t \in Text : F[m] = F[m - 1] \o t
  <2> SUFFICES ASSUME NEW m \in 1 .. n PROVE \E t \in Text : F[m] = F[m - 1] \o t  OBVIOUS
  <2>1. F[m] = HeaderUpTo(ps, m, sep) /\ F[m - 1] = HeaderUpTo(ps, m - 1, sep)  BY <1>1
  <2>2. CASE m = 1
    <3>0. m - 1 = 0 /\ HeaderUpTo(ps, m, sep) = Plain(ps[m])
      <4>1. m = 1 => HeaderUpTo(ps, m, sep) = Plain(ps[m])  BY UpToStep
      <4>2. m - 1 = 0  BY <2>2
      <4> QED  BY <2>2, <4>1, <4>2
    <3>1. F[m] = Plain(ps[m]) /\ F[m - 1] = <<>> /\ Plain(ps[m]) \in Text
      <4> HIDE DEF F
      <4> QED  BY <1>1, <1>2, <2>1, <3>0
    <3>2. Plain(ps[m]) = <<>> \o Plain(ps[m])
      BY <3>1, TextSeq
    <3> HIDE DEF F
    <3> QED  BY <3>1, <3>2
  <2>3. CASE m > 1
    <3>1. F[m] = F[m - 1] \o (sep \o Plain(ps[m]))  BY <2>1, <2>3, UpToStep
    <3>2. sep \o Plain(ps[m]) \in Text  BY <1>2, TextConcat
    <3> HIDE DEF F
    <3> QED  BY <3>1, <3>2
  <2> HIDE DEF F
  <2> QED  BY <1>1, <2>2, <2>3
<1>5. F[n] = h /\ F[k] = upto  BY <1>1
<1> HIDE DEF F
<1>6. ASSUME NEW s \in Text, NEW at \in Nat, Part(upto, at, s) PROVE Part(h, at, s)
  <2>1. k \in 0 .. n /\ Part(F[k], at, s)  BY <1>1, <1>5, <1>6
  <2>2. Part(F[n], at, s)
    <3> HIDE DEF upto, h, n
    <3> QED  BY <1>1, <1>3, <1>4, <2>1, PartOfLast
  <2> QED  BY <1>5, <2>2
<1>7. before \in Text /\ upto \in Text /\ Plain(p) \in Text /\ sep \in Text /\ Len(h) = End(ps, n, sep)
  BY <1>1, <1>2, UpToStep DEF End
<1>8. CASE k = 1
  <2>1. upto = Plain(p)  BY <1>8, UpToStep
  <2>2. Start(ps, k, sep) = 0 /\ End(ps, k, sep) = Len(Plain(p)) /\ Len(Plain(p)) \in Nat
    BY <1>7, <1>8, <2>1, TextSeq DEF Start, End
  <2>3. Part(upto, 0, Plain(p))  BY <2>1, <2>2 DEF Part
  <2>4. Part(h, 0, Plain(p))  BY <1>6, <1>7, <2>3
  <2> QED  BY <1>7, <1>8, <2>2, <2>4
<1>9. CASE k > 1
  <2> DEFINE t == sep \o Plain(p)
             e == Len(before)
  <2>1. upto = before \o t  BY <1>9, UpToStep
  <2>2. t \in Text /\ Len(t) = Len(sep) + Len(Plain(p)) /\ Len(sep) \in Nat /\ Len(Plain(p)) \in Nat
    BY <1>7, TextConcat, TextSeq
  <2>3. /\ before \o sep \in Text /\ e \in Nat /\ Len(before \o sep) = e + Len(sep)
        /\ Len(upto) = e + Len(t)
    BY <1>7, <2>1, <2>2, TextConcat
  <2>4. upto = (before \o sep) \o Plain(p)
    <3>1. before \o (sep \o Plain(p)) = (before \o sep) \o Plain(p)
      <4> HIDE DEF before
      <4> QED  BY <1>7, TextAssoc
    <3> QED  BY <2>1, <3>1
  <2>5. e = End(ps, k - 1, sep) /\ Start(ps, k, sep) = e + Len(sep) /\ End(ps, k, sep) = Len(upto)
    BY <1>9 DEF Start, End
  <2>6. Part(upto, e + Len(sep), Plain(p))
    <3> DEFINE g == before \o sep
    <3>1. g \in Text /\ Len(g) = e + Len(sep) /\ upto = g \o Plain(p)  BY <2>3, <2>4
    <3> HIDE DEF g, upto
    <3>2. Part(g \o Plain(p), Len(g), Plain(p))  BY <1>7, <3>1, PartOf
    <3> QED  BY <3>1, <3>2
  <2>7. Part(upto, e, sep)
    <3>1. Part(before \o sep, e, sep)  BY <1>7, PartOf
    <3> QED  BY <1>7, <2>3, <2>4, <3>1, PartOf
  <2>8. Part(h, e + Len(sep), Plain(p)) /\ Part(h, e, sep)
    BY <1>6, <1>7, <2>2, <2>3, <2>6, <2>7
  <2>9. k - 1 \in 1 .. n  BY <1>1, <1>9
  <2> QED  BY <1>7, <2>2, <2>3, <2>5, <2>8, <2>9
<1> QED  BY <1>1, <1>8, <1>9

\* What stands in a part of a text stands in the text.
LEMMA PartOfPart ==
  ASSUME NEW h \in Text, NEW t \in Text, NEW s \in Text, NEW at \in Nat, NEW b \in Nat,
         Part(h, at, t), Part(t, b, s)
  PROVE  Part(h, at + b, s)
<1>1. Len(h) \in Nat /\ Len(t) \in Nat /\ Len(s) \in Nat  BY TextSeq
<1>2. at + b + Len(s) <= Len(h)  BY <1>1 DEF Part
<1>3. ASSUME NEW j \in 1 .. Len(s) PROVE h[(at + b) + j] = s[j]
  <2>1. b + j \in 1 .. Len(t) /\ at + (b + j) = (at + b) + j  BY <1>1 DEF Part
  <2>2. h[at + (b + j)] = t[b + j]  BY <2>1 DEF Part
  <2>3. t[b + j] = s[j]  BY DEF Part
  <2> QED  BY <2>1, <2>2, <2>3
<1> QED  BY <1>1, <1>2, <1>3 DEF Part

\* The name, the '=' and the value of a cookie.
LEMMA PlainParts ==
  ASSUME NEW p \in Names \X Values
  PROVE  /\ Part(Plain(p), 0, p[1]) /\ Part(Plain(p), Len(p[1]), <<Equal>>)
         /\ Part(Plain(p), Len(p[1]) + 1, p[2])
<1> DEFINE n == p[1]
           v == p[2]
           q == n \o <<Equal>>
<1>1. n \in Text /\ v \in Text /\ Len(n) \in Nat  BY PairType, TextLen
<1>2. <<Equal>> \in Text /\ Len(<<Equal>>) = 1  BY OneChar DEF Marks
<1> HIDE DEF n, v
<1>3. q \in Text /\ Len(q) = Len(n) + 1  BY <1>1, <1>2, TextConcat
<1>4. Part(q, 0, n) /\ Part(q, Len(n), <<Equal>>)  BY <1>1, <1>2, PartOf
<1>5. Plain(p) = q \o v  BY DEF Plain, n, v
<1> HIDE DEF q
<1>6. Part(q \o v, 0, n) /\ Part(q \o v, Len(n), <<Equal>>)
  BY <1>1, <1>2, <1>3, <1>4, PartOf
<1>7. Part(q \o v, Len(q), v)  BY <1>1, <1>3, PartOf
<1> QED  BY <1>3, <1>5, <1>6, <1>7 DEF n, v

\* No character of a name or a value ends it: ParseCookie's loops go on.
LEMMA CharsNotMarks ==
  ASSUME NEW p \in Names \X Values
  PROVE  /\ \A j \in 1 .. Len(p[1]) : p[1][j] \notin Marks
         /\ \A j \in 1 .. Len(p[2]) : p[2][j] \notin Marks
<1>1. p[1] \in Seq(Chars) /\ p[2] \in Seq(Chars)  BY TextsAssumption
<1>2. \A c \in Chars : c \notin Marks  BY TextsAssumption
<1>3. \A j \in 1 .. Len(p[1]) : p[1][j] \in Chars  BY <1>1
<1>4. \A j \in 1 .. Len(p[2]) : p[2][j] \in Chars  BY <1>1
<1> QED  BY <1>2, <1>3, <1>4

\* Where the characters of cookie k are, and what they are: its name begins after
\* character st, its '=' is character eq, and it ends with character en.
Laid(ps, k, sep, h, st, eq, en) ==
  /\ h \in Text /\ Len(h) \in Nat /\ st \in Nat /\ eq \in Nat /\ en \in Nat
  /\ Len(ps[k][1]) \in Nat /\ Len(ps[k][2]) \in Nat /\ st + 1 < eq
  /\ eq = st + Len(ps[k][1]) + 1 /\ en = eq + Len(ps[k][2]) /\ en <= Len(h)
  /\ \A j \in st + 1 .. eq - 1 : h[j] \notin Marks
  /\ h[eq] = Equal
  /\ \A j \in eq + 1 .. en : h[j] \notin Marks
  /\ SubSeq(h, st + 1, eq - 1) = ps[k][1] /\ SubSeq(h, eq + 1, en) = ps[k][2]
  /\ k = 1 => st = 0
  /\ k = Len(ps) => en = Len(h)

\* The cookie before it ends with character e, and the separator follows.
LaidAfter(sep, h, e, st) ==
  /\ e \in Nat /\ st = e + Len(sep) /\ Len(sep) \in Nat /\ Len(sep) > 0
  /\ h[e + 1] = Semicolon /\ \A j \in e + 2 .. st : h[j] = Blank

\* The header is laid out like that: the loops meet the cookies at these places.
LEMMA Layout ==
  ASSUME NEW ps \in Pairs, NEW sep \in Separators, NEW k \in 1 .. Len(ps)
  PROVE  /\ Laid(ps, k, sep, Header(ps, sep), Start(ps, k, sep), Equals(ps, k, sep), End(ps, k, sep))
         /\ k > 1 => LaidAfter(sep, Header(ps, sep), End(ps, k - 1, sep), Start(ps, k, sep))
<1> DEFINE p == ps[k]
           nm == p[1]
           vl == p[2]
           h  == Header(ps, sep)
           st == Start(ps, k, sep)
           eq == Equals(ps, k, sep)
           en == End(ps, k, sep)
<1>1. p \in Names \X Values  BY UpToGrows
<1>2. nm \in Text /\ vl \in Text /\ Plain(p) \in Text  BY <1>1, PairType
<1>3. Len(nm) \in Nat /\ Len(vl) \in Nat /\ Len(nm) > 0 /\ Len(Plain(p)) = Len(nm) + 1 + Len(vl)
  BY <1>1, <1>2, PairType, TextLen
<1>4. h \in Text  BY UpToEnds
<1>5. Len(h) \in Nat  BY <1>4, TextLen
<1>6. st \in Nat /\ en \in Nat /\ en = st + Len(Plain(p)) /\ Part(h, st, Plain(p))
  BY Placed
<1>7. eq = st + Len(nm) + 1  BY DEF Equals
<1>8. k = Len(ps) => en = Len(h)  BY Placed
<1>9. k = 1 => st = 0  BY DEF Start
<1>10. /\ Part(Plain(p), 0, nm) /\ Part(Plain(p), Len(nm), <<Equal>>)
       /\ Part(Plain(p), Len(nm) + 1, vl)
  BY <1>1, PlainParts
<1>11. \A j \in 1 .. Len(nm) : nm[j] \notin Marks  BY <1>1, CharsNotMarks
<1>12. \A j \in 1 .. Len(vl) : vl[j] \notin Marks  BY <1>1, CharsNotMarks
<1>13. ASSUME k > 1 PROVE LaidAfter(sep, h, End(ps, k - 1, sep), st)
  <2> DEFINE e == End(ps, k - 1, sep)
  <2>1. Part(h, e, sep) /\ e \in Nat  BY <1>13, Placed
  <2>2. st = e + Len(sep)  BY <1>13 DEF Start
  <2>3. sep \in Text /\ sep # <<>> /\ sep[1] = Semicolon /\ \A j \in 2 .. Len(sep) : sep[j] = Blank
    BY SeparatorsAssumption
  <2>4. Len(sep) \in Nat /\ Len(sep) > 0  BY <2>3, TextLen
  <2> HIDE DEF e, st, h
  <2>5. h[e + 1] = Semicolon
    <3>1. 1 \in 1 .. Len(sep)  BY <2>4
    <3> QED  BY <2>1, <2>3, <3>1 DEF Part
  <2>6. ASSUME NEW j \in e + 2 .. st PROVE h[j] = Blank
    <3>1. j - e \in 2 .. Len(sep) /\ j - e \in 1 .. Len(sep) /\ e + (j - e) = j
      BY <2>1, <2>2, <2>4
    <3>2. h[e + (j - e)] = sep[j - e]  BY <2>1, <3>1 DEF Part
    <3> QED  BY <2>3, <3>1, <3>2
  <2> QED  BY <2>1, <2>2, <2>4, <2>5, <2>6 DEF e, st, h, LaidAfter
<1>14. p = ps[k] /\ nm = ps[k][1] /\ vl = ps[k][2]  OBVIOUS
<1> HIDE DEF p, nm, vl, h, st, eq, en
<1>15. Part(h, st, nm) /\ h[eq] = Equal /\ Part(h, eq, vl)
  <2>1. <<Equal>> \in Text /\ Len(<<Equal>>) = 1 /\ <<Equal>>[1] = Equal  BY OneChar DEF Marks
  <2>2. Len(nm) \in Nat /\ Len(nm) + 1 \in Nat  BY <1>3
  <2>3. Part(h, st + 0, nm)  BY <1>2, <1>4, <1>6, <1>10, PartOfPart
  <2>4. Part(h, st + Len(nm), <<Equal>>)  BY <1>2, <1>4, <1>6, <1>10, <2>1, <2>2, PartOfPart
  <2>5. Part(h, st + (Len(nm) + 1), vl)  BY <1>2, <1>4, <1>6, <1>10, <2>2, PartOfPart
  <2>6. st + 0 = st /\ st + (Len(nm) + 1) = eq /\ (st + Len(nm)) + 1 = eq  BY <1>3, <1>6, <1>7
  <2>7. h[(st + Len(nm)) + 1] = <<Equal>>[1]
    <3>1. 1 \in 1 .. Len(<<Equal>>)  BY <2>1
    <3> QED  BY <2>4, <3>1 DEF Part
  <2> QED  BY <2>1, <2>3, <2>5, <2>6, <2>7
<1>16. SubSeq(h, st + 1, eq - 1) = nm /\ SubSeq(h, eq + 1, en) = vl
  <2>1. eq - 1 = st + Len(nm) /\ eq \in Nat /\ en = eq + Len(vl)  BY <1>3, <1>6, <1>7
  <2>2. SubSeq(h, st + 1, st + Len(nm)) = nm  BY <1>2, <1>4, <1>6, <1>15, PartOf
  <2>3. SubSeq(h, eq + 1, eq + Len(vl)) = vl  BY <1>2, <1>4, <1>15, <2>1, PartOf
  <2> QED  BY <2>1, <2>2, <2>3
<1>17. ASSUME NEW j \in st + 1 .. eq - 1 PROVE h[j] \notin Marks
  <2>1. j - st \in 1 .. Len(nm) /\ st + (j - st) = j  BY <1>3, <1>6, <1>7
  <2>2. h[st + (j - st)] = nm[j - st]  BY <1>15, <2>1 DEF Part
  <2> QED  BY <1>11, <2>1, <2>2
<1>18. ASSUME NEW j \in eq + 1 .. en PROVE h[j] \notin Marks
  <2>1. j - eq \in 1 .. Len(vl) /\ eq + (j - eq) = j  BY <1>3, <1>6, <1>7
  <2>2. h[eq + (j - eq)] = vl[j - eq]  BY <1>15, <2>1 DEF Part
  <2> QED  BY <1>12, <2>1, <2>2
<1>19. eq \in Nat /\ st + 1 < eq /\ en = eq + Len(vl)  BY <1>3, <1>6, <1>7
<1>20. en <= Len(h)  BY <1>5, <1>6, <1>15, <1>19 DEF Part
<1>21. Laid(ps, k, sep, h, st, eq, en)
  BY <1>3, <1>4, <1>5, <1>6, <1>7, <1>8, <1>9, <1>14, <1>15, <1>16, <1>17, <1>18, <1>19, <1>20
  DEF Laid
<1> QED  BY <1>13, <1>21 DEF h, st, eq, en

\* When another cookie follows.
LEMMA LayoutNext ==
  ASSUME NEW ps \in Pairs, NEW sep \in Separators, NEW k \in 1 .. Len(ps), k < Len(ps)
  PROVE  /\ k + 1 \in 1 .. Len(ps)
         /\ LaidAfter(sep, Header(ps, sep), End(ps, k, sep), Start(ps, k + 1, sep))
         /\ End(ps, k, sep) < Len(Header(ps, sep)) /\ Start(ps, k + 1, sep) < Len(Header(ps, sep))
<1> DEFINE m == k + 1
           h  == Header(ps, sep)
           st == Start(ps, m, sep)
           eq == Equals(ps, m, sep)
           en == End(ps, m, sep)
<1>1. Len(ps) \in Nat  BY UpToEnds
<1>2. m \in 1 .. Len(ps) /\ m > 1 /\ m - 1 = k  BY <1>1
<1> HIDE DEF m
<1>3. Laid(ps, m, sep, h, st, eq, en) /\ LaidAfter(sep, h, End(ps, m - 1, sep), st)
  BY <1>2, Layout
<1>4. LaidAfter(sep, h, End(ps, k, sep), st)  BY <1>2, <1>3
<1> HIDE DEF h, st, eq, en
<1>5. /\ Len(h) \in Nat /\ st \in Nat /\ eq \in Nat /\ en \in Nat /\ st + 1 < eq
      /\ en = eq + Len(ps[m][2]) /\ Len(ps[m][2]) \in Nat /\ en <= Len(h)
  BY <1>3 DEF Laid
<1>6. End(ps, k, sep) \in Nat /\ st = End(ps, k, sep) + Len(sep) /\ Len(sep) \in Nat
  BY <1>4 DEF LaidAfter
<1>7. st < Len(h) /\ End(ps, k, sep) < Len(h)
  <2>1. st < Len(h)  BY <1>5
  <2> QED  BY <1>5, <1>6, <2>1
<1> QED  BY <1>2, <1>4, <1>7 DEF m, h, st

\* The members up to cookie k: those before it and its own.
LEMMA MembersGrow ==
  ASSUME NEW ps \in Pairs, NEW sep \in Separators, NEW k \in 1 .. Len(ps)
  PROVE  /\ Before(ps, k) \in Text /\ MembersUpTo(ps, k) = Before(ps, k) \o Member(ps[k])
         /\ k = 1 => Before(ps, k) = <<>>
         /\ k = Len(ps) => MembersUpTo(ps, k) = Members(ps)
         /\ k < Len(ps) => Before(ps, k + 1) = MembersUpTo(ps, k) \o <<Comma>>
         /\ Part(Members(ps), 0, MembersUpTo(ps, k))
<1> DEFINE n == Len(ps)
           F == [m \in 0 .. n |-> MembersUpTo(ps, m)]
           comma == <<Comma>>
<1>1. n \in Nat /\ MembersUpTo(ps, 0) = <<>> /\ MembersUpTo(ps, n) = Members(ps)
  BY UpToEnds
<1>2. \A m \in 1 .. n : Member(ps[m]) \in Text
  BY UpToGrows, PairType
<1>3. comma \in Text  BY OneChar DEF Marks
<1>4. ASSUME NEW m \in 1 .. n
      PROVE  /\ Before(ps, m) \in Text /\ MembersUpTo(ps, m) \in Text /\ MembersUpTo(ps, m - 1) \in Text
             /\ MembersUpTo(ps, m) = Before(ps, m) \o Member(ps[m])
             /\ \E t \in Text : MembersUpTo(ps, m) = MembersUpTo(ps, m - 1) \o t
  <2>1. MembersUpTo(ps, m) \in Text /\ MembersUpTo(ps, m - 1) \in Text  BY UpToStep
  <2>2. Member(ps[m]) \in Text  BY <1>2
  <2>3. CASE m = 1
    <3>1. MembersUpTo(ps, m) = Member(ps[m])
      <4>1. m = 1 => MembersUpTo(ps, m) = Member(ps[m])  BY UpToStep
      <4> QED  BY <2>3, <4>1
    <3>2. m - 1 = 0  BY <2>3
    <3>3. MembersUpTo(ps, m - 1) = <<>>  BY <1>1, <3>2
    <3>4. Before(ps, m) = <<>> /\ <<>> \in Text  BY <2>3 DEF Before, Text
    <3>5. <<>> \o Member(ps[m]) = Member(ps[m])  BY <2>2, TextSeq
    <3> QED  BY <2>1, <2>2, <3>1, <3>3, <3>4, <3>5
  <2>4. CASE m > 1
    <3>1. MembersUpTo(ps, m) = MembersUpTo(ps, m - 1) \o (comma \o Member(ps[m]))
      BY <2>4, UpToStep
    <3>0. m # 1  BY <1>1, <2>4
    <3>2. Before(ps, m) = MembersUpTo(ps, m - 1) \o comma  BY <3>0 DEF Before
    <3> HIDE DEF comma
    <3>3. comma \o Member(ps[m]) \in Text /\ MembersUpTo(ps, m - 1) \o comma \in Text
      BY <1>3, <2>1, <2>2, TextConcat
    <3>4. MembersUpTo(ps, m - 1) \o (comma \o Member(ps[m]))
            = (MembersUpTo(ps, m - 1) \o comma) \o Member(ps[m])
      BY <1>3, <2>1, <2>2, TextAssoc
    <3> QED  BY <2>1, <3>1, <3>2, <3>3, <3>4
  <2>5. m = 1 \/ m > 1  BY <1>1
  <2> QED  BY <2>3, <2>4, <2>5
<1>5. \A m \in 0 .. n : F[m] \in Text
  <2> SUFFICES ASSUME NEW m \in 0 .. n PROVE F[m] \in Text  OBVIOUS
  <2>1. F[m] = MembersUpTo(ps, m)  OBVIOUS
  <2>2. CASE m = 0
    <3>1. <<>> \in Text  BY DEF Text
    <3> QED  BY <1>1, <2>1, <2>2, <3>1
  <2>3. CASE m \in 1 .. n  BY <1>4, <2>1, <2>3
  <2>4. m = 0 \/ m \in 1 .. n  BY <1>1
  <2> QED  BY <2>2, <2>3, <2>4
<1>6. \A m \in 1 .. n : \E t \in Text : F[m] = F[m - 1] \o t
  <2> SUFFICES ASSUME NEW m \in 1 .. n PROVE \E t \in Text : F[m] = F[m - 1] \o t  OBVIOUS
  <2>1. F[m] = MembersUpTo(ps, m) /\ F[m - 1] = MembersUpTo(ps, m - 1)  BY <1>1
  <2> QED  BY <1>4, <2>1
<1>7. F[k] = MembersUpTo(ps, k) /\ F[n] = Members(ps) /\ k \in 0 .. n  BY <1>1
<1> HIDE DEF F
<1>8. MembersUpTo(ps, k) \in Text /\ Len(MembersUpTo(ps, k)) \in Nat  BY <1>4, TextLen
<1>9. Part(MembersUpTo(ps, k), 0, MembersUpTo(ps, k))  BY <1>8 DEF Part
<1>10. Part(Members(ps), 0, MembersUpTo(ps, k))
  <2>1. Part(F[k], 0, MembersUpTo(ps, k))  BY <1>7, <1>9
  <2>2. Part(F[n], 0, MembersUpTo(ps, k))
    <3> HIDE DEF n
    <3> QED  BY <1>1, <1>5, <1>6, <1>7, <1>8, <2>1, PartOfLast
  <2> QED  BY <1>7, <2>2
<1>11. k < n => Before(ps, k + 1) = MembersUpTo(ps, k) \o comma
  <2>1. k + 1 # 1 /\ (k + 1) - 1 = k  OBVIOUS
  <2> QED  BY <2>1 DEF Before
<1>12. k = 1 => Before(ps, k) = <<>>  BY DEF Before
<1> QED  BY <1>1, <1>4, <1>10, <1>11, <1>12

\* The lengths of all that.
LEMMA MembersLen ==
  ASSUME NEW ps \in Pairs, NEW sep \in Separators, NEW k \in 1 .. Len(ps)
  PROVE  /\ Len(Before(ps, k)) \in Nat /\ Len(Members(ps)) \in Nat
         /\ Len(MembersUpTo(ps, k)) = Len(Before(ps, k)) + Len(ps[k][1]) + Len(ps[k][2]) + 5
         /\ Len(MembersUpTo(ps, k)) <= Len(Members(ps))
         /\ k = 1 => Len(Before(ps, k)) = 0
         /\ k = Len(ps) => Len(MembersUpTo(ps, k)) = Len(Members(ps))
         /\ k < Len(ps) => Len(Before(ps, k + 1)) = Len(MembersUpTo(ps, k)) + 1
<1>1. Before(ps, k) \in Text /\ MembersUpTo(ps, k) = Before(ps, k) \o Member(ps[k])
  BY MembersGrow
<1>2. ps[k] \in Names \X Values  BY UpToGrows
<1>3. Member(ps[k]) \in Text /\ Len(Member(ps[k])) = Len(ps[k][1]) + Len(ps[k][2]) + 5
  BY <1>2, PairType
<1>4. Len(ps[k][1]) \in Nat /\ Len(ps[k][2]) \in Nat  BY <1>2, PairType, TextLen
<1>5. /\ Len(Before(ps, k)) \in Nat /\ MembersUpTo(ps, k) \in Text
      /\ Len(MembersUpTo(ps, k)) = Len(Before(ps, k)) + Len(Member(ps[k]))
  <2> DEFINE b == Before(ps, k)
             m == Member(ps[k])
  <2>1. b \in Text /\ m \in Text /\ MembersUpTo(ps, k) = b \o m  BY <1>1, <1>3
  <2> HIDE DEF b, m
  <2>2. b \o m \in Text /\ Len(b \o m) = Len(b) + Len(m) /\ Len(b) \in Nat  BY <2>1, TextConcat
  <2> QED  BY <2>1, <2>2 DEF b, m
<1>6. Len(Members(ps)) \in Nat  BY UpToEnds, TextLen
<1>7. k = 1 => Len(Before(ps, k)) = 0
  <2>1. k = 1 => Before(ps, k) = <<>>  BY MembersGrow
  <2>2. Len(<<>>) = 0  OBVIOUS
  <2> QED  BY <2>1, <2>2
<1>8. k < Len(ps) => Len(Before(ps, k + 1)) = Len(MembersUpTo(ps, k)) + 1
  <2>1. <<Comma>> \in Text /\ Len(<<Comma>>) = 1  BY OneChar DEF Marks
  <2>2. Len(MembersUpTo(ps, k) \o <<Comma>>) = Len(MembersUpTo(ps, k)) + 1
    BY <1>5, <2>1, TextConcat
  <2>3. k < Len(ps) => Before(ps, k + 1) = MembersUpTo(ps, k) \o <<Comma>>  BY MembersGrow
  <2> QED  BY <2>2, <2>3
<1>9. k = Len(ps) => MembersUpTo(ps, k) = Members(ps)  BY MembersGrow
<1>10. Len(MembersUpTo(ps, k)) <= Len(Members(ps))
  <2> DEFINE l == Len(MembersUpTo(ps, k))
             m == Len(Members(ps))
  <2>1. l \in Nat  BY <1>5, TextLen
  <2>2. 0 + l <= m  BY MembersGrow DEF Part
  <2> HIDE DEF l, m
  <2>3. l <= m  BY <2>1, <2>2
  <2> QED  BY <2>3 DEF l, m
<1>11. Len(MembersUpTo(ps, k)) = Len(Before(ps, k)) + Len(ps[k][1]) + Len(ps[k][2]) + 5
  <2> DEFINE u == Len(MembersUpTo(ps, k))
             b == Len(Before(ps, k))
             m == Len(Member(ps[k]))
             x == Len(ps[k][1])
             y == Len(ps[k][2])
  <2>1. u = b + m /\ m = x + y + 5 /\ b \in Nat /\ x \in Nat /\ y \in Nat  BY <1>3, <1>4, <1>5
  <2> HIDE DEF u, b, m, x, y
  <2>2. u = b + x + y + 5  BY <2>1
  <2> QED  BY <2>2 DEF u, b, x, y
<1>12. k = Len(ps) => Len(MembersUpTo(ps, k)) = Len(Members(ps))  BY <1>9
<1> QED  BY <1>5, <1>6, <1>7, <1>8, <1>10, <1>11, <1>12, Zenon

-----------------------------------------------------------------------------
(* The inductive invariant.                                                *)

\* Character j of the header is of cookie k: of the blanks before its name, of the
\* name, or the '='; or of its value, or the character after it.
AtName(ps, sep, k, j)  == j \in (IF k = 1 THEN 1 ELSE End(ps, k - 1, sep) + 2) .. Equals(ps, k, sep)
AtValue(ps, sep, k, j) == j \in Equals(ps, k, sep) + 1 .. End(ps, k, sep) + 1

\* A ';' was passed, and no character of the name.
Marked(ps, sep, k, j) == k > 1 /\ j <= Start(ps, k, sep) + 1

\* The first loop is at character j of cookie k: the value m of mark, and n, what it
\* has counted for the characters before.
CountAt(ps, sep, k, j, m, n) ==
  \/ /\ AtName(ps, sep, k, j) /\ (m <=> Marked(ps, sep, k, j))
     /\ j <= Start(ps, k, sep) => n = Len(Before(ps, k))
     /\ j > Start(ps, k, sep) => n = Len(Before(ps, k)) + (j - 1 - Start(ps, k, sep))
  \/ /\ AtValue(ps, sep, k, j) /\ ~m
     /\ n = Len(Before(ps, k)) + Len(ps[k][1]) + 5 + (j - 1 - Equals(ps, k, sep))

\* A turn of the first loop at character j goes on to character j + 1 of the same
\* cookie, or to the blanks before the name of the next one, with the count that
\* belongs there.
LEMMA CountStep ==
  ASSUME NEW ps \in Pairs, NEW sep \in Separators, NEW k \in 1 .. Len(ps),
         NEW h, h = Header(ps, sep), NEW j \in Nat, j <= Len(h),
         NEW m \in BOOLEAN, NEW n \in Int, CountAt(ps, sep, k, j, m, n),
         NEW m2 \in BOOLEAN, m2 <=> (h[j] = Semicolon \/ (m /\ h[j] \in {Equal, Blank})),
         NEW n2 \in Int,
         h[j] = Equal => n2 = n + 5,
         h[j] = Blank /\ m => n2 = n,
         h[j] # Equal /\ ~(h[j] = Blank /\ m) => n2 = n + 1
  PROVE  \E k2 \in 1 .. Len(ps) : CountAt(ps, sep, k2, j + 1, m2, n2)
<1> DEFINE st == Start(ps, k, sep)
           eq == Equals(ps, k, sep)
           en == End(ps, k, sep)
           e  == End(ps, k - 1, sep)
           nm == Len(ps[k][1])
           vl == Len(ps[k][2])
           b  == Len(Before(ps, k))
<1>1. Laid(ps, k, sep, h, st, eq, en)  BY Layout
<1>2. k > 1 => LaidAfter(sep, h, e, st)  BY Layout
<1>3. b \in Nat  BY MembersLen
<1>4. \/ /\ j \in (IF k = 1 THEN 1 ELSE e + 2) .. eq /\ (m <=> (k > 1 /\ j <= st + 1))
         /\ j <= st => n = b
         /\ j > st => n = b + (j - 1 - st)
      \/ /\ j \in eq + 1 .. en + 1 /\ ~m
         /\ n = b + nm + 5 + (j - 1 - eq)
  BY DEF CountAt, AtName, AtValue, Marked
<1>5. ASSUME \/ /\ j + 1 \in (IF k = 1 THEN 1 ELSE e + 2) .. eq
                /\ m2 <=> (k > 1 /\ j + 1 <= st + 1)
                /\ j + 1 <= st => n2 = b
                /\ j + 1 > st => n2 = b + (j - st)
             \/ /\ j + 1 \in eq + 1 .. en + 1 /\ ~m2
                /\ n2 = b + nm + 5 + (j - eq)
      PROVE  CountAt(ps, sep, k, j + 1, m2, n2)
  <2>1. (j + 1) - 1 - st = j - st /\ (j + 1) - 1 - eq = j - eq
    <3>1. st \in Nat /\ eq \in Nat  BY <1>1 DEF Laid
    <3> HIDE DEF st, eq
    <3> QED  BY <3>1
  <2> QED  BY <1>5, <2>1 DEF CountAt, AtName, AtValue, Marked
<1> HIDE DEF st, eq, en, e, nm, vl, b
<1>6. /\ Len(h) \in Nat /\ st \in Nat /\ eq \in Nat /\ en \in Nat
      /\ nm \in Nat /\ vl \in Nat /\ st + 1 < eq
      /\ eq = st + nm + 1 /\ en = eq + vl /\ en <= Len(h)
  BY <1>1 DEF Laid, nm, vl
<1>7. /\ \A x \in st + 1 .. eq - 1 : h[x] \notin {Equal, Semicolon, Blank}
      /\ \A x \in eq + 1 .. en : h[x] \notin {Equal, Semicolon, Blank}
      /\ h[eq] = Equal
  BY <1>1 DEF Laid, Marks
<1>8. k > 1 => e \in Nat /\ st > e /\ \A x \in e + 2 .. st : h[x] = Blank
  <2>1. CASE k > 1
    <3>1. /\ e \in Nat /\ st = e + Len(sep) /\ Len(sep) \in Nat /\ Len(sep) > 0
          /\ \A x \in e + 2 .. st : h[x] = Blank
      BY <1>2, <2>1 DEF LaidAfter
    <3>2. st > e  BY <3>1
    <3> QED  BY <3>1, <3>2
  <2> QED  BY <2>1
<1>9. (k = 1 => st = 0) /\ (k # 1 => k > 1) /\ (k = Len(ps) => en = Len(h))
  <2>1. k # 1 => k > 1  BY UpToEnds
  <2> QED  BY <1>1, <2>1 DEF Laid
<1>10. CASE j <= st
  <2>1. k > 1 /\ j \in e + 2 .. st /\ m /\ n = b  BY <1>4, <1>6, <1>8, <1>9, <1>10
  <2>2. h[j] = Blank /\ m2 /\ n2 = n  BY <1>8, <2>1
  <2>3. /\ j + 1 \in e + 2 .. eq /\ k # 1 /\ j + 1 <= st + 1
        /\ n2 = b /\ (j + 1 > st => n2 = b + (j - st))
    BY <1>3, <1>6, <1>8, <1>10, <2>1, <2>2
  <2> QED  BY <1>5, <2>1, <2>2, <2>3
<1>11. CASE j > st /\ j < eq
  <2>1. h[j] \notin {Equal, Semicolon, Blank} /\ n = b + (j - 1 - st)  BY <1>4, <1>6, <1>7, <1>11
  <2>2. ~m2 /\ n2 = b + (j - st)  BY <1>3, <1>6, <2>1
  <2>3. j + 1 \in (IF k = 1 THEN 1 ELSE e + 2) .. eq /\ ~(j + 1 <= st + 1) /\ ~(j + 1 <= st)
    BY <1>6, <1>8, <1>9, <1>11
  <2> QED  BY <1>5, <2>2, <2>3
<1>12. CASE j = eq
  <2>1. h[j] = Equal /\ ~m /\ n = b + (j - 1 - st)  BY <1>4, <1>6, <1>7, <1>12
  <2>2. ~m2 /\ n2 = n + 5  BY <2>1, MarksDiffer
  <2>3. j + 1 \in eq + 1 .. en + 1 /\ n2 = b + nm + 5 + (j - eq)
    BY <1>3, <1>6, <1>12, <2>1, <2>2
  <2> QED  BY <1>5, <2>2, <2>3
<1>13. CASE j > eq /\ j <= en
  <2>1. h[j] \notin {Equal, Semicolon, Blank} /\ n = b + nm + 5 + (j - 1 - eq)
    BY <1>4, <1>6, <1>7, <1>13
  <2>2. ~m /\ ~m2 /\ n2 = b + nm + 5 + (j - eq)
    BY <1>3, <1>4, <1>6, <1>13, <2>1
  <2>3. j + 1 \in eq + 1 .. en + 1  BY <1>6, <1>13
  <2> QED  BY <1>5, <2>2, <2>3
<1>14. CASE j > en
  <2> DEFINE q   == k + 1
             st2 == Start(ps, q, sep)
             eq2 == Equals(ps, q, sep)
             en2 == End(ps, q, sep)
             b2  == Len(Before(ps, q))
             l   == Len(sep)
  <2>1. j = en + 1 /\ ~m /\ n = b + nm + 5 + (j - 1 - eq)  BY <1>4, <1>6, <1>14
  <2>2. k < Len(ps)
    <3>1. Len(ps) \in Nat  BY UpToEnds
    <3> QED  BY <1>6, <1>9, <2>1, <3>1
  <2>3. q \in 1 .. Len(ps) /\ LaidAfter(sep, h, en, st2)  BY <2>2, LayoutNext DEF en
  <2>4. Laid(ps, q, sep, h, st2, eq2, en2)  BY <2>3, Layout
  <2>5. b2 = b + nm + vl + 6
    <3>1. /\ Len(MembersUpTo(ps, k)) = b + nm + vl + 5
          /\ b2 = Len(MembersUpTo(ps, k)) + 1
      BY <2>2, MembersLen DEF b, nm, vl
    <3> QED  BY <1>3, <1>6, <3>1
  <2>6. End(ps, q - 1, sep) = en /\ q # 1 /\ q > 1  BY <2>3 DEF en
  <2>7. ASSUME j + 1 \in en + 2 .. eq2, m2, j + 1 <= st2 + 1, n2 = b2, j + 1 > st2 => j = st2
        PROVE  CountAt(ps, sep, q, j + 1, m2, n2)
    <3>1. b2 \in Nat  BY <2>3, MembersLen
    <3>2. Marked(ps, sep, q, j + 1)  BY <2>6, <2>7 DEF Marked
    <3>3. AtName(ps, sep, q, j + 1)  BY <2>6, <2>7 DEF AtName
    <3>4. j + 1 > st2 => n2 = b2 + ((j + 1) - 1 - st2)
      <4> HIDE DEF st2, b2
      <4> QED  BY <2>7, <3>1
    <3> QED  BY <2>7, <3>2, <3>3, <3>4 DEF CountAt
  <2> HIDE DEF q, st2, eq2, en2, b2, l
  <2>8. h[j] = Semicolon /\ st2 = en + l /\ l \in Nat /\ l > 0
    BY <2>1, <2>3 DEF LaidAfter, l
  <2>9. st2 \in Nat /\ eq2 \in Nat /\ st2 + 1 < eq2  BY <2>4 DEF Laid
  <2>10. m2 /\ n2 = n + 1  BY <2>8, MarksDiffer
  <2>11. n2 = b2  BY <1>3, <1>6, <2>1, <2>5, <2>10
  <2>12. j + 1 \in en + 2 .. eq2 /\ j + 1 <= st2 + 1 /\ (j + 1 > st2 => j = st2)
    BY <1>6, <2>1, <2>8, <2>9
  <2>13. CountAt(ps, sep, q, j + 1, m2, n2)  BY <2>7, <2>10, <2>11, <2>12
  <2> QED  BY <2>3, <2>13
<1> QED  BY <1>6, <1>10, <1>11, <1>12, <1>13, <1>14
-----------------------------------------------------------------------------
\* The text of the members before cookie k and of its name.
UpToName(ps, k) == <<Brace>> \o Before(ps, k) \o Quoted(ps[k][1]) \o <<Colon>>

\* A quote, a text and a quote, one after the other.
LEMMA QuotedAppend ==
  ASSUME NEW t \in Text, NEW s \in Text
  PROVE  /\ Quoted(s) \in Text /\ t \o Quoted(s) \in Text
         /\ t \o <<Quote>> \o s \o <<Quote>> = t \o Quoted(s)
<1> DEFINE q == <<Quote>>
<1>1. q \in Text  BY OneChar DEF Marks
<1> HIDE DEF q
<1>2. q \o s \in Text /\ t \o q \in Text  BY <1>1, TextConcat
<1>3. (q \o s) \o q \in Text  BY <1>1, <1>2, TextConcat
<1>4. t \o ((q \o s) \o q) = (t \o (q \o s)) \o q  BY <1>1, <1>2, TextAssoc
<1>5. t \o (q \o s) = (t \o q) \o s  BY <1>1, TextAssoc
<1>6. t \o ((q \o s) \o q) \in Text  BY <1>3, TextConcat
<1> QED  BY <1>3, <1>4, <1>5, <1>6 DEF q, Quoted

\* The value after the name completes the member.
LEMMA MemberWhole ==
  ASSUME NEW ps \in Pairs, NEW sep \in Separators, NEW k \in 1 .. Len(ps)
  PROVE  /\ <<Brace>> \o Before(ps, k) \in Text /\ UpToName(ps, k) \in Text
         /\ ps[k][1] \in Text /\ ps[k][2] \in Text /\ <<Brace>> \o MembersUpTo(ps, k) \in Text
         /\ UpToName(ps, k) \o Quoted(ps[k][2]) = <<Brace>> \o MembersUpTo(ps, k)
<1> DEFINE br == <<Brace>>
           co == <<Colon>>
           b  == Before(ps, k)
           nm == ps[k][1]
           vl == ps[k][2]
           qn == Quoted(nm)
           qv == Quoted(vl)
<1>1. b \in Text /\ MembersUpTo(ps, k) = b \o Member(ps[k])  BY MembersGrow
<1>2. nm \in Text /\ vl \in Text  BY UpToGrows, PairType
<1>3. qn \in Text /\ qv \in Text  BY <1>2, QuotedAppend
<1>4. br \in Text /\ co \in Text  BY OneChar DEF Marks
<1>5. Member(ps[k]) = (qn \o co) \o qv  BY DEF Member
<1>6. UpToName(ps, k) = ((br \o b) \o qn) \o co  BY DEF UpToName
<1> HIDE DEF br, co, b, qn, qv, nm, vl
<1>7. br \o b \in Text /\ qn \o co \in Text  BY <1>1, <1>3, <1>4, TextConcat
<1>8. (br \o b) \o qn \in Text /\ (qn \o co) \o qv \in Text  BY <1>3, <1>7, TextConcat
<1>9. ((br \o b) \o qn) \o co \in Text /\ b \o ((qn \o co) \o qv) \in Text
  BY <1>1, <1>4, <1>8, TextConcat
<1>10. (br \o b) \o (qn \o co) = ((br \o b) \o qn) \o co
  <2> DEFINE x == br \o b
  <2>1. x \in Text  BY <1>7
  <2> HIDE DEF x
  <2>2. x \o (qn \o co) = (x \o qn) \o co  BY <1>3, <1>4, <2>1, TextAssoc
  <2> QED  BY <2>2 DEF x
<1>11. (br \o b) \o ((qn \o co) \o qv) = ((br \o b) \o (qn \o co)) \o qv
  BY <1>3, <1>7, TextAssoc
<1>12. br \o (b \o ((qn \o co) \o qv)) = (br \o b) \o ((qn \o co) \o qv)
  BY <1>1, <1>4, <1>8, TextAssoc
<1>13. UpToName(ps, k) \o qv = br \o MembersUpTo(ps, k)
  BY <1>1, <1>5, <1>6, <1>10, <1>11, <1>12, Zenon
<1>14. br \o (b \o ((qn \o co) \o qv)) \in Text  BY <1>4, <1>9, TextConcat
<1>15. UpToName(ps, k) \in Text  BY <1>6, <1>9, Zenon
<1>16. br \o MembersUpTo(ps, k) \in Text  BY <1>1, <1>5, <1>14, Zenon
<1> QED  BY <1>2, <1>7, <1>13, <1>15, <1>16 DEF br, b, nm, vl, qv

\* Characters written one after the other.
LEMMA TwoChars ==
  ASSUME NEW C, NEW a \in C, NEW b \in C
  PROVE <<a>> \o <<b>> = <<a,b>>
<1> DEFINE s == <<a>>
   t == <<b>>
   u == <<a,b>>
<1>1. s \in Seq(C) /\ t \in Seq(C) /\ u \in Seq(C) /\ Len(s) = 1 /\ Len(t) = 1 /\ Len(u) = 2
  OBVIOUS
<1>2. s[1] = a /\ t[1] = b /\ u[1] = a /\ u[2] = b  OBVIOUS
<1> HIDE DEF s,t,u
<1>3. s \o t = u
  <2>0. /\ s \o t \in Seq(C) /\ Len(s \o t) = 2
        /\ \A j \in 1 .. 2 : (s \o t)[j] = IF j <= 1 THEN s[j] ELSE t[j - 1]
     BY <1>1, ConcatProperties, 1+1=2
  <2> DEFINE v == s \o t
  <2> HIDE DEF v
  <2>1. v \in Seq(C) /\ Len(v) = 2 /\ v[1] = a /\ v[2] = b  BY <1>2, <2>0 DEF v
  <2>2. \A j \in 1 .. Len(v) : v[j] = u[j]  BY <1>2, <2>1
  <2>3. v = u BY <1>1, <2>1, <2>2, SeqEqual
  <2> QED BY <2>3 DEF v
<1> QED BY <1>3 DEF s,t,u

\* The three characters that ParseCookie copies for an empty value at the end.
LEMMA ThreeChars ==
  ASSUME NEW C, NEW a \in C, NEW b \in C, NEW c \in C
  PROVE <<a>> \o <<b,c>> = <<a,b,c>>
<1> DEFINE s == <<a>>
   t == <<b,c>>
   u == <<a,b,c>>
<1>1. s \in Seq(C) /\ t \in Seq(C) /\ u \in Seq(C) /\ Len(s) = 1 /\ Len(t) = 2 /\ Len(u) = 3
  OBVIOUS
<1>2. s[1] = a /\ t[1] = b /\ t[2] = c /\ u[1] = a /\ u[2] = b /\ u[3] = c OBVIOUS
<1> HIDE DEF s,t,u
<1>3. s \o t = u
  <2>0. /\ s \o t \in Seq(C) /\ Len(s \o t) = 3
        /\ \A j \in 1 .. 3 : (s \o t)[j] = IF j <= 1 THEN s[j] ELSE t[j - 1]
    <3>1. /\ s \o t \in Seq(C) /\ Len(s \o t) = Len(s) + Len(t)
          /\ \A j \in 1 .. Len(s) + Len(t) : (s \o t)[j] = IF j <= Len(s) THEN s[j] ELSE t[j - Len(s)]
      BY <1>1, ConcatProperties, Zenon
    <3> DEFINE v == s \o t
    <3> HIDE DEF v
    <3>2. /\ v \in Seq(C) /\ Len(v) = 3
          /\ \A j \in 1 .. 3 : v[j] = IF j <= 1 THEN s[j] ELSE t[j - 1]
      BY <1>1, <3>1 DEF v
    <3> QED  BY <3>2 DEF v
  <2> DEFINE v == s \o t
  <2> HIDE DEF v
  <2>1. v \in Seq(C) /\ Len(v) = 3 /\ v[1] = a /\ v[2] = b /\ v[3] = c BY <1>2, <2>0 DEF v
  <2>2. \A j \in 1 .. Len(v) : v[j] = u[j]  BY <1>2, <2>1
  <2>3. v = u BY <1>1, <2>1, <2>2, SeqEqual
  <2> QED BY <2>3 DEF v
<1> QED BY <1>3 DEF s,t,u

\* The quotes that end a header whose last value is empty.
LEMMA EmptyValue ==
  ASSUME NEW ps \in Pairs, NEW sep \in Separators, NEW k \in 1 .. Len(ps), ps[k][2] = <<>>
  PROVE  <<Brace>> \o Before(ps, k) \o Quoted(ps[k][1]) \o <<Colon, Quote, Quote>>
           = <<Brace>> \o MembersUpTo(ps, k)
<1> DEFINE t == <<Brace>> \o Before(ps, k) \o Quoted(ps[k][1])
           co == <<Colon>>
           q == <<Quote>>
<1>1. t \in Text  BY MemberWhole, QuotedAppend
<1>2. co \in Text /\ q \in Text  BY OneChar DEF Marks
<1>3. Quoted(<<>>) = <<Quote, Quote>>
  <2>1. q \o <<>> = q
    <3> HIDE DEF q
    <3> QED  BY <1>2, TextSeq, ConcatEmptySeq
  <2>2. q \o q = <<Quote, Quote>>  BY TwoChars
  <2> QED  BY <2>1, <2>2, Zenon DEF Quoted
<1>4. co \o <<Quote, Quote>> = <<Colon, Quote, Quote>>
  <2>1. Colon \in {Colon, Quote} /\ Quote \in {Colon, Quote}  OBVIOUS
  <2> QED  BY <2>1, ThreeChars, Zenon
<1>5. (t \o co) \o Quoted(<<>>) = <<Brace>> \o MembersUpTo(ps, k)  BY MemberWhole DEF UpToName
<1>6. Quoted(<<>>) \in Text
  <2>1. <<>> \in Text  BY DEF Text
  <2> QED  BY <2>1, QuotedAppend
<1> HIDE DEF t
<1>7. t \o (co \o Quoted(<<>>)) = (t \o co) \o Quoted(<<>>)  BY <1>1, <1>2, <1>6, TextAssoc
<1>8. t \o <<Colon, Quote, Quote>> = <<Brace>> \o MembersUpTo(ps, k)
  BY <1>3, <1>4, <1>5, <1>7, Zenon
<1> QED  BY <1>8 DEF t

\* The second loop is at character j of cookie k, or past the last character: the
\* value m of mark, the text t so far, and r, where the present name or value starts.
CopyAt(ps, sep, k, j, m, t, r) ==
  \/ /\ AtName(ps, sep, k, j) /\ (m <=> Marked(ps, sep, k, j))
     /\ t = <<Brace>> \o Before(ps, k)
     /\ ~m => r = Start(ps, k, sep) + 1
  \/ /\ AtValue(ps, sep, k, j) /\ j <= Len(Header(ps, sep)) /\ ~m
     /\ t = UpToName(ps, k)
     /\ r = Equals(ps, k, sep) + 1
  \/ /\ j = Len(Header(ps, sep)) + 1
     /\ t = <<Brace>> \o Members(ps)

\* What one turn does, from j, m, t and r to m2, t2 and r2.
Rest(h, j, r) == SubSeq(h, r, IF j = Len(h) /\ h[j] # Equal THEN j ELSE j - 1)
CopyOne(h, j, m, t, r, m2, t2, r2) ==
  \/ /\ h[j] \in {Equal, Semicolon} \/ j = Len(h)
     /\ r2 = j + 1 /\ (m2 <=> (m \/ (j # Len(h) /\ h[j] # Equal)))
     /\ j # Len(h) /\ h[j] = Equal =>
          t2 = t \o <<Quote>> \o Rest(h, j, r) \o <<Quote>> \o <<Colon>>
     /\ j # Len(h) /\ h[j] # Equal =>
          t2 = t \o <<Quote>> \o Rest(h, j, r) \o <<Quote>> \o <<Comma>>
     /\ j = Len(h) /\ h[j] = Equal =>
          t2 = t \o <<Quote>> \o Rest(h, j, r) \o <<Quote>> \o <<Colon, Quote, Quote>>
     /\ j = Len(h) /\ h[j] # Equal =>
          t2 = t \o <<Quote>> \o Rest(h, j, r) \o <<Quote>> \o <<>>
  \/ /\ h[j] \notin {Equal, Semicolon} /\ j # Len(h) /\ t2 = t
     /\ m /\ h[j] # Blank => r2 = j /\ ~m2
     /\ ~(m /\ h[j] # Blank) => r2 = r /\ (m2 <=> m)

\* A turn of the second loop goes on in the same way, and what it has written is the
\* text that belongs there: a name is cut nowhere, and blanks are left out.
LEMMA CopyStep ==
  ASSUME NEW ps \in Pairs, NEW sep \in Separators, NEW k \in 1 .. Len(ps),
         NEW h, h = Header(ps, sep), NEW j \in Nat, j <= Len(h),
         NEW m \in BOOLEAN, NEW t, NEW r, CopyAt(ps, sep, k, j, m, t, r),
         NEW m2 \in BOOLEAN, NEW t2, NEW r2, CopyOne(h, j, m, t, r, m2, t2, r2)
  PROVE  \E k2 \in 1 .. Len(ps) : CopyAt(ps, sep, k2, j + 1, m2, t2, r2)
<1> DEFINE st == Start(ps, k, sep)
           eq == Equals(ps, k, sep)
           en == End(ps, k, sep)
           e  == End(ps, k - 1, sep)
           nm == ps[k][1]
           vl == ps[k][2]
           t0 == <<Brace>> \o Before(ps, k)
           t1 == UpToName(ps, k)
           tk == <<Brace>> \o MembersUpTo(ps, k)
           end == Len(h)
<1>1. Laid(ps, k, sep, h, st, eq, en)  BY Layout
<1>2. k > 1 => LaidAfter(sep, h, e, st)  BY Layout
<1>3. /\ t0 \in Text /\ t1 \in Text /\ nm \in Text /\ vl \in Text /\ tk \in Text
      /\ t1 \o Quoted(vl) = tk
  BY MemberWhole
<1>4. \/ /\ j \in (IF k = 1 THEN 1 ELSE e + 2) .. eq /\ (m <=> (k > 1 /\ j <= st + 1))
         /\ t = t0
         /\ ~m => r = st + 1
      \/ /\ j \in eq + 1 .. en + 1 /\ ~m /\ t = t1 /\ r = eq + 1
  <2>1. Len(h) \in Nat  BY <1>1 DEF Laid
  <2>2. j # Len(h) + 1  BY <2>1
  <2> QED  BY <2>2 DEF CopyAt, AtName, AtValue, Marked
<1>5. ASSUME \/ /\ j + 1 \in (IF k = 1 THEN 1 ELSE e + 2) .. eq
                /\ m2 <=> (k > 1 /\ j + 1 <= st + 1)
                /\ t2 = t0
                /\ ~m2 => r2 = st + 1
             \/ /\ j + 1 \in eq + 1 .. en + 1 /\ j + 1 <= end /\ ~m2
                /\ t2 = t1 /\ r2 = eq + 1
      PROVE  CopyAt(ps, sep, k, j + 1, m2, t2, r2)
  BY <1>5 DEF CopyAt, AtName, AtValue, Marked
<1>6. ASSUME j = end, k = Len(ps), t2 = tk
      PROVE  CopyAt(ps, sep, k, j + 1, m2, t2, r2)
  <2>1. MembersUpTo(ps, k) = Members(ps)  BY <1>6, MembersGrow
  <2> QED  BY <1>6, <2>1 DEF CopyAt
<1>7. vl = <<>> =>
        t0 \o Quoted(nm) \o <<Colon, Quote, Quote>> = tk
  BY EmptyValue
<1>8. t0 \o Quoted(nm) \o <<Colon>> = t1  BY DEF UpToName
<1>9. SubSeq(h, st + 1, eq - 1) = nm /\ SubSeq(h, eq + 1, en) = vl  BY <1>1 DEF Laid
<1>10. Len(ps[k][1]) = Len(nm) /\ Len(ps[k][2]) = Len(vl) OBVIOUS
<1> HIDE DEF st, eq, en, e, nm, vl, t0, t1, tk, end
<1>11. /\ end \in Nat /\ st \in Nat /\ eq \in Nat /\ en \in Nat
      /\ Len(nm) \in Nat /\ Len(vl) \in Nat /\ st + 1 < eq
      /\ eq = st + Len(nm) + 1 /\ en = eq + Len(vl) /\ en <= end /\ j <= end
  BY <1>1, <1>10 DEF Laid, end
<1>12. /\ \A x \in st + 1 .. eq - 1 : h[x] \notin {Equal, Semicolon, Blank}
       /\ \A x \in eq + 1 .. en : h[x] \notin {Equal, Semicolon, Blank}
       /\ h[eq] = Equal
  BY <1>1 DEF Laid, Marks
<1>13. k > 1 => e \in Nat /\ st > e /\ \A x \in e + 2 .. st : h[x] = Blank
  <2>1. CASE k > 1
    <3>1. /\ e \in Nat /\ st = e + Len(sep) /\ Len(sep) \in Nat /\ Len(sep) > 0
          /\ \A x \in e + 2 .. st : h[x] = Blank
      BY <1>2, <2>1 DEF LaidAfter
    <3>2. st > e  BY <3>1
    <3> QED  BY <3>1, <3>2
  <2> QED  BY <2>1
<1>14. (k = 1 => st = 0) /\ (k # 1 => k > 1) /\ (k = Len(ps) => en = end)
  <2>1. k # 1 => k > 1  BY UpToEnds
  <2> QED  BY <1>1, <2>1 DEF Laid, end
<1>15. en = end => k = Len(ps)
  <2>1. k < Len(ps) => en < end  BY LayoutNext DEF en, end
  <2>2. Len(ps) \in Nat  BY UpToEnds
  <2> QED  BY <1>11, <2>1, <2>2
<1>16. CASE j <= st
  <2>1. k > 1 /\ j \in e + 2 .. st /\ m /\ t = t0 /\ j # end
    BY <1>4, <1>11, <1>13, <1>14, <1>16
  <2>2. h[j] = Blank /\ h[j] \notin {Equal, Semicolon}  BY <1>13, <2>1, MarksDiffer
  <2>3. m2 /\ t2 = t0  BY <2>1, <2>2 DEF CopyOne, end
  <2>4. j + 1 \in e + 2 .. eq /\ k # 1 /\ j + 1 <= st + 1
    <3>1. k # 1 /\ e \in Nat /\ st > e  BY <1>13, <2>1
    <3>2. st \in Nat /\ eq \in Nat /\ st + 1 < eq  BY <1>11
    <3> QED  BY <1>16, <2>1, <3>1, <3>2
  <2> QED  BY <1>5, <2>1, <2>3, <2>4
<1>17. CASE j > st /\ j < eq
  <2>1. h[j] \notin {Equal, Semicolon, Blank} /\ t = t0 /\ j # end
    <3>1. j \in st + 1 .. eq - 1 /\ j \notin eq + 1 .. en + 1 /\ j # end  BY <1>11, <1>17
    <3>2. t = t0  BY <1>4, <3>1
    <3> QED  BY <1>12, <3>1, <3>2
  <2>2. (m <=> (k > 1 /\ j <= st + 1)) /\ (~m => r = st + 1)  BY <1>4, <1>11, <1>17
  <2>3. ~m2 /\ t2 = t0 /\ r2 = st + 1
    <3>1. CASE m
      <4>1. j = st + 1  BY <1>11, <1>17, <2>2, <3>1
      <4> QED  BY <2>1, <3>1, <4>1 DEF CopyOne, end
    <3>2. CASE ~m
      <4> QED  BY <2>1, <2>2, <3>2 DEF CopyOne, end
    <3> QED  BY <3>1, <3>2
  <2>4. j + 1 \in (IF k = 1 THEN 1 ELSE e + 2) .. eq /\ ~(j + 1 <= st + 1)
    <3>1. j + 1 \in st + 1 .. eq /\ ~(j + 1 <= st + 1)  BY <1>11, <1>17
    <3>2. k = 1 => j + 1 \in 1 .. eq  BY <1>11, <3>1
    <3>3. k # 1 => e \in Nat /\ st > e  BY <1>13, <1>14
    <3>4. st \in Nat /\ eq \in Nat  BY <1>11
    <3>5. k # 1 => j + 1 \in e + 2 .. eq  BY <3>1, <3>3, <3>4
    <3> QED  BY <3>1, <3>2, <3>5
  <2> QED  BY <1>5, <2>3, <2>4
<1>18. CASE j = eq
  <2>1. h[j] = Equal /\ ~m /\ t = t0 /\ r = st + 1  BY <1>4, <1>11, <1>12, <1>18
  <2>2. Rest(h, j, r) = nm  BY <1>9, <1>18, <2>1 DEF Rest
  <2>3. ~m2 /\ r2 = eq + 1 /\ t0 \o <<Quote>> \o nm \o <<Quote>> = t0 \o Quoted(nm)
    BY <1>3, <1>18, <2>1, QuotedAppend DEF CopyOne
  <2>4. CASE j = end
    <3>1. en = end /\ Len(vl) = 0  BY <1>11, <1>18, <2>4
    <3>2. vl = <<>>
      <4>1. vl # <<>> => Len(vl) > 0  BY <1>3, TextLen
      <4> QED  BY <3>1, <4>1
    <3>3. t2 = t0 \o <<Quote>> \o nm \o <<Quote>> \o <<Colon, Quote, Quote>>
      BY <2>1, <2>2, <2>4 DEF CopyOne, end
    <3>4. t2 = tk  BY <1>7, <2>3, <3>2, <3>3, Zenon
    <3> QED  BY <1>6, <1>15, <2>4, <3>1, <3>4
  <2>5. CASE j # end
    <3>1. t2 = t0 \o <<Quote>> \o nm \o <<Quote>> \o <<Colon>>
      BY <2>1, <2>2, <2>5 DEF CopyOne, end
    <3>2. t2 = t1  BY <1>8, <2>3, <3>1, Zenon
    <3>3. j + 1 \in eq + 1 .. en + 1 /\ j + 1 <= end  BY <1>11, <1>18, <2>5
    <3> QED  BY <1>5, <2>3, <3>2, <3>3
  <2> QED  BY <2>4, <2>5
<1>19. CASE j > eq /\ j <= en
  <2>1. h[j] \notin {Equal, Semicolon, Blank} /\ ~m /\ t = t1 /\ r = eq + 1
    BY <1>4, <1>11, <1>12, <1>19
  <2>2. CASE j = end
    <3>1. j = en /\ en = end  BY <1>11, <1>19, <2>2
    <3>2. Rest(h, j, r) = vl  BY <1>9, <2>1, <2>2, <3>1 DEF Rest, end
    <3>3. t2 = t1 \o <<Quote>> \o vl \o <<Quote>> \o <<>>
      BY <2>1, <2>2, <3>2 DEF CopyOne, end
    <3>4. t1 \o <<Quote>> \o vl \o <<Quote>> = tk  BY <1>3, QuotedAppend
    <3>5. tk \o <<>> = tk  BY <1>3, TextSeq, ConcatEmptySeq
    <3>6. t2 = tk  BY <3>3, <3>4, <3>5, Zenon
    <3> QED  BY <1>6, <1>15, <2>2, <3>1, <3>6
  <2>3. CASE j # end
    <3>1. ~m2 /\ t2 = t1 /\ r2 = eq + 1  BY <2>1, <2>3 DEF CopyOne, end
    <3>2. j + 1 \in eq + 1 .. en + 1 /\ j + 1 <= end  BY <1>11, <1>19, <2>3
    <3> QED  BY <1>5, <3>1, <3>2
  <2> QED  BY <2>2, <2>3
<1>20. CASE j > en
  <2> DEFINE q   == k + 1
             st2 == Start(ps, q, sep)
             eq2 == Equals(ps, q, sep)
             en2 == End(ps, q, sep)
             l   == Len(sep)
  <2>1. j = en + 1 /\ ~m /\ t = t1 /\ r = eq + 1  BY <1>4, <1>11, <1>20
  <2>2. k < Len(ps)
    <3>1. Len(ps) \in Nat  BY UpToEnds
    <3> QED  BY <1>11, <1>14, <2>1, <3>1
  <2>3. q \in 1 .. Len(ps) /\ LaidAfter(sep, h, en, st2) /\ st2 < end
    BY <2>2, LayoutNext DEF en, end
  <2>4. Laid(ps, q, sep, h, st2, eq2, en2)  BY <2>3, Layout
  <2>5. End(ps, q - 1, sep) = en /\ q # 1 /\ q > 1  BY <2>3 DEF en
  <2>6. <<Brace>> \o Before(ps, q) = tk \o <<Comma>>
    <3>1. Before(ps, q) = MembersUpTo(ps, k) \o <<Comma>>  BY <2>2, MembersGrow
    <3>2. <<Comma>> \in Text /\ <<Brace>> \in Text  BY OneChar DEF Marks
    <3>3. MembersUpTo(ps, k) \in Text  BY UpToStep
    <3>4. <<Brace>> \o (MembersUpTo(ps, k) \o <<Comma>>) = (<<Brace>> \o MembersUpTo(ps, k)) \o <<Comma>>
      <4> DEFINE x == <<Brace>>
                 y == <<Comma>>
      <4>1. x \in Text /\ y \in Text  BY <3>2
      <4> HIDE DEF x, y
      <4>2. x \o (MembersUpTo(ps, k) \o y) = (x \o MembersUpTo(ps, k)) \o y
        BY <3>3, <4>1, TextAssoc
      <4> QED  BY <4>2 DEF x, y
    <3> QED  BY <3>1, <3>4, Zenon DEF tk
  <2>7. ASSUME j + 1 \in en + 2 .. eq2, m2, j + 1 <= st2 + 1, t2 = tk \o <<Comma>>
        PROVE  CopyAt(ps, sep, q, j + 1, m2, t2, r2)
    <3>1. Marked(ps, sep, q, j + 1)  BY <2>5, <2>7 DEF Marked
    <3>2. AtName(ps, sep, q, j + 1)  BY <2>5, <2>7 DEF AtName
    <3>3. t2 = <<Brace>> \o Before(ps, q)  BY <2>6, <2>7, Zenon
    <3> QED  BY <2>7, <3>1, <3>2, <3>3, Zenon DEF CopyAt
  <2> HIDE DEF q, st2, eq2, en2, l
  <2>8. h[j] = Semicolon /\ st2 = en + l /\ l \in Nat /\ l > 0
    BY <2>1, <2>3 DEF LaidAfter, l
  <2>9. st2 \in Nat /\ eq2 \in Nat /\ st2 + 1 < eq2  BY <2>4 DEF Laid
  <2>10. j # end  BY <1>11, <2>1, <2>3, <2>8, <2>9
  <2>11. j - 1 = en  BY <1>11, <2>1
  <2>12. Rest(h, j, r) = vl  BY <1>9, <2>1, <2>10, <2>11 DEF Rest, end
  <2>13. m2 /\ t2 = t1 \o <<Quote>> \o vl \o <<Quote>> \o <<Comma>>
    BY <2>1, <2>8, <2>10, <2>12, MarksDiffer DEF CopyOne, end
  <2>14. t1 \o <<Quote>> \o vl \o <<Quote>> = tk  BY <1>3, QuotedAppend
  <2>15. t2 = tk \o <<Comma>>  BY <2>13, <2>14, Zenon
  <2>16. j + 1 \in en + 2 .. eq2 /\ j + 1 <= st2 + 1
    <3>1. en \in Nat /\ j = en + 1  BY <1>11, <2>1
    <3>2. st2 = en + l /\ l \in Nat /\ l > 0 /\ eq2 \in Nat /\ st2 + 1 < eq2  BY <2>8, <2>9
    <3> QED  BY <3>1, <3>2
  <2>17. CopyAt(ps, sep, q, j + 1, m2, t2, r2)  BY <2>7, <2>13, <2>15, <2>16
  <2> QED  BY <2>3, <2>17
<1> QED  BY <1>11, <1>16, <1>17, <1>18, <1>19, <1>20

-----------------------------------------------------------------------------
(* The inductive invariant.                                                *)

\* What the first loop has counted for the characters it passed.
Counted == (i - 1) + 4 * count_element_pars - element_not_parse

Whole == 2 + Len(Members(pairs))

LoopInv(sep) ==
  /\ cookie = Header(pairs, sep)
  /\ loop = "count" =>
       /\ size_parse = 2 /\ parse = <<>>
       /\ pairs = <<>> => i = 1 /\ Counted = 0
       /\ pairs # <<>> => \E k \in 1 .. Len(pairs) : CountAt(pairs, sep, k, i, mark, Counted)
  /\ loop = "copy" =>
       /\ size_parse = Whole
       /\ pairs = <<>> => i = 1 /\ parse = <<Brace>>
       /\ pairs # <<>> =>
            \E k \in 1 .. Len(pairs) : CopyAt(pairs, sep, k, i, mark, parse, index_last_record)
  /\ loop = "returned" => size_parse = Whole /\ parse = Object(pairs)

TypeInv ==
  /\ pairs \in Pairs /\ plain /\ loop \in {"count", "copy", "returned"}
  /\ i \in Nat /\ mark \in BOOLEAN
  /\ count_element_pars \in Int /\ element_not_parse \in Int

PlainInv == TypeInv /\ \E sep \in Separators : LoopInv(sep)
ParseInv == plain => PlainInv

\* Both loops start at the first cookie.
LEMMA AtFirst ==
  ASSUME NEW ps \in Pairs, NEW sep \in Separators, ps # <<>>
  PROVE  /\ 1 \in 1 .. Len(ps)
         /\ CountAt(ps, sep, 1, 1, FALSE, 0)
         /\ CopyAt(ps, sep, 1, 1, FALSE, <<Brace>>, 1)
<1>1. 1 \in 1 .. Len(ps)
  <2> DEFINE D == Names \X Values
  <2>1. ps \in Seq(D)  BY DEF Pairs
  <2> HIDE DEF D
  <2> QED  BY <2>1
<1>2. Laid(ps, 1, sep, Header(ps, sep), Start(ps, 1, sep), Equals(ps, 1, sep), End(ps, 1, sep))
  BY <1>1, Layout
<1>3. Start(ps, 1, sep) = 0 /\ Equals(ps, 1, sep) \in Nat /\ Equals(ps, 1, sep) > 1
  BY <1>2 DEF Laid
<1>4. AtName(ps, sep, 1, 1) /\ ~Marked(ps, sep, 1, 1)  BY <1>3 DEF AtName, Marked
<1>5. Before(ps, 1) = <<>> /\ Len(Before(ps, 1)) = 0  BY DEF Before
<1>6. CountAt(ps, sep, 1, 1, FALSE, 0)  BY <1>3, <1>4, <1>5 DEF CountAt
<1>7. <<Brace>> \o Before(ps, 1) = <<Brace>>
  <2> DEFINE x == <<Brace>>
  <2>1. x \in Text  BY OneChar DEF Marks
  <2> HIDE DEF x
  <2>2. x \o <<>> = x  BY <2>1, TextSeq, ConcatEmptySeq
  <2> QED  BY <1>5, <2>2 DEF x
<1>8. CopyAt(ps, sep, 1, 1, FALSE, <<Brace>>, 1)
  <2>1. Start(ps, 1, sep) + 1 = 1  BY <1>3
  <2>2. FALSE <=> Marked(ps, sep, 1, 1)  BY <1>4
  <2> QED  BY <1>4, <1>7, <2>1, <2>2, Zenon DEF CopyAt
<1> QED  BY <1>1, <1>6, <1>8

\* Past the last character the counts, and the text, are those of the whole.
LEMMA AtLast ==
  ASSUME NEW ps \in Pairs, NEW sep \in Separators, NEW k \in 1 .. Len(ps), NEW m \in BOOLEAN
  PROVE  /\ \A n \in Int : CountAt(ps, sep, k, Len(Header(ps, sep)) + 1, m, n) => n = Len(Members(ps))
         /\ \A t, r : CopyAt(ps, sep, k, Len(Header(ps, sep)) + 1, m, t, r) =>
              t = <<Brace>> \o Members(ps)
<1> DEFINE h  == Header(ps, sep)
           j  == Len(h) + 1
           st == Start(ps, k, sep)
           eq == Equals(ps, k, sep)
           en == End(ps, k, sep)
           nm == Len(ps[k][1])
           vl == Len(ps[k][2])
           b  == Len(Before(ps, k))
           lm == Len(Members(ps))
           e  == End(ps, k - 1, sep)
<1>1. Laid(ps, k, sep, h, st, eq, en)  BY Layout
<1>2. /\ Len(h) \in Nat /\ st \in Nat /\ eq \in Nat /\ en \in Nat /\ nm \in Nat /\ vl \in Nat
      /\ en = eq + vl /\ en <= Len(h)
  BY <1>1 DEF Laid
<1>3. k < Len(ps) => en < Len(h)  BY LayoutNext
<1>4. ~AtName(ps, sep, k, j)
  <2>1. AtName(ps, sep, k, j) => j <= eq
    <3>1. AtName(ps, sep, k, j) => j \in (IF k = 1 THEN 1 ELSE e + 2) .. eq  BY DEF AtName
    <3> HIDE DEF j, eq, e
    <3> QED  BY <1>2, <3>1
  <2> HIDE DEF h, eq, en
  <2> QED  BY <1>2, <2>1
<1>5. ASSUME NEW n \in Int, CountAt(ps, sep, k, j, m, n) PROVE n = lm
  <2>1. j \in eq + 1 .. en + 1 /\ n = b + nm + 5 + (j - 1 - eq)  BY <1>4, <1>5 DEF CountAt, AtValue
  <2>2. Len(MembersUpTo(ps, k)) = b + nm + vl + 5 /\ b \in Nat  BY MembersLen
  <2>3. k = Len(ps) => Len(MembersUpTo(ps, k)) = lm  BY MembersLen
  <2>4. Len(ps) \in Nat  BY UpToEnds
  <2> HIDE DEF h, eq, en, b, nm, vl, lm
  <2>5. en = Len(h)  BY <1>2, <2>1
  <2>6. k = Len(ps)  BY <1>2, <1>3, <2>4, <2>5
  <2> QED  BY <1>2, <2>1, <2>2, <2>3, <2>5, <2>6
<1>6. ASSUME NEW t, NEW r, CopyAt(ps, sep, k, j, m, t, r) PROVE t = <<Brace>> \o Members(ps)
  <2>1. ~(j <= Len(h))
    <3> HIDE DEF h
    <3> QED  BY <1>2
  <2> HIDE DEF j
  <2> QED  BY <1>4, <1>6, <2>1, Zenon DEF CopyAt, h
<1> QED  BY <1>5, <1>6

\* ParseCookie begins at the first character of the first cookie, with nothing
\* counted and nothing written.
LEMMA InitParseInv == ParseInit => ParseInv
<1> SUFFICES ASSUME ParseInit, plain PROVE PlainInv  BY DEF ParseInv
<1>1. pairs \in Pairs
  <2>1. PICK m \in 0 .. MaxPairs : pairs \in [1 .. m -> Names \X Values]  BY DEF ParseInit
  <2>2. m \in Nat  BY MaxPairsAssumption
  <2> DEFINE D == Names \X Values
  <2>3. pairs \in [1 .. m -> D]  BY <2>1
  <2> HIDE DEF D
  <2>4. pairs \in Seq(D)  BY <2>2, <2>3
  <2> QED  BY <2>4 DEF D, Pairs
<1>2. PICK sep \in Separators : cookie = Header(pairs, sep)  BY DEF ParseInit
<1>3. /\ loop = "count" /\ i = 1 /\ mark = FALSE
      /\ count_element_pars = 0 /\ element_not_parse = 0 /\ size_parse = 2 /\ parse = <<>>
  BY DEF ParseInit
<1>4. Counted = 0  BY <1>3 DEF Counted
<1>5. pairs # <<>> => \E k \in 1 .. Len(pairs) : CountAt(pairs, sep, k, i, mark, Counted)
  BY <1>1, <1>3, <1>4, AtFirst
<1>6. LoopInv(sep)  BY <1>2, <1>3, <1>4, <1>5 DEF LoopInv
<1>7. TypeInv
  <2>1. i \in Nat /\ count_element_pars \in Int /\ element_not_parse \in Int  BY <1>3
  <2>2. mark \in BOOLEAN /\ loop \in {"count", "copy", "returned"}  BY <1>3, Zenon
  <2> QED  BY <1>1, <2>1, <2>2, Zenon DEF TypeInv
<1> QED  BY <1>6, <1>7 DEF PlainInv

\* A turn of the first loop.
LEMMA CountTurnKeeps ==
  ASSUME TypeInv, NEW sep \in Separators, LoopInv(sep), CountTurn
  PROVE  TypeInv' /\ LoopInv(sep)'
<1>1. /\ loop = "count" /\ i <= Len(cookie) /\ i' = i + 1
      /\ UNCHANGED <<plain, pairs, cookie, loop, size_parse, parse>>
  BY DEF CountTurn, request
<1>2. /\ pairs \in Pairs /\ plain /\ i \in Nat /\ mark \in BOOLEAN
      /\ count_element_pars \in Int /\ element_not_parse \in Int
  BY DEF TypeInv
<1>3. /\ mark' = (cookie[i] = Semicolon \/ (mark /\ cookie[i] \in {Equal, Blank}))
      /\ count_element_pars' = count_element_pars + (IF cookie[i] = Equal THEN 1 ELSE 0)
      /\ element_not_parse' = element_not_parse + (IF cookie[i] = Blank /\ mark THEN 1 ELSE 0)
  BY DEF CountTurn, request
<1>4. /\ cookie = Header(pairs, sep) /\ size_parse = 2 /\ parse = <<>>
      /\ pairs # <<>> => \E k \in 1 .. Len(pairs) : CountAt(pairs, sep, k, i, mark, Counted)
  BY <1>1 DEF LoopInv
<1>5. pairs # <<>>
  <2>1. ASSUME pairs = <<>> PROVE FALSE
    <3>1. Len(cookie) = 0  BY <1>2, <1>4, <2>1, UpToEnds
    <3>2. i = 1  BY <1>1, <2>1 DEF LoopInv
    <3> QED  BY <1>1, <3>1, <3>2
  <2> QED  BY <2>1
<1>6. mark' \in BOOLEAN  BY <1>3
<1>7. count_element_pars' \in Int /\ element_not_parse' \in Int /\ i' \in Nat  BY <1>1, <1>2, <1>3
<1>8. Counted \in Int /\ Counted' \in Int  BY <1>2, <1>7 DEF Counted
<1>9. /\ cookie[i] = Equal => Counted' = Counted + 5
      /\ cookie[i] = Blank /\ mark => Counted' = Counted
      /\ cookie[i] # Equal /\ ~(cookie[i] = Blank /\ mark) => Counted' = Counted + 1
  <2>1. CASE cookie[i] = Equal
    <3>1. count_element_pars' = count_element_pars + 1 /\ element_not_parse' = element_not_parse
      BY <1>2, <1>3, <2>1, MarksDiffer
    <3>2. cookie[i] # Blank  BY <2>1, MarksDiffer
    <3> QED  BY <1>1, <1>2, <2>1, <3>1, <3>2 DEF Counted
  <2>2. CASE cookie[i] # Equal /\ cookie[i] = Blank /\ mark
    <3>1. count_element_pars' = count_element_pars /\ element_not_parse' = element_not_parse + 1
      BY <1>2, <1>3, <2>2
    <3> QED  BY <1>1, <1>2, <2>2, <3>1 DEF Counted
  <2>3. CASE cookie[i] # Equal /\ ~(cookie[i] = Blank /\ mark)
    <3>1. count_element_pars' = count_element_pars /\ element_not_parse' = element_not_parse
      BY <1>2, <1>3, <2>3
    <3> QED  BY <1>1, <1>2, <2>3, <3>1 DEF Counted
  <2> QED  BY <2>1, <2>2, <2>3
<1>10. \E k \in 1 .. Len(pairs) : CountAt(pairs, sep, k, i + 1, mark', Counted')
  <2>1. PICK k \in 1 .. Len(pairs) : CountAt(pairs, sep, k, i, mark, Counted)  BY <1>4, <1>5
  <2> DEFINE n == Counted
             n2 == Counted'
             m2 == mark'
             c == cookie[i]
  <2>2. m2 \in BOOLEAN /\ (m2 <=> (c = Semicolon \/ (mark /\ c \in {Equal, Blank})))  BY <1>3, <1>6
  <2> HIDE DEF n, n2, m2
  <2> QED  BY <1>1, <1>2, <1>4, <1>8, <1>9, <2>1, <2>2, CountStep DEF n, n2, m2
<1>11. LoopInv(sep)'  BY <1>1, <1>4, <1>5, <1>10 DEF LoopInv
<1>12. TypeInv'  BY <1>1, <1>2, <1>6, <1>7 DEF TypeInv
<1> QED  BY <1>11, <1>12

\* The end of the first loop: the size of the buffer is that of the JSON object,
\* before anything is copied.
LEMMA ResizeKeeps ==
  ASSUME TypeInv, NEW sep \in Separators, LoopInv(sep), Resize
  PROVE  TypeInv' /\ LoopInv(sep)'
<1>1. /\ loop = "count" /\ i = Len(cookie) + 1 /\ i' = 1 /\ mark' = FALSE /\ loop' = "copy"
      /\ index_last_record' = 1 /\ parse' = <<Brace>> /\ UNCHANGED <<plain, pairs, cookie>>
      /\ size_parse' = size_parse + Len(cookie) + 4 * count_element_pars - element_not_parse
      /\ UNCHANGED <<count_element_pars, element_not_parse>>
  BY DEF Resize, request
<1>2. /\ pairs \in Pairs /\ plain /\ i \in Nat /\ mark \in BOOLEAN
      /\ count_element_pars \in Int /\ element_not_parse \in Int
  BY DEF TypeInv
<1>3. /\ cookie = Header(pairs, sep) /\ size_parse = 2
      /\ pairs = <<>> => Counted = 0
      /\ pairs # <<>> => \E k \in 1 .. Len(pairs) : CountAt(pairs, sep, k, i, mark, Counted)
  BY <1>1 DEF LoopInv
<1>4. Len(cookie) \in Nat /\ Counted \in Int  BY <1>2, <1>3, UpToEnds, TextLen DEF Counted
<1>5. Counted = Len(Members(pairs))
  <2>1. CASE pairs = <<>>
    <3>1. Len(Members(pairs)) = 0  BY <1>2, <2>1, UpToEnds
    <3> QED  BY <1>3, <2>1, <3>1
  <2>2. CASE pairs # <<>>
    <3>1. PICK k \in 1 .. Len(pairs) : CountAt(pairs, sep, k, Len(Header(pairs, sep)) + 1, mark, Counted)
      BY <1>1, <1>3, <2>2
    <3> DEFINE n == Counted
    <3> HIDE DEF n
    <3> QED  BY <1>2, <1>4, <3>1, AtLast DEF n
  <2> QED  BY <2>1, <2>2
<1>6. size_parse' = Whole'
  <2>1. size_parse' = 2 + Counted  BY <1>1, <1>2, <1>3, <1>4 DEF Counted
  <2> QED  BY <1>1, <1>5, <2>1 DEF Whole
<1>7. pairs # <<>> => \E k \in 1 .. Len(pairs) : CopyAt(pairs, sep, k, 1, FALSE, <<Brace>>, 1)
  BY <1>2, AtFirst
<1>8. LoopInv(sep)'  BY <1>1, <1>3, <1>6, <1>7 DEF LoopInv
<1>9. TypeInv'  BY <1>1, <1>2 DEF TypeInv
<1> QED  BY <1>8, <1>9

\* A turn of the second loop is such a turn.
LEMMA TurnIsOne ==
  ASSUME mark \in BOOLEAN, CopyTurn
  PROVE  /\ CopyOne(cookie, i, mark, parse, index_last_record, mark', parse', index_last_record')
         /\ mark' \in BOOLEAN
<1>0. Record = Rest(cookie, i, index_last_record)  BY DEF Record, Rest, AtEnd
<1>1. CASE EndRecord
  <2> DEFINE c   == cookie[i]
             end == i = Len(cookie)
             t   == parse \o <<Quote>> \o Record \o <<Quote>>
             x   == CASE ~AtEnd /\ c = Equal -> <<Colon>>
                      [] ~AtEnd /\ c # Equal -> <<Comma>>
                      [] AtEnd /\ c = Equal  -> <<Colon, Quote, Quote>>
                      [] OTHER               -> <<>>
  <2>1. /\ c \in {Equal, Semicolon} \/ end
        /\ parse' = t \o x /\ index_last_record' = i + 1
        /\ mark' = (mark \/ (~end /\ c # Equal))
    BY <1>1 DEF EndRecord, AtEnd
  <2>2. AtEnd <=> end  BY DEF AtEnd
  <2>3. /\ ~end /\ c = Equal => x = <<Colon>>
        /\ ~end /\ c # Equal => x = <<Comma>>
        /\ end /\ c = Equal => x = <<Colon, Quote, Quote>>
        /\ end /\ c # Equal => x = <<>>
    <3> HIDE DEF c, end
    <3> QED  BY <2>2, Zenon
  <2> HIDE DEF x
  <2>4. mark' \in BOOLEAN /\ (mark' <=> (mark \/ (~end /\ c # Equal)))  BY <2>1, Zenon
  <2> QED  BY <1>0, <2>1, <2>3, <2>4, Zenon DEF CopyOne
<1>2. CASE WithinRecord
  <2>1. cookie[i] \notin {Equal, Semicolon} /\ i # Len(cookie) /\ parse' = parse
    BY <1>2 DEF WithinRecord, AtEnd
  <2>2. CASE mark /\ cookie[i] # Blank
    <3>1. index_last_record' = i /\ mark' = FALSE  BY <1>2, <2>2 DEF WithinRecord
    <3> QED  BY <2>1, <2>2, <3>1, Zenon DEF CopyOne
  <2>3. CASE ~(mark /\ cookie[i] # Blank)
    <3>1. index_last_record' = index_last_record /\ mark' = mark  BY <1>2, <2>3 DEF WithinRecord
    <3> QED  BY <2>1, <2>3, <3>1, Zenon DEF CopyOne
  <2> QED  BY <2>2, <2>3
<1> QED  BY <1>1, <1>2 DEF CopyTurn

\* A turn of the second loop.
LEMMA CopyTurnKeeps ==
  ASSUME TypeInv, NEW sep \in Separators, LoopInv(sep), CopyTurn
  PROVE  TypeInv' /\ LoopInv(sep)'
<1>1. /\ loop = "copy" /\ i <= Len(cookie) /\ i' = i + 1 /\ UNCHANGED <<plain, pairs, cookie>>
      /\ loop' = loop /\ UNCHANGED <<count_element_pars, element_not_parse, size_parse>>
  BY DEF CopyTurn, counts, request
<1>2. /\ pairs \in Pairs /\ plain /\ i \in Nat /\ mark \in BOOLEAN
      /\ count_element_pars \in Int /\ element_not_parse \in Int
  BY DEF TypeInv
<1>3. /\ cookie = Header(pairs, sep) /\ size_parse = Whole
      /\ pairs # <<>> =>
           \E k \in 1 .. Len(pairs) : CopyAt(pairs, sep, k, i, mark, parse, index_last_record)
  BY <1>1 DEF LoopInv
<1>4. pairs # <<>>
  <2>1. ASSUME pairs = <<>> PROVE FALSE
    <3>1. Len(cookie) = 0  BY <1>2, <1>3, <2>1, UpToEnds
    <3>2. i = 1  BY <1>1, <2>1 DEF LoopInv
    <3> QED  BY <1>1, <3>1, <3>2
  <2> QED  BY <2>1
<1>5. CopyOne(cookie, i, mark, parse, index_last_record, mark', parse', index_last_record')
      /\ mark' \in BOOLEAN
  BY <1>2, TurnIsOne
<1>6. \E k \in 1 .. Len(pairs) : CopyAt(pairs, sep, k, i + 1, mark', parse', index_last_record')
  <2>1. PICK k \in 1 .. Len(pairs) : CopyAt(pairs, sep, k, i, mark, parse, index_last_record)
    BY <1>3, <1>4
  <2> DEFINE m2 == mark'
             t2 == parse'
             r2 == index_last_record'
  <2>2. m2 \in BOOLEAN /\ CopyOne(cookie, i, mark, parse, index_last_record, m2, t2, r2)  BY <1>5
  <2> HIDE DEF m2, t2, r2
  <2>3. \E k2 \in 1 .. Len(pairs) : CopyAt(pairs, sep, k2, i + 1, m2, t2, r2)
    BY <1>1, <1>2, <1>3, <2>1, <2>2, CopyStep
  <2> QED  BY <2>3 DEF m2, t2, r2
<1>7. LoopInv(sep)'
  <2>1. Whole' = Whole  BY <1>1 DEF Whole
  <2> QED  BY <1>1, <1>3, <1>4, <1>6, <2>1 DEF LoopInv
<1>8. TypeInv'
  <2>1. i' \in Nat  BY <1>1, <1>2
  <2> QED  BY <1>1, <1>2, <1>5, <2>1 DEF TypeInv
<1> QED  BY <1>7, <1>8

\* The brace at the end makes the text the JSON object of the cookies.
LEMMA CloseKeeps ==
  ASSUME TypeInv, NEW sep \in Separators, LoopInv(sep), Close
  PROVE  TypeInv' /\ LoopInv(sep)'
<1>1. /\ loop = "copy" /\ i = Len(cookie) + 1 /\ loop' = "returned" /\ parse' = Append(parse, EndBrace)
      /\ UNCHANGED <<plain, pairs, cookie, i, mark>>
      /\ UNCHANGED <<count_element_pars, element_not_parse, size_parse>>
  BY DEF Close, counts, request
<1>2. pairs \in Pairs /\ plain /\ mark \in BOOLEAN  BY DEF TypeInv
<1>3. /\ cookie = Header(pairs, sep) /\ size_parse = Whole
      /\ pairs = <<>> => parse = <<Brace>>
      /\ pairs # <<>> =>
           \E k \in 1 .. Len(pairs) : CopyAt(pairs, sep, k, i, mark, parse, index_last_record)
  BY <1>1 DEF LoopInv
<1>4. parse = <<Brace>> \o Members(pairs)
  <2>1. CASE pairs = <<>>
    <3> DEFINE x == <<Brace>>
    <3>1. x \in Text  BY OneChar DEF Marks
    <3>2. Members(pairs) = <<>>  BY <1>2, <2>1, UpToEnds
    <3>3. parse = x  BY <1>3, <2>1
    <3> HIDE DEF x
    <3>4. x \o <<>> = x  BY <3>1, TextSeq, ConcatEmptySeq
    <3>5. parse = x \o Members(pairs)  BY <3>2, <3>3, <3>4, Zenon
    <3> QED  BY <3>5 DEF x
  <2>2. CASE pairs # <<>>
    <3>1. PICK k \in 1 .. Len(pairs) :
            CopyAt(pairs, sep, k, Len(Header(pairs, sep)) + 1, mark, parse, index_last_record)
      BY <1>1, <1>3, <2>2
    <3> QED  BY <1>2, <3>1, AtLast
  <2> QED  BY <2>1, <2>2
<1>5. parse' = Object(pairs)
  <2> DEFINE x == <<Brace>>
             y == x \o Members(pairs)
  <2>1. x \in Text /\ EndBrace \in Chars \cup Marks  BY OneChar DEF Marks
  <2> HIDE DEF x
  <2>2. y \in Text  BY <1>2, <2>1, UpToEnds, TextConcat
  <2>3. parse' = Append(y, EndBrace)  BY <1>1, <1>4 DEF x
  <2> HIDE DEF y
  <2>4. Append(y, EndBrace) = y \o <<EndBrace>>
    <3> DEFINE C == Chars \cup Marks
    <3>1. y \in Seq(C) /\ EndBrace \in C  BY <2>1, <2>2, TextSeq
    <3> HIDE DEF C
    <3> QED  BY <3>1, AppendIsConcat
  <2> QED  BY <2>3, <2>4, Zenon DEF Object, y, x
<1>6. LoopInv(sep)'
  <2>1. Whole' = Whole  BY <1>1 DEF Whole
  <2> QED  BY <1>1, <1>3, <1>5, <2>1 DEF LoopInv
<1>7. TypeInv'  BY <1>1 DEF TypeInv
<1> QED  BY <1>6, <1>7

\* The next request begins like the first one.
LEMMA AgainKeeps ==
  ASSUME TypeInv, NEW sep \in Separators, LoopInv(sep), Again
  PROVE  TypeInv' /\ LoopInv(sep)'
<1>1. /\ loop' = "count" /\ i' = 1 /\ mark' = FALSE /\ count_element_pars' = 0
      /\ element_not_parse' = 0 /\ size_parse' = 2 /\ parse' = <<>>
      /\ UNCHANGED <<plain, pairs, cookie>>
  BY DEF Again, request
<1>2. pairs \in Pairs /\ plain /\ cookie = Header(pairs, sep)  BY DEF TypeInv, LoopInv
<1>3. Counted' = 0  BY <1>1 DEF Counted
<1>4. pairs # <<>> => \E k \in 1 .. Len(pairs) : CountAt(pairs, sep, k, 1, FALSE, 0)
  BY <1>2, AtFirst
<1>5. LoopInv(sep)'  BY <1>1, <1>2, <1>3, <1>4 DEF LoopInv
<1>6. TypeInv'
  <2>1. i' \in Nat /\ count_element_pars' \in Int /\ element_not_parse' \in Int  BY <1>1
  <2>2. mark' \in BOOLEAN /\ loop' \in {"count", "copy", "returned"}  BY <1>1, Zenon
  <2> QED  BY <1>1, <1>2, <2>1, <2>2, Zenon DEF TypeInv
<1> QED  BY <1>5, <1>6

\* The text written so far is never longer than the buffer, because it is what stands
\* before some name or value of the whole text.
LEMMA ObjectFromInv == PlainInv => ObjectOfCookies
<1> SUFFICES ASSUME PlainInv PROVE ObjectOfCookies  OBVIOUS
<1>1. pairs \in Pairs /\ loop \in {"count", "copy", "returned"}  BY DEF PlainInv, TypeInv
<1>2. PICK sep \in Separators : LoopInv(sep)  BY DEF PlainInv
<1>3. Members(pairs) \in Text /\ Len(Members(pairs)) \in Nat  BY <1>1, UpToEnds, TextLen
<1>4. \A s \in Text : <<Brace>> \o s \in Text /\ Len(<<Brace>> \o s) = 1 + Len(s)
  <2>1. <<Brace>> \in Text /\ Len(<<Brace>>) = 1  BY OneChar DEF Marks
  <2> DEFINE x == <<Brace>>
  <2> HIDE DEF x
  <2>2. \A s \in Text : x \o s \in Text /\ Len(x \o s) = 1 + Len(s)
    BY <2>1, TextConcat DEF x
  <2> QED  BY <2>2 DEF x
<1>5. CASE loop = "count"
  <2>1. parse = <<>> /\ size_parse = 2  BY <1>2, <1>5 DEF LoopInv
  <2> QED  BY <1>5, <2>1 DEF ObjectOfCookies, Fits
<1>6. CASE loop = "copy"
  <2>1. size_parse = 2 + Len(Members(pairs))  BY <1>2, <1>6 DEF LoopInv, Whole
  <2>2. Len(parse) <= 2 + Len(Members(pairs))
    <3>1. CASE pairs = <<>>
      <4>1. Len(parse) = 1  BY <1>2, <1>6, <3>1 DEF LoopInv
      <4> QED  BY <1>3, <4>1
    <3>2. CASE pairs # <<>>
      <4>1. PICK k \in 1 .. Len(pairs) : CopyAt(pairs, sep, k, i, mark, parse, index_last_record)
        BY <1>2, <1>6, <3>2 DEF LoopInv
      <4> DEFINE lu == Len(MembersUpTo(pairs, k))
                 lb == Len(Before(pairs, k))
                 lm == Len(Members(pairs))
                 ln == Len(pairs[k][1])
                 lv == Len(pairs[k][2])
      <4>2. lb \in Nat /\ lu <= lm /\ lu = lb + ln + lv + 5  BY <1>1, MembersLen
      <4>3. Before(pairs, k) \in Text /\ pairs[k][1] \in Text /\ pairs[k][2] \in Text
            /\ MembersUpTo(pairs, k) \in Text
        BY <1>1, MemberWhole, MembersGrow, UpToStep
      <4>4. lu \in Nat /\ lm \in Nat /\ ln \in Nat /\ lv \in Nat  BY <1>3, <4>3, TextLen
      <4>5. parse = <<Brace>> \o Before(pairs, k) => Len(parse) = 1 + lb
        BY <1>4, <4>3
      <4>6. parse = <<Brace>> \o Members(pairs) => Len(parse) = 1 + lm
        BY <1>3, <1>4
      <4>7. parse = UpToName(pairs, k) => Len(parse) <= 1 + lu
        <5> DEFINE t == UpToName(pairs, k)
                   v == Quoted(pairs[k][2])
                   w == <<Brace>> \o MembersUpTo(pairs, k)
        <5>1. t \in Text /\ t \o v = w /\ pairs[k][2] \in Text  BY <1>1, MemberWhole
        <5>2. v \in Text  BY <5>1, QuotedAppend
        <5>3. Len(w) = 1 + lu /\ w \in Text  BY <1>4, <4>3
        <5> HIDE DEF t, v, w, lu
        <5>4. Len(t) \in Nat /\ Len(v) \in Nat /\ Len(t \o v) = Len(t) + Len(v)
          BY <5>1, <5>2, TextConcat, TextLen
        <5>5. Len(t) <= 1 + lu  BY <5>1, <5>3, <5>4
        <5> QED  BY <5>5 DEF t
      <4>8. \/ parse = <<Brace>> \o Before(pairs, k)
            \/ parse = UpToName(pairs, k)
            \/ parse = <<Brace>> \o Members(pairs)
        BY <4>1, Zenon DEF CopyAt
      <4> HIDE DEF lu, lb, lm, ln, lv
      <4>9. Len(parse) <= 2 + lm
        <5>2. Len(parse) = 1 + lb \/ Len(parse) <= 1 + lu \/ Len(parse) = 1 + lm
          BY <4>5, <4>6, <4>7, <4>8, Zenon
        <5>3. lb <= lm  BY <4>2, <4>4
        <5> DEFINE lp == Len(parse)
        <5>4. lp \in Nat
          <6>1. parse \in Text  BY <1>1, <1>3, <1>4, <4>8, MembersGrow, MemberWhole
          <6> QED  BY <6>1, TextLen
        <5> HIDE DEF lp
        <5>5. lp = 1 + lb \/ lp <= 1 + lu \/ lp = 1 + lm  BY <5>2 DEF lp
        <5>6. lp <= 2 + lm  BY <4>2, <4>4, <5>3, <5>4, <5>5
        <5> QED  BY <5>6 DEF lp
      <4> QED  BY <4>9 DEF lm
    <3> QED  BY <3>1, <3>2
  <2> QED  BY <1>6, <2>1, <2>2 DEF ObjectOfCookies, Fits
<1>7. CASE loop = "returned"
  <2>1. size_parse = 2 + Len(Members(pairs)) /\ parse = Object(pairs)
    BY <1>2, <1>7 DEF LoopInv, Whole
  <2>2. Len(parse) = 2 + Len(Members(pairs))
    <3> DEFINE x == <<Brace>> \o Members(pairs)
               y == <<EndBrace>>
    <3>1. x \in Text /\ Len(x) = 1 + Len(Members(pairs))  BY <1>3, <1>4
    <3>2. y \in Text /\ Len(y) = 1  BY OneChar DEF Marks
    <3>3. parse = x \o y  BY <2>1 DEF Object
    <3> HIDE DEF x, y
    <3>4. Len(x \o y) = Len(x) + Len(y)  BY <3>1, <3>2, TextConcat
    <3> QED  BY <1>3, <3>1, <3>2, <3>3, <3>4
  <2>3. Len(parse) <= size_parse  BY <1>3, <2>1, <2>2
  <2> QED  BY <1>7, <2>1, <2>2, <2>3 DEF ObjectOfCookies, Fits
<1> QED  BY <1>1, <1>5, <1>6, <1>7

\* So every step of ParseCookie preserves the invariant; the process does not die,
\* as the text keeps within the buffer.
LEMMA NextParseInv == ParseInv /\ [ParseNext]_parseVars => ParseInv'
<1> SUFFICES ASSUME ParseInv, [ParseNext]_parseVars, plain' PROVE PlainInv'  BY DEF ParseInv
<1>0. plain' = plain
  BY DEF ParseNext, parseVars, request, CountTurn, Resize, CopyTurn, Close, Die, Again
<1>1. PlainInv /\ TypeInv  BY <1>0 DEF ParseInv, PlainInv
<1>2. PICK sep \in Separators : LoopInv(sep)  BY <1>1 DEF PlainInv
<1>3. CASE CountTurn  BY <1>1, <1>2, <1>3, CountTurnKeeps DEF PlainInv
<1>4. CASE Resize  BY <1>1, <1>2, <1>4, ResizeKeeps DEF PlainInv
<1>5. CASE CopyTurn  BY <1>1, <1>2, <1>5, CopyTurnKeeps DEF PlainInv
<1>6. CASE Close  BY <1>1, <1>2, <1>6, CloseKeeps DEF PlainInv
<1>7. CASE Again  BY <1>1, <1>2, <1>7, AgainKeeps DEF PlainInv
<1>8. CASE Die
  <2>1. Fits  BY <1>1, ObjectFromInv DEF ObjectOfCookies, TypeInv
  <2> QED  BY <1>8, <2>1 DEF Die
<1>9. CASE UNCHANGED parseVars
  BY <1>1, <1>2, <1>9 DEF parseVars, request, counts, PlainInv, TypeInv, LoopInv, Counted, Whole
<1> QED  BY <1>3, <1>4, <1>5, <1>6, <1>7, <1>8, <1>9 DEF ParseNext

\* At every turn of either loop of ParseCookie the count, and the text written so
\* far, are those that belong to the place in the header, for headers of any
\* number of plain cookies: names and values without '=', ';', blank or quote.
THEOREM ParseInvariance == ParseSpec => []ParseInv
<1>1. ParseInit => ParseInv  BY InitParseInv
<1>2. ParseInv /\ [ParseNext]_parseVars => ParseInv'  BY NextParseInv
<1> QED  BY <1>1, <1>2, PTL DEF ParseSpec

\* For a header of plain cookies ParseCookie's result is their JSON object, exactly
\* as long as the buffer that was made for it, and no turn writes past the buffer.
\* Of other headers it says nothing.
THEOREM CookiesAreObject == ParseSpec => []ObjectOfCookies
<1>1. ParseInv => ObjectOfCookies  BY ObjectFromInv DEF ParseInv, ObjectOfCookies
<1> QED  BY <1>1, ParseInvariance, PTL

-----------------------------------------------------------------------------
(* The size of the text, for a header of any form.                         *)

\* How many of the places in S the loops have passed when they stand at k.
Passed(S, k) == Cardinality({p \in S : p < k})

LEMMA PassOne ==
  ASSUME NEW S, IsFiniteSet(S), S \subseteq Int, NEW k \in Int
  PROVE  /\ Passed(S, k) \in Nat
         /\ k \in S => Passed(S, k + 1) = Passed(S, k) + 1
         /\ k \notin S => Passed(S, k + 1) = Passed(S, k)
<1> DEFINE T == {p \in S : p < k}
           U == {p \in S : p < k + 1}
<1>1. T \in SUBSET S  OBVIOUS
<1>0. IsFiniteSet(T) /\ Cardinality(T) \in Nat
  <2> HIDE DEF T
  <2> QED  BY <1>1, FS_Subset, FS_CardinalityType
<1>2. ASSUME k \in S PROVE Cardinality(U) = Cardinality(T) + 1
  <2>1. \A p \in S : p < k + 1 <=> p < k \/ p = k  OBVIOUS
  <2>2. \A p : p \in U <=> p \in T \cup {k}  BY <1>2, <2>1
  <2>3. k \notin T  OBVIOUS
  <2> HIDE DEF T, U
  <2>4. U = T \cup {k}  BY <2>2
  <2> QED  BY <1>0, <2>3, <2>4, FS_AddElement
<1>3. ASSUME k \notin S PROVE U = T
  <2>1. \A p \in S : p < k + 1 <=> p < k  BY <1>3
  <2> QED  BY <2>1
<1> QED  BY <1>0, <1>2, <1>3 DEF Passed

LEMMA PassAll ==
  ASSUME NEW n \in Nat, NEW S, S \subseteq 1 .. n
  PROVE  IsFiniteSet(S) /\ Passed(S, 1) = 0 /\ Passed(S, n + 1) = Cardinality(S)
<1>1. IsFiniteSet(S)
  <2>1. IsFiniteSet(1 .. n) /\ S \in SUBSET (1 .. n)  BY FS_Interval
  <2> DEFINE I == 1 .. n
  <2> HIDE DEF I
  <2> QED  BY <2>1, FS_Subset DEF I
<1>3. \A p \in S : p \in Int /\ ~(p < 1) /\ p < n + 1  OBVIOUS
<1>2. {p \in S : p < 1} = {} /\ {p \in S : p < n + 1} = S  BY <1>3
<1> QED  BY <1>1, <1>2, FS_EmptySet DEF Passed

\* Passing places that are all in S.
LEMMA PassRange ==
  ASSUME NEW n \in Nat, NEW S, S \subseteq 1 .. n, NEW a \in 1 .. n, NEW b \in a .. n,
         \A p \in a .. b - 1 : p \in S
  PROVE  Passed(S, b) = Passed(S, a) + (b - a)
<1> DEFINE T == {p \in S : p < a}
           U == {p \in S : p < b}
           R == a .. b - 1
<1>1. IsFiniteSet(T) /\ IsFiniteSet(R) /\ Cardinality(R) = b - a
  <2>1. IsFiniteSet(S)  BY PassAll
  <2>2. T \in SUBSET S  OBVIOUS
  <2>3. IsFiniteSet(T)
    <3> HIDE DEF T
    <3> QED  BY <2>1, <2>2, FS_Subset
  <2> QED  BY <2>3, FS_Interval
<1>2. U = T \cup R /\ T \cap R = {}
  <2>1. \A p \in S : p \in Int /\ (p < b <=> p < a \/ p \in R)  OBVIOUS
  <2>2. R \subseteq S /\ \A p \in R : ~(p < a)  OBVIOUS
  <2> HIDE DEF R
  <2>3. \A p : p \in U <=> p \in T \cup R  BY <2>1, <2>2
  <2> QED  BY <2>2, <2>3
<1>3. Cardinality(T) \in Nat  BY <1>1, FS_CardinalityType
<1> HIDE DEF T, U, R
<1>4. Cardinality(U) = Cardinality(T) + Cardinality(R) - 0
  BY <1>1, <1>2, FS_Union, FS_EmptySet
<1> QED  BY <1>1, <1>3, <1>4 DEF Passed, T, U

\* Passing places none of which is in S.
LEMMA PassNone ==
  ASSUME NEW S, S \subseteq Int, NEW a \in Int, NEW b \in Int, a <= b,
         \A p \in a .. b - 1 : p \notin S
  PROVE  Passed(S, b) = Passed(S, a)
<1>1. \A p \in S : p < b <=> p < a  OBVIOUS
<1> QED  BY <1>1 DEF Passed

SkippedIn(h) == {k \in CountedOff(h) : BeforeName(h, k)}

LEMMA Places ==
  ASSUME NEW h \in Text
  PROVE  /\ Len(h) \in Nat
         /\ PartEnds(h) \subseteq 1 .. Len(h) /\ EqualsIn(h) \subseteq 1 .. Len(h)
         /\ CountedOff(h) \subseteq 1 .. Len(h) /\ SkippedIn(h) \subseteq CountedOff(h)
<1>1. Len(h) \in Nat /\ DOMAIN h = 1 .. Len(h)
  <2> DEFINE C == Chars \cup Marks
  <2>1. h \in Seq(C)  BY TextSeq
  <2> HIDE DEF C
  <2> QED  BY <2>1
<1> QED  BY <1>1 DEF PartEnds, EqualsIn, CountedOff, SkippedIn

\* The blanks that are counted off are skipped or stray.
LEMMA SkippedOrStray ==
  ASSUME NEW h \in Text
  PROVE  /\ Cardinality(Stray(h)) = Cardinality(CountedOff(h)) - Cardinality(SkippedIn(h))
         /\ Cardinality(SkippedIn(h)) \in Nat /\ Cardinality(CountedOff(h)) \in Nat
         /\ Cardinality(EqualsIn(h)) \in Nat /\ Cardinality(PartEnds(h)) \in Nat
<1> DEFINE S == Stray(h)
           T == SkippedIn(h)
           C == CountedOff(h)
<1>1. /\ IsFiniteSet(C) /\ IsFiniteSet(EqualsIn(h)) /\ IsFiniteSet(PartEnds(h))
      /\ S \in SUBSET C /\ T \in SUBSET C
  BY Places, PassAll DEF Stray
<1>2. S \cup T = C /\ S \cap T = {}  BY DEF Stray, SkippedIn
<1> HIDE DEF S, T, C
<1>3. IsFiniteSet(S) /\ IsFiniteSet(T)  BY <1>1, FS_Subset
<1>4. Cardinality(C) = Cardinality(S) + Cardinality(T) - 0
  BY <1>2, <1>3, FS_Union, FS_EmptySet
<1> QED  BY <1>1, <1>3, <1>4, FS_CardinalityType DEF S, T, C

\* mark, from one character to the next.
LEMMA MarkStep ==
  ASSUME NEW h \in Text, NEW k \in 1 .. Len(h)
  PROVE  /\ ~AfterSemicolon(h, 1)
         /\ AfterSemicolon(h, k + 1) <=>
              h[k] = Semicolon \/ (AfterSemicolon(h, k) /\ h[k] \in {Equal, Blank})
<1>1. k \in Nat  BY TextLen
<1>2. ~AfterSemicolon(h, 1)  BY DEF AfterSemicolon
<1>3. ASSUME h[k] = Semicolon PROVE AfterSemicolon(h, k + 1)
  BY <1>1, <1>3 DEF AfterSemicolon
<1>4. ASSUME AfterSemicolon(h, k), h[k] \in {Equal, Blank} PROVE AfterSemicolon(h, k + 1)
  <2>1. PICK j \in 1 .. k - 1 :
          h[j] = Semicolon /\ \A l \in j + 1 .. k - 1 : h[l] \in {Equal, Blank}
    BY <1>4 DEF AfterSemicolon
  <2>2. j \in 1 .. (k + 1) - 1 /\ \A l \in j + 1 .. (k + 1) - 1 : h[l] \in {Equal, Blank}
    BY <1>1, <1>4, <2>1
  <2> QED  BY <2>1, <2>2 DEF AfterSemicolon
<1>5. ASSUME AfterSemicolon(h, k + 1), h[k] # Semicolon
      PROVE  AfterSemicolon(h, k) /\ h[k] \in {Equal, Blank}
  <2>1. PICK j \in 1 .. (k + 1) - 1 :
          h[j] = Semicolon /\ \A l \in j + 1 .. (k + 1) - 1 : h[l] \in {Equal, Blank}
    BY <1>5 DEF AfterSemicolon
  <2>2. j \in 1 .. k - 1 /\ k \in j + 1 .. (k + 1) - 1  BY <1>1, <1>5, <2>1
  <2>3. \A l \in j + 1 .. k - 1 : h[l] \in {Equal, Blank}  BY <1>1, <2>1
  <2> QED  BY <2>1, <2>2, <2>3 DEF AfterSemicolon
<1> QED  BY <1>2, <1>3, <1>4, <1>5

\* The buffer's size, from the header.
SizeOf(h) == 2 + Len(h) + 4 * Cardinality(EqualsIn(h)) - Cardinality(CountedOff(h))

\* What the second loop has written when it stands at k and its record starts at r:
\* each character before the record except the blanks skipped, and two quotes (or a
\* quote and a delimiter more) for each end of a name or a value.
LenAt(h, k, r) ==
  1 + (r - 1) - Passed(SkippedIn(h), r) + 2 * (Passed(EqualsIn(h), k) + Passed(PartEnds(h), k))

\* The characters of the record so far: all blank where mark is set, and none to be
\* skipped where it is not.
RecordSoFar(h, k, m, r) ==
  /\ m <=> AfterSemicolon(h, k)
  /\ IF m THEN \A p \in r .. k - 1 : h[p] = Blank
          ELSE \A p \in r .. k - 1 : p \notin CountedOff(h)

\* The second loop at k, with mark m, the text t and a record from r.
CopySize(h, k, m, t, r) ==
  /\ t \in Text /\ Len(t) = LenAt(h, k, r) /\ r \in 1 .. k
  /\ IF k = Len(h) + 1 THEN r = k ELSE RecordSoFar(h, k, m, r)

SizeInv ==
  /\ cookie \in Text /\ i \in 1 .. Len(cookie) + 1 /\ mark \in BOOLEAN
  /\ loop \in {"count", "copy", "returned", "dead"}
  /\ loop = "count" =>
       /\ mark <=> AfterSemicolon(cookie, i)
       /\ count_element_pars = Passed(EqualsIn(cookie), i)
       /\ element_not_parse = Passed(CountedOff(cookie), i)
       /\ size_parse = 2
  /\ loop # "count" => size_parse = SizeOf(cookie)
  /\ loop = "copy" => CopySize(cookie, i, mark, parse, index_last_record)
  /\ SizeOfText

\* The first loop passes one character.
LEMMA CountTurnSize ==
  ASSUME SizeInv, CountTurn
  PROVE  SizeInv'
<1>1. /\ loop = "count" /\ i \in 1 .. Len(cookie) /\ i' = i + 1 /\ loop' = loop
      /\ cookie' = cookie /\ size_parse' = size_parse /\ size_parse = 2
      /\ cookie \in Text /\ Len(cookie) \in Nat
  BY TextLen DEF SizeInv, CountTurn, request
<1>2. i' \in 1 .. Len(cookie) + 1  BY <1>1
<1>3. mark' \in BOOLEAN /\ (mark' <=> AfterSemicolon(cookie, i + 1))
  <2>1. mark' <=> (cookie[i] = Semicolon \/ (mark /\ cookie[i] \in {Equal, Blank}))
    BY DEF CountTurn
  <2>2. mark' \in BOOLEAN  BY DEF CountTurn
  <2>3. mark <=> AfterSemicolon(cookie, i)  BY <1>1 DEF SizeInv
  <2> QED  BY <1>1, <2>1, <2>2, <2>3, MarkStep
<1>4. count_element_pars' = Passed(EqualsIn(cookie), i + 1)
  <2>1. count_element_pars = Passed(EqualsIn(cookie), i)  BY <1>1 DEF SizeInv
  <2>2. IsFiniteSet(EqualsIn(cookie)) /\ EqualsIn(cookie) \subseteq Int
    BY <1>1, Places, PassAll
  <2>3. i \in EqualsIn(cookie) <=> cookie[i] = Equal
    BY <1>1 DEF EqualsIn, Text
  <2>4. count_element_pars' = count_element_pars + (IF cookie[i] = Equal THEN 1 ELSE 0)
    BY DEF CountTurn
  <2> QED  BY <1>1, <2>1, <2>2, <2>3, <2>4, PassOne
<1>5. element_not_parse' = Passed(CountedOff(cookie), i + 1)
  <2>1. element_not_parse = Passed(CountedOff(cookie), i)  BY <1>1 DEF SizeInv
  <2>2. IsFiniteSet(CountedOff(cookie)) /\ CountedOff(cookie) \subseteq Int
    BY <1>1, Places, PassAll
  <2>3. i \in CountedOff(cookie) <=> cookie[i] = Blank /\ mark
    BY <1>1 DEF CountedOff, SizeInv, Text
  <2>4. element_not_parse' = element_not_parse + (IF cookie[i] = Blank /\ mark THEN 1 ELSE 0)
    BY DEF CountTurn
  <2> QED  BY <1>1, <2>1, <2>2, <2>3, <2>4, PassOne
<1> QED  BY <1>1, <1>2, <1>3, <1>4, <1>5 DEF SizeInv, SizeOfText

\* The size that the first loop arrives at.
LEMMA ResizeSize ==
  ASSUME SizeInv, Resize
  PROVE  SizeInv'
<1> DEFINE n == Len(cookie)
<1>1. /\ loop = "count" /\ i = n + 1 /\ loop' = "copy" /\ i' = 1 /\ mark' = FALSE
      /\ index_last_record' = 1 /\ parse' = <<Brace>> /\ cookie' = cookie
      /\ size_parse' = size_parse + n + 4 * count_element_pars - element_not_parse
      /\ cookie \in Text /\ n \in Nat
  BY TextLen DEF SizeInv, Resize, request
<1>2. /\ EqualsIn(cookie) \subseteq 1 .. n /\ PartEnds(cookie) \subseteq 1 .. n
      /\ CountedOff(cookie) \subseteq 1 .. n /\ SkippedIn(cookie) \subseteq 1 .. n
  BY <1>1, Places
<1> HIDE DEF n
<1>3. size_parse' = SizeOf(cookie)
  <2>1. /\ size_parse = 2 /\ count_element_pars = Cardinality(EqualsIn(cookie))
        /\ element_not_parse = Cardinality(CountedOff(cookie))
    BY <1>1, <1>2, PassAll DEF SizeInv
  <2> QED  BY <1>1, <2>1, SkippedOrStray DEF SizeOf, n
<1>4. parse' \in Text /\ Len(parse') = LenAt(cookie, 1, 1)
  <2>1. parse' \in Text /\ Len(parse') = 1  BY <1>1, OneChar DEF Marks
  <2>2. /\ Passed(EqualsIn(cookie), 1) = 0 /\ Passed(PartEnds(cookie), 1) = 0
        /\ Passed(SkippedIn(cookie), 1) = 0
    BY <1>1, <1>2, PassAll
  <2> QED  BY <2>1, <2>2 DEF LenAt
<1>5. n # 0 => RecordSoFar(cookie, 1, FALSE, 1)
  <2>1. ~AfterSemicolon(cookie, 1)  BY DEF AfterSemicolon
  <2> QED  BY <2>1 DEF RecordSoFar
<1>6. i' \in 1 .. n + 1 /\ 1 \in 1 .. 1  BY <1>1
<1>7. mark' \in BOOLEAN  BY <1>1, Zenon
<1>8. CopySize(cookie, 1, FALSE, parse', 1)
  <2>1. n = 0 <=> 1 = n + 1  BY <1>1
  <2> QED  BY <1>4, <1>5, <1>6, <2>1 DEF CopySize, n
<1>9. CopySize(cookie', i', mark', parse', index_last_record')  BY <1>1, <1>8, Zenon
<1> QED  BY <1>1, <1>3, <1>6, <1>7, <1>9 DEF SizeInv, SizeOfText, n

\* A record that ends here keeps its blanks: they are none of those to be skipped.
LEMMA NoneSkipped ==
  ASSUME NEW h \in Text, NEW k \in 1 .. Len(h), NEW m \in BOOLEAN, NEW r \in 1 .. k,
         RecordSoFar(h, k, m, r), h[k] \in {Equal, Semicolon} \/ k = Len(h)
  PROVE  \A p \in r .. k : p \notin SkippedIn(h)
<1> SUFFICES ASSUME NEW p \in r .. k, p \in SkippedIn(h) PROVE FALSE  OBVIOUS
<1>1. k \in Nat /\ r \in Nat /\ p \in Nat /\ Len(h) \in Nat  BY TextLen
<1>2. p \in CountedOff(h) /\ h[p] = Blank /\ AfterSemicolon(h, p)  BY DEF SkippedIn, CountedOff
<1>3. PICK l \in p + 1 .. Len(h) - 1 :
        h[l] \notin {Equal, Semicolon, Blank} /\ \A j \in p + 1 .. l - 1 : h[j] = Blank
  BY DEF SkippedIn, BeforeName
<1>4. k # Len(h) => h[k] # Blank
  BY MarksDiffer
<1>5. CASE m
  <2>1. \A j \in r .. k - 1 : h[j] = Blank  BY <1>5 DEF RecordSoFar
  <2>2. l >= k  BY <1>1, <1>3, <2>1
  <2>3. k < Len(h)  BY <1>1, <1>3, <2>2
  <2>4. l # k  BY <1>3, <2>3
  <2>5. p # k  BY <1>2, <1>4, <2>3
  <2>6. k \in p + 1 .. l - 1  BY <1>1, <1>3, <2>2, <2>4, <2>5
  <2> QED  BY <1>3, <1>4, <2>3, <2>6
<1>6. CASE ~m
  <2>1. p = k  BY <1>1, <1>2, <1>6 DEF RecordSoFar
  <2> QED  BY <1>2, <1>6, <2>1 DEF RecordSoFar
<1> QED  BY <1>5, <1>6

\* Blanks that are still in the record when another character comes are skipped.
LEMMA AllSkipped ==
  ASSUME NEW h \in Text, NEW k \in 1 .. Len(h), NEW r \in 1 .. k, k # Len(h),
         RecordSoFar(h, k, TRUE, r), h[k] \notin {Equal, Semicolon, Blank}
  PROVE  \A p \in r .. k - 1 : p \in SkippedIn(h)
<1> SUFFICES ASSUME NEW p \in r .. k - 1 PROVE p \in SkippedIn(h)  OBVIOUS
<1>1. k \in Nat /\ r \in Nat /\ p \in Nat /\ Len(h) \in Nat  BY TextLen
<1>2. AfterSemicolon(h, k) /\ \A q \in r .. k - 1 : h[q] = Blank  BY DEF RecordSoFar
<1>3. AfterSemicolon(h, p)
  <2>1. PICK j \in 1 .. k - 1 :
          h[j] = Semicolon /\ \A l \in j + 1 .. k - 1 : h[l] \in {Equal, Blank}
    BY <1>2 DEF AfterSemicolon
  <2>2. ~(j \in r .. k - 1)  BY <1>2, <2>1, MarksDiffer
  <2>3. j \in 1 .. p - 1  BY <1>1, <2>1, <2>2
  <2>4. \A l \in j + 1 .. p - 1 : h[l] \in {Equal, Blank}  BY <1>1, <2>1
  <2> QED  BY <2>1, <2>3, <2>4 DEF AfterSemicolon
<1>4. BeforeName(h, p)
  <2>1. k \in p + 1 .. Len(h) - 1  BY <1>1
  <2>2. \A j \in p + 1 .. k - 1 : h[j] = Blank  BY <1>1, <1>2
  <2> QED  BY <2>1, <2>2 DEF BeforeName
<1>5. p \in DOMAIN h  BY <1>1 DEF Text
<1> QED  BY <1>2, <1>3, <1>4, <1>5 DEF SkippedIn, CountedOff

\* What a name or a value that ends at k adds to the text.
LEMMA EndAdds ==
  ASSUME NEW h \in Text, NEW k \in 1 .. Len(h), NEW r \in 1 .. k, NEW t \in Text, NEW t2,
         NEW m, NEW m2, NEW r2, CopyOne(h, k, m, t, r, m2, t2, r2),
         h[k] \in {Equal, Semicolon} \/ k = Len(h)
  PROVE  /\ t2 \in Text
         /\ k # Len(h) => Len(t2) = Len(t) + (k - r) + 3
         /\ k = Len(h) /\ h[k] = Equal => Len(t2) = Len(t) + (k - r) + 5
         /\ k = Len(h) /\ h[k] # Equal => Len(t2) = Len(t) + (k - r) + 3
<1> DEFINE C == Chars \cup Marks
           rest == Rest(h, k, r)
           last == IF k = Len(h) /\ h[k] # Equal THEN k ELSE k - 1
           q == <<Quote>>
           e == <<Colon, Quote, Quote>>
<1>1. k \in Nat /\ r \in Nat /\ Len(h) \in Nat /\ Len(t) \in Nat  BY TextLen
<1>2. h \in Seq(C)  BY TextSeq
<1>3. rest \in Text /\ Len(rest) = last - r + 1
  <2>1. last \in Int /\ last <= Len(h) /\ r - 1 <= last  BY <1>1
  <2>2. \A p \in r .. last : h[p] \in C
    <3> HIDE DEF C, last
    <3> QED  BY <1>1, <1>2, <2>1
  <2>3. /\ SubSeq(h, r, last) \in Seq(C)
        /\ Len(SubSeq(h, r, last)) = IF r <= last THEN last - r + 1 ELSE 0
    <3> HIDE DEF C, last
    <3> QED  BY <1>1, <2>1, <2>2, SubSeqProperties
  <2>4. rest = SubSeq(h, r, last)  BY DEF Rest
  <2>5. rest \in Text
    <3> HIDE DEF C, last, rest
    <3> QED  BY <2>3, <2>4, TextSeq DEF C
  <2> HIDE DEF C, last, rest
  <2> QED  BY <1>1, <2>1, <2>3, <2>4, <2>5
<1>4. q \in Text /\ Len(q) = 1  BY OneChar DEF Marks
<1>14. <<Comma>> \in Text /\ Len(<<Comma>>) = 1  BY OneChar DEF Marks
<1>15. <<Colon>> \in Text /\ Len(<<Colon>>) = 1  BY OneChar DEF Marks
<1>5. e \in Text /\ Len(e) = 3
  <2>1. Colon \in C /\ Quote \in C  BY DEF Marks
  <2> HIDE DEF C
  <2>2. e \in Seq(C)  BY <2>1
  <2> QED  BY <2>2, TextSeq DEF C
<1> DEFINE u == t \o q \o rest \o q
<1> HIDE DEF q, e, rest
<1>6. u \in Text /\ Len(u) = Len(t) + Len(rest) + 2
  <2>1. t \o q \in Text /\ Len(t \o q) = Len(t) + 1
    <3>1. t \o q \in Text /\ Len(t \o q) = Len(t) + Len(q)  BY <1>4, TextConcat, Zenon
    <3> QED  BY <1>4, <3>1
  <2> DEFINE a == t \o q
  <2> HIDE DEF a
  <2>2. a \o rest \in Text /\ Len(a \o rest) = Len(a) + Len(rest)  BY <1>3, <2>1, TextConcat DEF a
  <2> DEFINE b == a \o rest
  <2> HIDE DEF b
  <2>3. b \o q \in Text /\ Len(b \o q) = Len(b) + 1
    <3>1. b \o q \in Text /\ Len(b \o q) = Len(b) + Len(q)
      BY <1>4, <2>2, TextConcat, Zenon DEF b
    <3> QED  BY <1>4, <3>1
  <2>4. Len(rest) \in Nat  BY <1>3, TextLen
  <2>5. u = b \o q  BY DEF a, b
  <2>6. Len(u) = Len(b) + 1 /\ Len(b) = Len(a) + Len(rest) /\ Len(a) = Len(t) + 1
    BY <2>1, <2>2, <2>3, <2>5 DEF a, b
  <2> QED  BY <1>1, <2>3, <2>4, <2>5, <2>6
<1> HIDE DEF u
<1>7. /\ k # Len(h) /\ h[k] = Equal => t2 = u \o <<Colon>>
      /\ k # Len(h) /\ h[k] # Equal => t2 = u \o <<Comma>>
      /\ k = Len(h) /\ h[k] = Equal => t2 = u \o e
      /\ k = Len(h) /\ h[k] # Equal => t2 = u \o <<>>
  BY DEF CopyOne, u, q, rest, e
<1>8. Len(u) \in Nat /\ u \o <<>> = u
  <2>1. u \in Seq(C)  BY <1>6, TextSeq
  <2> HIDE DEF C
  <2> QED  BY <2>1
<1>16. \A x \in Text : u \o x \in Text /\ Len(u \o x) = Len(u) + Len(x)
  BY <1>6, TextConcat
<1>9. CASE k # Len(h)
  <2>1. \E x \in Text : Len(x) = 1 /\ t2 = u \o x  BY <1>7, <1>9, <1>14, <1>15, Zenon
  <2>2. t2 \in Text /\ Len(t2) = Len(u) + 1  BY <1>16, <2>1
  <2> QED  BY <1>1, <1>3, <1>6, <1>9, <2>2
<1>10. CASE k = Len(h) /\ h[k] = Equal
  <2>1. t2 \in Text /\ Len(t2) = Len(u) + 3
    <3>1. t2 = u \o e  BY <1>7, <1>10, Zenon
    <3> QED  BY <1>5, <1>16, <3>1
  <2> QED  BY <1>1, <1>3, <1>6, <1>10, <2>1
<1>11. CASE k = Len(h) /\ h[k] # Equal
  <2>1. t2 = u  BY <1>7, <1>8, <1>11
  <2> QED  BY <1>1, <1>3, <1>6, <1>11, <2>1
<1> QED  BY <1>9, <1>10, <1>11

\* A turn of the second loop goes on in the same way.
LEMMA CopyOneSize ==
  ASSUME NEW h \in Text, NEW k \in 1 .. Len(h), NEW m \in BOOLEAN, NEW t, NEW r,
         CopySize(h, k, m, t, r),
         NEW m2 \in BOOLEAN, NEW t2, NEW r2, CopyOne(h, k, m, t, r, m2, t2, r2)
  PROVE  CopySize(h, k + 1, m2, t2, r2)
<1> DEFINE n == Len(h)
           E(j) == Passed(EqualsIn(h), j)
           P(j) == Passed(PartEnds(h), j)
           S(j) == Passed(SkippedIn(h), j)
<1>1. k \in Nat /\ n \in Nat /\ k <= n /\ k # n + 1  BY TextLen
<1>2. t \in Text /\ Len(t) = LenAt(h, k, r) /\ r \in 1 .. k /\ RecordSoFar(h, k, m, r)
  BY <1>1 DEF CopySize
<1>3. /\ EqualsIn(h) \subseteq 1 .. n /\ PartEnds(h) \subseteq 1 .. n
      /\ SkippedIn(h) \subseteq 1 .. n
  BY Places
<1>4. /\ k \in EqualsIn(h) <=> h[k] = Equal
      /\ k \in PartEnds(h) <=> h[k] = Semicolon \/ k = n
      /\ k \in CountedOff(h) <=> h[k] = Blank /\ AfterSemicolon(h, k)
  BY <1>1 DEF EqualsIn, PartEnds, CountedOff, Text
<1> HIDE DEF n
<1>5. /\ E(k) \in Nat /\ P(k) \in Nat /\ S(r) \in Nat
      /\ E(k + 1) = IF h[k] = Equal THEN E(k) + 1 ELSE E(k)
      /\ P(k + 1) = IF h[k] = Semicolon \/ k = n THEN P(k) + 1 ELSE P(k)
  <2>1. /\ IsFiniteSet(EqualsIn(h)) /\ IsFiniteSet(PartEnds(h)) /\ IsFiniteSet(SkippedIn(h))
        /\ EqualsIn(h) \subseteq Int /\ PartEnds(h) \subseteq Int /\ SkippedIn(h) \subseteq Int
    BY <1>1, <1>3, PassAll
  <2>2. k \in Int /\ r \in Int  BY <1>1, <1>2
  <2>3. E(k) \in Nat /\ P(k) \in Nat /\ S(r) \in Nat  BY <2>1, <2>2, PassOne
  <2>4. E(k + 1) = IF h[k] = Equal THEN E(k) + 1 ELSE E(k)  BY <1>4, <2>1, <2>2, PassOne
  <2>5. P(k + 1) = IF h[k] = Semicolon \/ k = n THEN P(k) + 1 ELSE P(k)
    BY <1>4, <2>1, <2>2, PassOne
  <2> QED  BY <2>3, <2>4, <2>5
<1>6. Len(t) = 1 + (r - 1) - S(r) + 2 * (E(k) + P(k))  BY <1>2 DEF LenAt
<1>7. AfterSemicolon(h, k + 1) <=> h[k] = Semicolon \/ (m /\ h[k] \in {Equal, Blank})
  BY <1>2, MarkStep DEF RecordSoFar
<1>8. CASE h[k] \in {Equal, Semicolon} \/ k = n
  <2>1. r2 = k + 1 /\ (m2 <=> (m \/ (k # n /\ h[k] # Equal)))
    BY <1>8 DEF CopyOne, n
  <2>2. /\ t2 \in Text
        /\ k # n => Len(t2) = Len(t) + (k - r) + 3
        /\ k = n /\ h[k] = Equal => Len(t2) = Len(t) + (k - r) + 5
        /\ k = n /\ h[k] # Equal => Len(t2) = Len(t) + (k - r) + 3
    BY <1>2, <1>8, EndAdds, SMTT(30) DEF n
  <2>3. S(k + 1) = S(r)
    <3>1. \A p \in r .. k : p \notin SkippedIn(h)  BY <1>2, <1>8, NoneSkipped DEF n
    <3>2. r .. (k + 1) - 1 = r .. k /\ r \in Int /\ k + 1 \in Int /\ r <= k + 1  BY <1>1, <1>2
    <3>3. SkippedIn(h) \subseteq Int  BY <1>3
    <3> QED  BY <3>1, <3>2, <3>3, PassNone
  <2>4. Len(t2) = LenAt(h, k + 1, k + 1)
    <3>1. /\ k \in Nat /\ r \in Nat /\ Len(t) \in Nat /\ Len(t2) \in Nat
          /\ E(k + 1) \in Nat /\ P(k + 1) \in Nat /\ S(k + 1) \in Nat
      <4>1. Len(t) \in Nat /\ Len(t2) \in Nat  BY <1>2, <2>2, TextLen
      <4>2. E(k + 1) \in Nat /\ P(k + 1) \in Nat /\ S(k + 1) \in Nat  BY <1>5, <2>3
      <4> QED  BY <1>1, <1>2, <4>1, <4>2
    <3>2. h[k] = Equal => h[k] # Semicolon  BY MarksDiffer
    <3>3. E(k + 1) + P(k + 1) = E(k) + P(k) + (IF k = n /\ h[k] = Equal THEN 2 ELSE 1)
      BY <1>5, <1>8, <3>2
    <3>4. Len(t2) = Len(t) + (k - r) + 1 + 2 * (IF k = n /\ h[k] = Equal THEN 2 ELSE 1)
      BY <2>2, <3>1, SMTT(30)
    <3> DEFINE x  == IF k = n /\ h[k] = Equal THEN 2 ELSE 1
               c1 == E(k + 1) + P(k + 1)
               c  == E(k) + P(k)
               s1 == S(k + 1)
               l  == Len(t)
               l2 == Len(t2)
    <3>5. /\ k \in Nat /\ r \in Nat /\ l \in Nat /\ l2 \in Nat /\ s1 \in Nat
          /\ c1 \in Nat /\ c \in Nat /\ x \in Nat
      BY <1>5, <3>1, SMTT(30)
    <3>6. /\ c1 = c + x /\ l2 = l + (k - r) + 1 + 2 * x
          /\ l = 1 + (r - 1) - s1 + 2 * c
      BY <1>6, <2>3, <3>3, <3>4
    <3> HIDE DEF x, c1, c, s1, l, l2
    <3>7. l2 = 1 + ((k + 1) - 1) - s1 + 2 * c1  BY <3>5, <3>6
    <3> QED  BY <3>7 DEF LenAt, c1, s1, l2
  <2>5. k # n => RecordSoFar(h, k + 1, m2, k + 1)
    <3> SUFFICES ASSUME k # n PROVE RecordSoFar(h, k + 1, m2, k + 1)  OBVIOUS
    <3>1. m2 <=> AfterSemicolon(h, k + 1)  BY <1>7, <1>8, <2>1, MarksDiffer
    <3>2. k + 1 .. (k + 1) - 1 = {}  BY <1>1
    <3> QED  BY <3>1, <3>2 DEF RecordSoFar
  <2>6. k + 1 \in 1 .. k + 1 /\ (k = n <=> k + 1 = n + 1)  BY <1>1
  <2> QED  BY <2>1, <2>2, <2>4, <2>5, <2>6 DEF CopySize, n
<1>9. CASE ~(h[k] \in {Equal, Semicolon} \/ k = n) /\ m /\ h[k] # Blank
  <2>1. r2 = k /\ ~m2 /\ t2 = t  BY <1>9 DEF CopyOne, n
  <2>2. S(k) = S(r) + (k - r)
    <3>1. RecordSoFar(h, k, TRUE, r)
      <4>1. m = TRUE  BY <1>9
      <4> QED  BY <1>2, <4>1
    <3>2. \A p \in r .. k - 1 : p \in SkippedIn(h)
      BY <1>2, <1>9, <3>1, AllSkipped DEF n
    <3>3. r \in 1 .. n /\ k \in r .. n  BY <1>1, <1>2
    <3> QED  BY <1>1, <1>3, <3>2, <3>3, PassRange
  <2>3. Len(t2) = LenAt(h, k + 1, k)
    <3>1. Len(t2) = 1 + (k - 1) - S(k) + 2 * (E(k + 1) + P(k + 1))
      <4> HIDE DEF E, P, S
      <4> QED  BY <1>1, <1>2, <1>5, <1>6, <1>9, <2>1, <2>2, SMTT(30)
    <3> QED  BY <3>1 DEF LenAt
  <2>4. RecordSoFar(h, k + 1, m2, k)
    <3>1. ~AfterSemicolon(h, k + 1)  BY <1>7, <1>9
    <3>2. \A p \in k .. (k + 1) - 1 : p = k  BY <1>1
    <3> QED  BY <1>4, <1>9, <2>1, <3>1, <3>2 DEF RecordSoFar
  <2>5. k \in 1 .. k + 1 /\ k + 1 # n + 1  BY <1>1, <1>9
  <2> QED  BY <1>2, <2>1, <2>3, <2>4, <2>5 DEF CopySize, n
<1>10. CASE ~(h[k] \in {Equal, Semicolon} \/ k = n) /\ ~(m /\ h[k] # Blank)
  <2>1. r2 = r /\ (m2 <=> m) /\ t2 = t  BY <1>10 DEF CopyOne, n
  <2>2. Len(t2) = LenAt(h, k + 1, r)
    <3>1. Len(t2) = 1 + (r - 1) - S(r) + 2 * (E(k + 1) + P(k + 1))
      <4> HIDE DEF E, P, S
      <4> QED  BY <1>1, <1>2, <1>5, <1>6, <1>10, <2>1
    <3> QED  BY <3>1 DEF LenAt
  <2>3. RecordSoFar(h, k + 1, m2, r)
    <3>1. m2 <=> AfterSemicolon(h, k + 1)  BY <1>7, <1>10, <2>1
    <3>2. \A p \in r .. (k + 1) - 1 : p = k \/ p \in r .. k - 1  BY <1>1, <1>2
    <3>3. CASE m
      <4>1. h[k] = Blank /\ \A p \in r .. k - 1 : h[p] = Blank  BY <1>2, <1>10, <3>3 DEF RecordSoFar
      <4> QED  BY <2>1, <3>1, <3>2, <3>3, <4>1 DEF RecordSoFar
    <3>4. CASE ~m
      <4>1. k \notin CountedOff(h) /\ \A p \in r .. k - 1 : p \notin CountedOff(h)
        BY <1>2, <1>4, <3>4 DEF RecordSoFar
      <4> QED  BY <2>1, <3>1, <3>2, <3>4, <4>1 DEF RecordSoFar
    <3> QED  BY <3>3, <3>4
  <2>4. r \in 1 .. k + 1 /\ k + 1 # n + 1  BY <1>1, <1>2, <1>10
  <2> QED  BY <1>2, <2>1, <2>2, <2>3, <2>4 DEF CopySize, n
<1> QED  BY <1>8, <1>9, <1>10

LEMMA CopyTurnSize ==
  ASSUME SizeInv, CopyTurn
  PROVE  SizeInv'
<1>1. /\ loop = "copy" /\ i \in 1 .. Len(cookie) /\ i' = i + 1 /\ loop' = loop
      /\ cookie' = cookie /\ size_parse' = size_parse /\ cookie \in Text
      /\ Len(cookie) \in Nat /\ mark \in BOOLEAN
  BY TextLen DEF SizeInv, CopyTurn, request, counts
<1>2. /\ CopyOne(cookie, i, mark, parse, index_last_record, mark', parse', index_last_record')
      /\ mark' \in BOOLEAN
  BY <1>1, TurnIsOne
<1>3. CopySize(cookie, i, mark, parse, index_last_record)  BY <1>1 DEF SizeInv
<1> DEFINE m2 == mark'
           t2 == parse'
           r2 == index_last_record'
<1>4. CopyOne(cookie, i, mark, parse, index_last_record, m2, t2, r2) /\ m2 \in BOOLEAN  BY <1>2
<1> HIDE DEF m2, t2, r2
<1>5. CopySize(cookie, i + 1, m2, t2, r2)  BY <1>1, <1>3, <1>4, CopyOneSize
<1>6. CopySize(cookie', i', mark', parse', index_last_record')
  BY <1>1, <1>5, Zenon DEF m2, t2, r2
<1>7. i' \in 1 .. Len(cookie') + 1  BY <1>1
<1>8. size_parse = SizeOf(cookie)  BY <1>1 DEF SizeInv
<1> QED  BY <1>1, <1>2, <1>6, <1>7, <1>8 DEF SizeInv, SizeOfText

\* At the end all places are passed, and the text has the length that SizeOfText says.
LEMMA CloseSize ==
  ASSUME SizeInv, Close
  PROVE  SizeInv'
<1> DEFINE n == Len(cookie)
<1>1. /\ loop = "copy" /\ i = n + 1 /\ i' = i /\ loop' = "returned" /\ cookie' = cookie
      /\ size_parse' = size_parse /\ cookie \in Text /\ n \in Nat /\ mark' = mark
      /\ parse' = Append(parse, EndBrace)
  BY TextLen DEF SizeInv, Close, request, counts
<1>2. size_parse = SizeOf(cookie) /\ parse \in Text /\ Len(parse) = LenAt(cookie, n + 1, n + 1)
  BY <1>1 DEF SizeInv, CopySize
<1>3. Len(parse') = Len(parse) + 1
  <2> DEFINE C == Chars \cup Marks
  <2>1. parse \in Seq(C)  BY <1>2, TextSeq
  <2> HIDE DEF C
  <2> QED  BY <1>1, <2>1
<1> DEFINE e == Cardinality(EqualsIn(cookie))
           p == Cardinality(PartEnds(cookie))
           s == Cardinality(SkippedIn(cookie))
           c == Cardinality(CountedOff(cookie))
           d == Cardinality(Stray(cookie))
<1>4. e \in Nat /\ p \in Nat /\ s \in Nat /\ c \in Nat /\ d = c - s
  BY <1>1, SkippedOrStray
<1>5. Len(parse) = 1 + ((n + 1) - 1) - s + 2 * (e + p)
  <2>1. /\ EqualsIn(cookie) \subseteq 1 .. n /\ PartEnds(cookie) \subseteq 1 .. n
        /\ SkippedIn(cookie) \subseteq 1 .. n
    BY <1>1, Places
  <2>2. /\ Passed(EqualsIn(cookie), n + 1) = e /\ Passed(PartEnds(cookie), n + 1) = p
        /\ Passed(SkippedIn(cookie), n + 1) = s
    BY <1>1, <2>1, PassAll
  <2> HIDE DEF e, p, s, n
  <2> QED  BY <1>2, <2>2 DEF LenAt
<1>6. size_parse = 2 + n + 4 * e - c  BY <1>2 DEF SizeOf
<1>7. Len(parse') = size_parse' + d + 2 * (p - e)
  <2> DEFINE l == Len(parse)
             l2 == Len(parse')
             z == size_parse
  <2>1. l2 = l + 1 /\ l = 1 + ((n + 1) - 1) - s + 2 * (e + p) /\ z = 2 + n + 4 * e - c
    BY <1>3, <1>5, <1>6
  <2>2. l \in Int /\ l2 \in Int /\ z \in Int
    <3> HIDE DEF e, p, s, c, d, n, l, l2, z
    <3> QED  BY <1>1, <1>4, <2>1
  <2>3. l2 = z + d + 2 * (p - e)
    <3> HIDE DEF e, p, s, c, d, n, l, l2, z
    <3> QED  BY <1>1, <1>4, <2>1, <2>2
  <2> QED  BY <1>1, <2>3
<1>8. SizeOfText'  BY <1>1, <1>7 DEF SizeOfText
<1>9. i' \in 1 .. Len(cookie') + 1 /\ size_parse' = SizeOf(cookie')  BY <1>1, <1>2
<1>10. mark' \in BOOLEAN  BY <1>1 DEF SizeInv
<1> QED  BY <1>1, <1>8, <1>9, <1>10 DEF SizeInv

\* The places where ParseCookie begins.
LEMMA FirstSize ==
  ASSUME NEW h \in Text
  PROVE  /\ 1 \in 1 .. Len(h) + 1 /\ ~AfterSemicolon(h, 1)
         /\ Passed(EqualsIn(h), 1) = 0 /\ Passed(CountedOff(h), 1) = 0
<1>1. Len(h) \in Nat  BY TextLen
<1>2. ~AfterSemicolon(h, 1)  BY DEF AfterSemicolon
<1>3. EqualsIn(h) \subseteq 1 .. Len(h) /\ CountedOff(h) \subseteq 1 .. Len(h)  BY Places
<1> QED  BY <1>1, <1>2, <1>3, PassAll

LEMMA NextSizeInv == SizeInv /\ [ParseNext]_parseVars => SizeInv'
<1> SUFFICES ASSUME SizeInv, [ParseNext]_parseVars PROVE SizeInv'  OBVIOUS
<1>1. CASE CountTurn  BY <1>1, CountTurnSize
<1>2. CASE Resize  BY <1>2, ResizeSize
<1>3. CASE CopyTurn  BY <1>3, CopyTurnSize
<1>4. CASE Close  BY <1>4, CloseSize
<1>5. CASE Die
  <2>1. /\ loop # "count" /\ loop' = "dead"
        /\ UNCHANGED <<cookie, i, mark, size_parse>>
    BY <1>5 DEF Die, request, counts
  <2> QED  BY <2>1 DEF SizeInv, SizeOfText
<1>6. CASE Again
  <2>1. /\ loop' = "count" /\ i' = 1 /\ mark' = FALSE /\ count_element_pars' = 0
        /\ element_not_parse' = 0 /\ size_parse' = 2 /\ cookie' = cookie /\ cookie \in Text
    BY <1>6 DEF Again, request, SizeInv
  <2>2. mark' \in BOOLEAN  BY <2>1, Zenon
  <2> QED  BY <2>1, <2>2, FirstSize DEF SizeInv, SizeOfText
<1>7. CASE UNCHANGED parseVars
  BY <1>7 DEF parseVars, request, counts, SizeInv, SizeOfText
<1> QED  BY <1>1, <1>2, <1>3, <1>4, <1>5, <1>6, <1>7 DEF ParseNext

LEMMA InitSizeInv == ParseInit => SizeInv
<1> SUFFICES ASSUME ParseInit PROVE SizeInv  OBVIOUS
<1>1. cookie \in Text
  <2>1. CASE plain /\ \E sep \in Separators : cookie = Header(pairs, sep)
    <3>1. PICK sep \in Separators : cookie = Header(pairs, sep)  BY <2>1
    <3>2. pairs \in Pairs  BY <2>1, InitParseInv DEF ParseInv, PlainInv, TypeInv
    <3> QED  BY <3>1, <3>2, UpToEnds
  <2>2. CASE cookie \in Headers  BY <2>2, HeadersAssumption
  <2> QED  BY <2>1, <2>2 DEF ParseInit
<1>2. /\ loop = "count" /\ i = 1 /\ mark = FALSE
      /\ count_element_pars = 0 /\ element_not_parse = 0 /\ size_parse = 2
  BY DEF ParseInit
<1>3. mark \in BOOLEAN  BY <1>2, Zenon
<1> QED  BY <1>1, <1>2, <1>3, FirstSize DEF SizeInv, SizeOfText

\* For every header whatever, of cookies or not, the text that ParseCookie writes
\* differs from the size of its buffer by exactly what SizeOfText says: so for which
\* headers the buffer suffices.
THEOREM SizesOfTexts == ParseSpec => []SizeOfText
<1>1. ParseInit => SizeInv  BY InitSizeInv
<1>2. SizeInv /\ [ParseNext]_parseVars => SizeInv'  BY NextSizeInv
<1>3. SizeInv => SizeOfText  BY DEF SizeInv
<1> QED  BY <1>1, <1>2, <1>3, PTL DEF ParseSpec

\* Both: what ParseCookie does with any header, and with one of plain cookies.
THEOREM TextsOfHeaders == ParseSpec => []TextOfHeader
<1>1. SizeOfText /\ ObjectOfCookies => TextOfHeader  BY DEF TextOfHeader
<1> QED  BY <1>1, SizesOfTexts, CookiesAreObject, PTL

=============================================================================
