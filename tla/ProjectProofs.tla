--------------------------- MODULE ProjectProofs ----------------------------
(***************************************************************************)
(* The configuration of a project for the cloud, and the application that a *)
(* directory belongs to, for all projects, trees of files and flags.       *)
(***************************************************************************)
EXTENDS CloudConfig, LocalApps, FiniteSetTheorems, WellFoundedInduction, TLAPS

-----------------------------------------------------------------------------
(* project:init.                                                           *)

Numeral(n) == n \in 0 .. 999
IsVersion(v) == Numeral(v[1]) /\ (v[2] = -1 \/ Numeral(v[2]))

\* The number of digits of a number.
Wide(n) == IF n < 10 THEN 1 ELSE IF n < 100 THEN 2 ELSE 3

\* The digits of a number.
Unit(n) == n % 10
Ten(n) == (n \div 10) % 10
Tens(n) == n \div 10
Hundreds(n) == n \div 100

\* No newer version of the image has more digits than the one of the cloud.
Comparable(v, w) ==
    /\ Wide(v[1]) <= Wide(w[1])
    /\ v[1] = w[1] /\ v[2] # -1 /\ w[2] # -1 => Wide(v[2]) <= Wide(w[2])

NotAbove(v, w) == v[1] < w[1] \/ (v[1] = w[1] /\ v[2] <= w[2])

\* The digits of a number of one digit.
LEMMA OneDigit ==
    ASSUME NEW n, Numeral(n), Wide(n) = 1
    PROVE  Digits(n) \in Seq(Int) /\ Len(Digits(n)) = 1 /\ Digits(n)[1] = n
<1>1. n \in 0 .. 999 /\ n < 10
  BY DEF Wide, Numeral
<1> QED
  BY <1>1 DEF Digits

\* Two digits.
LEMMA TwoDigits ==
    ASSUME NEW n, Numeral(n), Wide(n) = 2
    PROVE  Digits(n) \in Seq(Int) /\ Len(Digits(n)) = 2
             /\ Digits(n)[1] = Tens(n) /\ Digits(n)[2] = Unit(n)
<1>1. n \in 0 .. 999 /\ ~(n < 10) /\ n < 100
  BY DEF Wide, Numeral
<1>2. n \div 10 \in Int /\ n % 10 \in Int
  BY <1>1
<1> QED
  BY <1>1, <1>2 DEF Digits, Unit, Ten, Tens, Hundreds

\* Three digits.
LEMMA ThreeDigits ==
    ASSUME NEW n, Numeral(n), Wide(n) = 3
    PROVE  Digits(n) \in Seq(Int) /\ Len(Digits(n)) = 3
             /\ Digits(n)[1] = Hundreds(n) /\ Digits(n)[2] = Ten(n) /\ Digits(n)[3] = Unit(n)
<1>1. n \in 0 .. 999 /\ ~(n < 10) /\ ~(n < 100)
  BY DEF Wide, Numeral
<1>2. n \div 100 \in Int /\ (n \div 10) % 10 \in Int /\ n % 10 \in Int
  BY <1>1
<1> QED
  BY <1>1, <1>2 DEF Digits, Unit, Ten, Tens, Hundreds

\* As many digits as the number is wide.
LEMMA DigitsLemma ==
    ASSUME NEW n, Numeral(n)
    PROVE  Digits(n) \in Seq(Int) /\ Len(Digits(n)) = Wide(n) /\ Wide(n) \in 1 .. 3
<1>1. Wide(n) = 1 \/ Wide(n) = 2 \/ Wide(n) = 3
  BY DEF Wide
<1>2. Wide(n) \in 1 .. 3
  BY <1>1
<1> QED
  BY <1>1, <1>2, OneDigit, TwoDigits, ThreeDigits, Zenon

\* Among numbers of as many digits, the text of the greater one is above.
LEMMA NumberLemma ==
    ASSUME NEW m, NEW n, Numeral(m), Numeral(n), m > n, Wide(m) <= Wide(n)
    PROVE  \E i \in 1 .. Wide(n) : /\ i <= Wide(m) /\ Digits(m)[i] > Digits(n)[i]
                                   /\ \A j \in 1 .. i - 1 : Digits(m)[j] = Digits(n)[j]
<1>0. m \in 0 .. 999 /\ n \in 0 .. 999
  BY DEF Numeral
<1>1. Wide(m) = Wide(n)
  BY <1>0 DEF Wide
<1>2. CASE Wide(n) = 1
  <2>1. Digits(m)[1] = m /\ Digits(n)[1] = n
    BY <1>1, <1>2, OneDigit, Zenon
  <2>2. 1 \in 1 .. Wide(n) /\ 1 <= Wide(m) /\ Digits(m)[1] > Digits(n)[1]
          /\ \A j \in 1 .. 1 - 1 : Digits(m)[j] = Digits(n)[j]
    BY <1>1, <1>2, <2>1
  <2> QED
    BY <2>2
<1>3. CASE Wide(n) = 2
  <2>1. Tens(m) > Tens(n) \/ (Tens(m) = Tens(n) /\ Unit(m) > Unit(n))
    BY <1>0 DEF Tens, Unit
  <2>2. Digits(m)[1] = Tens(m) /\ Digits(m)[2] = Unit(m) /\ Digits(n)[1] = Tens(n) /\ Digits(n)[2] = Unit(n)
    BY <1>1, <1>3, TwoDigits, Zenon
  <2>3. CASE Tens(m) > Tens(n)
    BY <1>1, <1>3, <2>2, <2>3
  <2>4. CASE Tens(m) = Tens(n) /\ Unit(m) > Unit(n)
    <3>1. \A j \in 1 .. 2 - 1 : Digits(m)[j] = Digits(n)[j]
      BY <2>2, <2>4
    <3> QED
      BY <1>1, <1>3, <2>2, <2>4, <3>1
  <2> QED
    BY <2>1, <2>3, <2>4
<1>4. CASE Wide(n) = 3
  <2>0. Wide(m) = 3
    BY <1>1, <1>4
  <2>1. Hundreds(m) > Hundreds(n) \/ (Hundreds(m) = Hundreds(n) /\ (Ten(m) > Ten(n) \/ (Ten(m) = Ten(n) /\ Unit(m) > Unit(n))))
    BY <1>0, SMTT(30) DEF Hundreds, Ten, Unit
  <2>2. /\ Digits(m)[1] = Hundreds(m) /\ Digits(m)[2] = Ten(m) /\ Digits(m)[3] = Unit(m)
        /\ Digits(n)[1] = Hundreds(n) /\ Digits(n)[2] = Ten(n) /\ Digits(n)[3] = Unit(n)
    BY <1>4, <2>0, ThreeDigits, Zenon
  <2>3. CASE Hundreds(m) > Hundreds(n)
    BY <1>1, <1>4, <2>2, <2>3
  <2>4. CASE Hundreds(m) = Hundreds(n) /\ Ten(m) > Ten(n)
    <3>1. \A j \in 1 .. 2 - 1 : Digits(m)[j] = Digits(n)[j]
      BY <2>2, <2>4
    <3> QED
      BY <1>1, <1>4, <2>2, <2>4, <3>1
  <2>5. CASE Hundreds(m) = Hundreds(n) /\ Ten(m) = Ten(n) /\ Unit(m) > Unit(n)
    <3>1. \A j \in 1 .. 3 - 1 : Digits(m)[j] = Digits(n)[j]
      BY <2>2, <2>5
    <3> QED
      BY <1>1, <1>4, <2>2, <2>5, <3>1
  <2> QED
    BY <2>1, <2>3, <2>4, <2>5
<1> QED
  BY <1>2, <1>3, <1>4, SMTT(30) DEF Wide

\* What a concatenation has where.
LEMMA ConcatLemma ==
    ASSUME NEW S, NEW p \in Seq(S), NEW q \in Seq(S)
    PROVE  /\ p \o q \in Seq(S) /\ Len(p \o q) = Len(p) + Len(q)
           /\ \A j \in 1 .. Len(p) : (p \o q)[j] = p[j]
           /\ \A j \in 1 .. Len(q) : (p \o q)[Len(p) + j] = q[j]
<1>1. /\ p \o q \in Seq(S) /\ Len(p \o q) = Len(p) + Len(q)
      /\ \A i \in 1 .. Len(p) + Len(q) : (p \o q)[i] = IF i <= Len(p) THEN p[i] ELSE q[i - Len(p)]
  OBVIOUS
<1>2. Len(p) \in Nat /\ Len(q) \in Nat
  OBVIOUS
<1> DEFINE pq == p \o q
<1> HIDE DEF pq
<1>3. \A i \in 1 .. Len(p) + Len(q) : pq[i] = IF i <= Len(p) THEN p[i] ELSE q[i - Len(p)]
  BY <1>1, Zenon DEF pq
<1>4. ASSUME NEW j \in 1 .. Len(p) PROVE pq[j] = p[j]
  <2>1. j \in 1 .. Len(p) + Len(q) /\ j <= Len(p)
    BY <1>2
  <2> QED
    BY <1>3, <2>1, Zenon
<1>5. ASSUME NEW j \in 1 .. Len(q) PROVE pq[Len(p) + j] = q[j]
  <2>1. Len(p) + j \in 1 .. Len(p) + Len(q) /\ ~(Len(p) + j <= Len(p)) /\ (Len(p) + j) - Len(p) = j
    BY <1>2
  <2> QED
    BY <1>3, <2>1, Zenon
<1> QED
  BY <1>1, <1>4, <1>5, Zenon DEF pq

\* The text of a version: the digits of the major one, a dot and those of the
\* minor one.
LEMMA TextLemma ==
    ASSUME NEW v, IsVersion(v)
    PROVE  /\ Text(v) \in Seq(Int) /\ Wide(v[1]) \in 1 .. 3
           /\ \A j \in 1 .. Wide(v[1]) : Text(v)[j] = Digits(v[1])[j]
           /\ v[2] = -1 => Len(Text(v)) = Wide(v[1])
           /\ v[2] # -1 => /\ Wide(v[2]) \in 1 .. 3 /\ Len(Text(v)) = Wide(v[1]) + 1 + Wide(v[2])
                           /\ Text(v)[Wide(v[1]) + 1] = -1
                           /\ \A j \in 1 .. Wide(v[2]) : Text(v)[Wide(v[1]) + 1 + j] = Digits(v[2])[j]
<1> DEFINE A == Digits(v[1])  B == Digits(v[2])  D == <<-1>>
<1>1. Numeral(v[1]) /\ (v[2] = -1 \/ Numeral(v[2]))
  BY Zenon DEF IsVersion
<1>n. v # NoVersion
  <2>1. NoVersion[1] = -1
    BY DEF NoVersion
  <2>2. ~Numeral(-1)
    BY DEF Numeral
  <2> QED
    BY <1>1, <2>1, <2>2, Zenon
<1>2. A \in Seq(Int) /\ Len(A) = Wide(v[1]) /\ Wide(v[1]) \in 1 .. 3
  BY <1>1, DigitsLemma, Zenon
<1> HIDE DEF A
<1>3. CASE v[2] = -1
  <2>1. Text(v) = A \o <<>>
    BY <1>n, <1>3, Zenon DEF Text, A
  <2>2. Text(v) = A
    BY <1>2, <2>1
  <2> QED
    BY <1>2, <1>3, <2>2, Zenon DEF A
<1>4. CASE v[2] # -1
  <2>1. Text(v) = A \o (D \o B)
    BY <1>n, <1>4, Zenon DEF Text, A
  <2>2. Numeral(v[2])
    BY <1>1, <1>4
  <2>3. B \in Seq(Int) /\ Len(B) = Wide(v[2]) /\ Wide(v[2]) \in 1 .. 3
    BY <2>2, DigitsLemma, Zenon
  <2>4. D \in Seq(Int) /\ Len(D) = 1 /\ D[1] = -1
    OBVIOUS
  <2> DEFINE E == D \o B
  <2> HIDE DEF B, D
  <2>5. E \in Seq(Int) /\ Len(E) = 1 + Wide(v[2]) /\ E[1] = -1 /\ \A j \in 1 .. Wide(v[2]) : E[1 + j] = B[j]
    <3>1. /\ E \in Seq(Int) /\ Len(E) = Len(D) + Len(B) /\ \A j \in 1 .. Len(D) : E[j] = D[j]
          /\ \A j \in 1 .. Len(B) : E[Len(D) + j] = B[j]
      <4>1. D \in Seq(Int) /\ B \in Seq(Int)
        BY <2>3, <2>4, Zenon
      <4>2. /\ D \o B \in Seq(Int) /\ Len(D \o B) = Len(D) + Len(B)
            /\ \A j \in 1 .. Len(D) : (D \o B)[j] = D[j]
            /\ \A j \in 1 .. Len(B) : (D \o B)[Len(D) + j] = B[j]
        BY <4>1, ConcatLemma
      <4> QED
        BY <4>2, Zenon
    <3> HIDE DEF E
    <3> QED
      BY <2>3, <2>4, <3>1
  <2> HIDE DEF E
  <2>6. Text(v) = A \o E
    BY <2>1, Zenon DEF E
  <2>7. /\ Text(v) \in Seq(Int) /\ Len(Text(v)) = Wide(v[1]) + (1 + Wide(v[2]))
        /\ \A j \in 1 .. Wide(v[1]) : Text(v)[j] = A[j]
        /\ \A j \in 1 .. 1 + Wide(v[2]) : Text(v)[Wide(v[1]) + j] = E[j]
    <3>1. /\ Text(v) \in Seq(Int) /\ Len(Text(v)) = Len(A) + Len(E) /\ \A j \in 1 .. Len(A) : Text(v)[j] = A[j]
          /\ \A j \in 1 .. Len(E) : Text(v)[Len(A) + j] = E[j]
      <4>1. A \in Seq(Int) /\ E \in Seq(Int)
        BY <1>2, <2>5, Zenon
      <4>2. /\ A \o E \in Seq(Int) /\ Len(A \o E) = Len(A) + Len(E)
            /\ \A j \in 1 .. Len(A) : (A \o E)[j] = A[j]
            /\ \A j \in 1 .. Len(E) : (A \o E)[Len(A) + j] = E[j]
        BY <4>1, ConcatLemma
      <4> QED
        BY <2>6, <4>2, Zenon
    <3> QED
      BY <1>2, <2>5, <3>1, Zenon
  <2>8. Text(v)[Wide(v[1]) + 1] = -1
    BY <2>3, <2>5, <2>7
  <2>9. ASSUME NEW j \in 1 .. Wide(v[2]) PROVE Text(v)[Wide(v[1]) + 1 + j] = B[j]
    <3>1. 1 + j \in 1 .. 1 + Wide(v[2]) /\ Wide(v[1]) + (1 + j) = Wide(v[1]) + 1 + j
      BY <1>2, <2>3
    <3> QED
      BY <2>5, <2>7, <3>1, Zenon
  <2>10. Wide(v[1]) + (1 + Wide(v[2])) = Wide(v[1]) + 1 + Wide(v[2])
    BY <1>2, <2>3
  <2> QED
    BY <1>2, <1>4, <2>3, <2>7, <2>8, <2>9, <2>10, Zenon DEF A, B
<1> QED
  BY <1>3, <1>4

\* Compared as texts or as numbers, a version is above another one alike, as
\* long as the higher one has no more digits.
LEMMA VersionLemma ==
    ASSUME NEW v, NEW w, IsVersion(v), IsVersion(w), Comparable(v, w), ~TextAbove(v, w)
    PROVE  NotAbove(v, w)
<1> DEFINE a == Text(v)  b == Text(w)  vm == v[1]  vn == v[2]  wm == w[1]  wn == w[2]
<1>1. Numeral(vm) /\ (vn = -1 \/ Numeral(vn)) /\ Numeral(wm) /\ (wn = -1 \/ Numeral(wn))
  BY Zenon DEF IsVersion
<1>c. /\ Wide(vm) <= Wide(wm)
      /\ vm = wm /\ vn # -1 /\ wn # -1 => Wide(vn) <= Wide(wn)
  BY Zenon DEF Comparable
<1>t. /\ a \in Seq(Int) /\ b \in Seq(Int) /\ Wide(vm) \in 1 .. 3 /\ Wide(wm) \in 1 .. 3
      /\ \A j \in 1 .. Wide(vm) : a[j] = Digits(vm)[j]
      /\ \A j \in 1 .. Wide(wm) : b[j] = Digits(wm)[j]
      /\ vn = -1 => Len(a) = Wide(vm)
      /\ wn = -1 => Len(b) = Wide(wm)
      /\ vn # -1 => /\ Wide(vn) \in 1 .. 3 /\ Len(a) = Wide(vm) + 1 + Wide(vn) /\ a[Wide(vm) + 1] = -1
                    /\ \A j \in 1 .. Wide(vn) : a[Wide(vm) + 1 + j] = Digits(vn)[j]
      /\ wn # -1 => /\ Wide(wn) \in 1 .. 3 /\ Len(b) = Wide(wm) + 1 + Wide(wn) /\ b[Wide(wm) + 1] = -1
                    /\ \A j \in 1 .. Wide(wn) : b[Wide(wm) + 1 + j] = Digits(wn)[j]
  BY TextLemma, ZenonT(30)
<1>4. ~\E i \in DOMAIN a \intersect DOMAIN b : a[i] > b[i] /\ \A j \in 1 .. i - 1 : a[j] = b[j]
  BY Zenon DEF TextAbove
<1>5. ~(Len(a) > Len(b) /\ \A j \in DOMAIN b : a[j] = b[j])
  BY Zenon DEF TextAbove
<1> SUFFICES ~(vm > wm) /\ ~(vm = wm /\ vn > wn)
  <2> SUFFICES vm < wm \/ (vm = wm /\ vn <= wn)
    BY Zenon DEF NotAbove
  <2> HIDE DEF vm, vn, wm, wn
  <2>n. -1 \in Int /\ \A n : Numeral(n) => n \in Int
    BY DEF Numeral
  <2>1. vm \in Int /\ wm \in Int /\ vn \in Int /\ wn \in Int
    BY <1>1, <2>n, Zenon
  <2> QED
    BY <2>1
<1> HIDE DEF a, b, vm, vn, wm, wn
<1>2. /\ Len(a) \in Nat /\ Len(b) \in Nat /\ DOMAIN a = 1 .. Len(a) /\ DOMAIN b = 1 .. Len(b)
      /\ Wide(vm) \in 1 .. 3 /\ Wide(wm) \in 1 .. 3
      /\ \A j \in 1 .. Wide(vm) : a[j] = Digits(vm)[j]
      /\ \A j \in 1 .. Wide(wm) : b[j] = Digits(wm)[j]
  <2>1. a \in Seq(Int) /\ b \in Seq(Int)
    BY <1>t, Zenon
  <2>2. Len(a) \in Nat /\ Len(b) \in Nat /\ DOMAIN a = 1 .. Len(a) /\ DOMAIN b = 1 .. Len(b)
    BY <2>1
  <2> QED
    BY <2>2, <1>t, Zenon
<1>3. Wide(vm) <= Len(a) /\ Wide(wm) <= Len(b)
  <2>1. /\ vn = -1 => Len(a) = Wide(vm)
        /\ vn # -1 => Wide(vn) \in 1 .. 3 /\ Len(a) = Wide(vm) + 1 + Wide(vn)
    BY <1>t, Zenon
  <2>2. /\ wn = -1 => Len(b) = Wide(wm)
        /\ wn # -1 => Wide(wn) \in 1 .. 3 /\ Len(b) = Wide(wm) + 1 + Wide(wn)
    BY <1>t, Zenon
  <2> QED
    BY <1>2, <2>1, <2>2, SMTT(30)
<1>6. ~(vm > wm)
  <2> SUFFICES ASSUME vm > wm PROVE FALSE
    BY Zenon
  <2>1. Wide(vm) <= Wide(wm)
    BY <1>c, Zenon
  <2>2. PICK i \in 1 .. Wide(wm) : /\ i <= Wide(vm) /\ Digits(vm)[i] > Digits(wm)[i]
                                     /\ \A j \in 1 .. i - 1 : Digits(vm)[j] = Digits(wm)[j]
    BY <1>1, <2>1, NumberLemma, Zenon
  <2>3. i \in DOMAIN a \intersect DOMAIN b /\ i \in 1 .. Wide(vm)
    BY <1>2, <1>3, <2>2
  <2>4. \A j \in 1 .. i - 1 : j \in 1 .. Wide(vm) /\ j \in 1 .. Wide(wm)
    BY <1>2, <2>2
  <2>5. a[i] > b[i] /\ \A j \in 1 .. i - 1 : a[j] = b[j]
    BY <1>2, <2>2, <2>3, <2>4, Zenon
  <2> QED
    BY <1>4, <2>3, <2>5
<1>7. ~(vm = wm /\ vn > wn)
  <2> SUFFICES ASSUME vm = wm, vn > wn PROVE FALSE
    BY ZenonT(60)
  <2>1. vn # -1 /\ Numeral(vn)
    BY <1>1, SMTT(30) DEF Numeral
  <2>2. /\ Wide(vn) \in 1 .. 3 /\ Len(a) = Wide(vm) + 1 + Wide(vn) /\ a[Wide(vm) + 1] = -1
        /\ \A j \in 1 .. Wide(vn) : a[Wide(vm) + 1 + j] = Digits(vn)[j]
    BY <2>1, <1>t, Zenon
  <2>3. \A j \in 1 .. Wide(wm) : a[j] = b[j]
    BY <1>2, Zenon
  <2>4. CASE wn = -1
    <3>1. Len(b) = Wide(wm)
      BY <2>4, <1>t, Zenon
    <3>2. \A j \in DOMAIN b : a[j] = b[j]
      BY <1>2, <2>3, <3>1, ZenonT(60)
    <3>3. Len(a) > Len(b)
      BY <1>2, <2>2, <3>1
    <3> QED
      BY <1>5, <3>2, <3>3, Zenon
  <2>5. CASE wn # -1
    <3>1. Numeral(wn) /\ Wide(vn) <= Wide(wn)
      BY <1>1, <1>c, <2>1, <2>5
    <3>2. /\ Wide(wn) \in 1 .. 3 /\ Len(b) = Wide(wm) + 1 + Wide(wn) /\ b[Wide(wm) + 1] = -1
          /\ \A j \in 1 .. Wide(wn) : b[Wide(wm) + 1 + j] = Digits(wn)[j]
      BY <2>5, <1>t, Zenon
    <3>3. PICK i \in 1 .. Wide(wn) : /\ i <= Wide(vn) /\ Digits(vn)[i] > Digits(wn)[i]
                                       /\ \A j \in 1 .. i - 1 : Digits(vn)[j] = Digits(wn)[j]
      BY <2>1, <3>1, NumberLemma, ZenonT(60)
    <3> DEFINE k == Wide(wm) + 1
    <3>4. k + i \in DOMAIN a \intersect DOMAIN b /\ i \in 1 .. Wide(vn)
      BY <1>2, <2>2, <3>2, <3>3, SMTT(30)
    <3>5. k \in Nat /\ i \in Nat
      BY <1>2, <3>2
    <3>6. a[k + i] > b[k + i]
      BY <2>2, <3>2, <3>3, <3>4, ZenonT(60)
    <3>7. ASSUME NEW j \in 1 .. (k + i) - 1 PROVE a[j] = b[j]
      <4>1. CASE j <= Wide(wm)
        BY <1>2, <2>3, <4>1
      <4>2. CASE j = k
        BY <2>2, <3>2, <4>2, Zenon
      <4>3. CASE j > k
        <5>1. /\ j - k \in 1 .. i - 1 /\ j - k \in 1 .. Wide(vn) /\ j - k \in 1 .. Wide(wn)
              /\ k + (j - k) = j
          <6>1. i <= Wide(vn) /\ i <= Wide(wn) /\ Wide(vn) \in Nat /\ Wide(wn) \in Nat /\ j \in Nat
            BY <2>2, <3>2, <3>4, <3>5, SMTT(30)
          <6> HIDE DEF k
          <6>2. j - k \in 1 .. i - 1 /\ k + (j - k) = j
            BY <3>5, <4>3, <6>1
          <6> QED
            BY <3>5, <6>1, <6>2
        <5> DEFINE d == j - k
        <5> HIDE DEF d
        <5>2. a[k + d] = Digits(vn)[d] /\ b[k + d] = Digits(wn)[d] /\ Digits(vn)[d] = Digits(wn)[d]
          BY <2>2, <3>2, <3>3, <5>1, Zenon DEF d
        <5> QED
          BY <5>1, <5>2, Zenon DEF d
      <4> QED
        BY <1>2, <3>5, <4>1, <4>2, <4>3
    <3> QED
      BY <1>4, <3>4, <3>6, <3>7, ZenonT(60)
  <2> QED
    BY <2>4, <2>5, Zenon
<1> QED
  BY <1>6, <1>7, Zenon
Less == {p \in Nat \X Nat : p[1] < p[2]}

\* A set of numbers that is not empty has a least one.
LEMMA LeastLemma ==
    ASSUME NEW S \in SUBSET Nat, S # {}
    PROVE  \E m \in S : \A n \in S : m <= n
<1>1. IsWellFoundedOn(Less, Nat)
  BY NatLessThanWellFounded, Zenon DEF OpToRel, Less
<1>2. PICK m \in S : \A n \in S : <<n, m>> \notin Less
  BY <1>1, WFMin, Zenon
<1>3. \A n \in S : ~(n < m)
  <2> SUFFICES ASSUME NEW n \in S, n < m PROVE FALSE
    BY Zenon
  <2>1. <<n, m>> \in Nat \X Nat
    BY Zenon
  <2>2. <<n, m>> \in Less
    BY <2>1, Zenon DEF Less
  <2> QED
    BY <1>2, <2>2, Zenon
<1>4. m \in Nat /\ \A n \in S : n \in Nat
  BY Zenon
<1> QED
  BY <1>2, <1>3, <1>4


\* The port of a service tells a type that the cloud has versions of.
LEMMA PortLemma ==
    ASSUME NEW p, NEW i, PortType(p, i) # "none"
    PROVE  IsVersion(ServiceLastVersion(PortType(p, i)))
<1>1. PortType(p, i) \in {"mariadb", "oracle-mysql", "mysql", "postgresql", "redis", "memcached", "rabbitmq",
                          "elasticsearch", "mongodb", "kafka"}
  BY DEF PortType
<1>2. /\ ServiceLastVersion("mariadb") = <<11, 8>> /\ ServiceLastVersion("oracle-mysql") = <<8, 4>>
      /\ ServiceLastVersion("mysql") = <<11, 8>> /\ ServiceLastVersion("postgresql") = <<18, -1>>
      /\ ServiceLastVersion("redis") = <<8, 0>> /\ ServiceLastVersion("memcached") = <<1, 6>>
      /\ ServiceLastVersion("rabbitmq") = <<4, 1>> /\ ServiceLastVersion("elasticsearch") = <<7, 10>>
      /\ ServiceLastVersion("mongodb") = <<4, 0>> /\ ServiceLastVersion("kafka") = <<3, 7>>
  BY Zenon DEF ServiceLastVersion
<1>3. /\ IsVersion(<<11, 8>>) /\ IsVersion(<<8, 4>>) /\ IsVersion(<<18, -1>>) /\ IsVersion(<<8, 0>>)
      /\ IsVersion(<<1, 6>>) /\ IsVersion(<<4, 1>>) /\ IsVersion(<<7, 10>>) /\ IsVersion(<<4, 0>>)
      /\ IsVersion(<<3, 7>>)
  BY DEF IsVersion, Numeral
<1> QED
  BY <1>1, <1>2, <1>3, Zenon

\* A service that has a known port has a type.
LEMMA TypeLemma ==
    ASSUME NEW c, c.ports \in Seq(Nat), Known(c) # {}
    PROVE  DockerType(c) # "none" /\ IsVersion(ServiceLastVersion(DockerType(c)))
<1>1. Known(c) \subseteq Nat
  BY DEF Known
<1>2. PICK m \in Known(c) : \A n \in Known(c) : m <= n
  BY <1>1, LeastLemma, Zenon
<1>3. Min(Known(c)) \in Known(c)
  BY <1>2, Zenon DEF Min
<1>4. DockerType(c) # "none"
  BY <1>3, Zenon DEF Known, DockerType
<1> QED
  BY <1>4, PortLemma, Zenon DEF DockerType

\* The version that is written is not above the last one of the cloud.
LEMMA ClampLemma ==
    ASSUME NEW type, NEW tag, IsVersion(ServiceLastVersion(type)),
           tag # NoVersion => IsVersion(tag) /\ Comparable(tag, ServiceLastVersion(type))
    PROVE  NotAbove(Clamp(type, tag), ServiceLastVersion(type))
<1> DEFINE w == ServiceLastVersion(type)
<1>1. NotAbove(w, w)
  <2>1. w[2] <= w[2]
    <3>1. w[2] = -1 \/ Numeral(w[2])
      BY Zenon DEF IsVersion
    <3> HIDE DEF w
    <3> QED
      BY <3>1, SMTT(30) DEF Numeral
  <2> QED
    BY <2>1, ZenonT(60) DEF NotAbove
<1>2. CASE tag = NoVersion \/ TextAbove(tag, w)
  BY <1>1, <1>2, Zenon DEF Clamp
<1>3. CASE tag # NoVersion /\ ~TextAbove(tag, w)
  <2>1. NotAbove(tag, w)
    BY <1>3, VersionLemma, Zenon
  <2> QED
    BY <1>3, <2>1, Zenon DEF Clamp
<1> QED
  BY <1>2, <1>3, Zenon

\* What a project asks for: the images are those of Docker Compose, and for
\* none of them a newer version has more digits than the last of the cloud.
IsSite(s) ==
    /\ IsFiniteSet(s.docker)
    /\ \A c \in s.docker :
          /\ c.name # "none" /\ c.ports \in Seq(Nat)
          /\ Known(c) # {} /\ c.tag # NoVersion =>
                IsVersion(c.tag) /\ Comparable(c.tag, ServiceLastVersion(DockerType(c)))
    /\ Len(s.flags) \in Nat /\ DOMAIN s.flags = 1 .. Len(s.flags)
    /\ \A i \in DOMAIN s.flags : s.flags[i].name # "none"
    /\ Len(s.templates) \in Nat

SiteSpec ==
    /\ \E s : \E at \in {"git", "services"} : IsSite(s) /\ SiteInit(s, at)
    /\ [][SiteNext]_siteVars

\* No template of those looked at fits the project, and what is reported is
\* what is generated.
SiteInv ==
    /\ IsSite(site) /\ SiteTypeOK /\ SetupSound
    /\ setupAt \in {"git", "services", "fetch"} => tried = 0
    /\ setupAt = "choose" /\ site.template # "url" =>
         \A i \in 1 .. tried : ~Fits(site.templates[i])
    /\ setupAt # "failed" => created = {f \in DOMAIN siteFiles : siteFiles[f] = "generated"}

\* What a service of a flag, and one of Docker Compose, have.
LEMMA ServiceLemma ==
    ASSUME NEW name, NEW type, NEW version, name # "none", type # "none"
    PROVE  /\ Service(name, type, version).type = type /\ Service(name, type, version).version = version
           /\ Service(name, type, version).name # "none" /\ Service(name, type, version).type # "none"
           /\ Service(name, type, version).endpoint # "none"
<1>1. Endpoint(type) # "none"
  BY Zenon DEF Endpoint
<1> QED
  BY <1>1, Zenon DEF Service

\* Whether a template fits only depends on the project and its files.
LEMMA FitsLemma ==
    ASSUME site' = site, siteFiles' = siteFiles
    PROVE  \A t : Fits(t)' = Fits(t)
<1>1. \A r : Holds(r)' = Holds(r)
  BY Zenon DEF Holds, hasComposerPackage, hasPHPExtension
<1>2. \A t : Match(t)' = Match(t)
  BY <1>1, Zenon DEF Match
<1> QED
  BY <1>2, Zenon DEF Fits

\* The services of the flags come first, those of Docker Compose after them.
LEMMA ServicesStep ==
    ASSUME SiteInv, parseCloudServices, setupAt' = "fetch"
    PROVE  /\ \A i \in DOMAIN services' :
                 "none" \notin {services'[i].name, services'[i].type, services'[i].endpoint}
           /\ \A i \in Len(site.flags) + 1 .. Len(services') :
                 NotAbove(services'[i].version, ServiceLastVersion(services'[i].type))
<1> DEFINE C == {c \in site.docker : Known(c) # {}}
           D == {parseDockerService(c) : c \in C}
           n == Cardinality(D)
           k == Len(site.flags)
           F == [i \in DOMAIN site.flags |-> parseCLIService(site.flags[i])]
           R == {parseCLIService(site.flags[i]) : i \in DOMAIN site.flags}
           Named(v) == "none" \notin {v.name, v.type, v.endpoint}
           Good(v) == Named(v) /\ NotAbove(v.version, ServiceLastVersion(v.type))
<1>1. PICK s \in Bijection(1 .. n, D) : services' = F \o s
  BY Zenon DEF parseCloudServices
<1>2. IsFiniteSet(site.docker) /\ k \in Nat /\ DOMAIN site.flags = 1 .. k
  BY Zenon DEF SiteInv, IsSite
<1>3. IsFiniteSet(D)
  <2>1. IsFiniteSet(C)
    BY <1>2, FS_Subset, Zenon
  <2> DEFINE h == [c \in C |-> parseDockerService(c)]
  <2>2. h \in Surjection(C, D)
    BY Zenon DEF Surjection
  <2> QED
    BY <2>1, <2>2, FS_Surjection
<1>4. \A v \in D : Good(v)
  <2> SUFFICES ASSUME NEW c \in C PROVE Good(parseDockerService(c))
    BY Zenon
  <2>1. /\ c.name # "none" /\ c.ports \in Seq(Nat) /\ Known(c) # {}
        /\ c.tag # NoVersion =>
              IsVersion(c.tag) /\ Comparable(c.tag, ServiceLastVersion(DockerType(c)))
    BY Zenon DEF SiteInv, IsSite
  <2>2. DockerType(c) # "none" /\ IsVersion(ServiceLastVersion(DockerType(c)))
    BY <2>1, TypeLemma, Zenon
  <2>3. NotAbove(Clamp(DockerType(c), c.tag), ServiceLastVersion(DockerType(c)))
    BY <2>1, <2>2, ClampLemma, Zenon
  <2> DEFINE v == parseDockerService(c)
  <2>4. v.type = DockerType(c) /\ v.version = Clamp(DockerType(c), c.tag) /\ v.name # "none"
          /\ v.type # "none" /\ v.endpoint # "none"
    BY <2>1, <2>2, ServiceLemma DEF parseDockerService
  <2> HIDE DEF v
  <2>5. Good(v)
    BY <2>3, <2>4, Zenon
  <2> QED
    BY <2>5, Zenon DEF v
<1>5. \A v \in R : Named(v)
  <2> SUFFICES ASSUME NEW i \in DOMAIN site.flags PROVE Named(parseCLIService(site.flags[i]))
    BY Zenon
  <2>1. site.flags[i].name # "none"
    BY Zenon DEF SiteInv, IsSite
  <2> DEFINE v == parseCLIService(site.flags[i])
             type == IF site.flags[i].type = "none" THEN site.flags[i].name ELSE site.flags[i].type
  <2>2. type # "none"
    BY <2>1, Zenon
  <2>3. PICK version : v = Service(site.flags[i].name, type, version)
    BY Zenon DEF parseCLIService
  <2> HIDE DEF v, type
  <2>4. v.name # "none" /\ v.type # "none" /\ v.endpoint # "none"
    BY <2>1, <2>2, <2>3, ServiceLemma
  <2>5. Named(v)
    BY <2>4, Zenon
  <2> QED
    BY <2>5, Zenon DEF v
<1>6. n \in Nat
  BY <1>3, FS_CardinalityType, Zenon
<1>7. s \in [1 .. n -> D]
  BY <1>1, Zenon DEF Bijection, Injection
<1>8. \A v \in R \union D : Named(v)
  BY <1>4, <1>5, Zenon
<1>9. F \in [1 .. k -> R]
  BY <1>2, Zenon
<1> HIDE DEF n, k, D, R, F, Good, Named
<1> DEFINE U == R \union D
<1>10. s \in Seq(U) /\ Len(s) = n
  BY <1>6, <1>7
<1>11. F \in Seq(U) /\ Len(F) = k
  BY <1>2, <1>9
<1>u. \A v \in U : Named(v)
  BY <1>8, Zenon
<1> HIDE DEF U
<1>12. /\ F \o s \in Seq(U) /\ Len(F \o s) = k + n
       /\ \A j \in 1 .. n : (F \o s)[k + j] = s[j]
  <2>1. F \in Seq(U) /\ s \in Seq(U)
    BY <1>10, <1>11, Zenon
  <2>2. /\ F \o s \in Seq(U) /\ Len(F \o s) = Len(F) + Len(s)
        /\ \A j \in 1 .. Len(s) : (F \o s)[Len(F) + j] = s[j]
    BY <2>1, ConcatLemma
  <2> QED
    BY <1>10, <1>11, <2>2, Zenon
<1>13. \A i \in DOMAIN services' : Named(services'[i])
  BY <1>1, <1>u, <1>12
<1>14. ASSUME NEW i \in k + 1 .. Len(services') PROVE Good(services'[i])
  <2>1. i - k \in 1 .. n /\ k + (i - k) = i
    BY <1>1, <1>2, <1>6, <1>12
  <2>2. services'[i] = s[i - k] /\ s[i - k] \in D
    BY <1>1, <1>7, <1>12, <2>1, Zenon
  <2> QED
    BY <1>4, <2>2, Zenon
<1> QED
  BY <1>13, <1>14, Zenon DEF Good, Named, k

\* The steps up to the one that writes leave the files alone.
LEMMA QuietStep ==
    ASSUME SiteInv, site' = site, siteFiles' = siteFiles, created' = created,
           setupAt # "failed",
           setupAt' \in {"off", "git", "services", "fetch", "choose", "files", "write", "done", "failed"},
           tried' \in 0 .. Len(site.templates), chosen' \in 0 .. tried',
           \A i \in DOMAIN services' :
              "none" \notin {services'[i].name, services'[i].type, services'[i].endpoint},
           NotNewer', FirstFit',
           setupAt' \in {"git", "services", "fetch"} => tried' = 0,
           setupAt' = "choose" /\ site.template # "url" =>
              \A i \in 1 .. tried' : ~Fits(site.templates[i])'
    PROVE  SiteInv'
<1>1. IsSite(site)'
  BY Zenon DEF SiteInv, IsSite
<1>2. SiteTypeOK'
  BY Zenon DEF SiteInv, SiteTypeOK
<1>3. created' = {f \in DOMAIN siteFiles' : siteFiles'[f] = "generated"}
  BY Zenon DEF SiteInv
<1>4. UserFilesKept'
  BY Zenon DEF SiteInv, SetupSound, UserFilesKept
<1>5. SetupSound'
  BY <1>3, <1>4, Zenon DEF SetupSound, ReportIsExact
<1> QED
  BY <1>1, <1>2, <1>3, <1>5, Zenon DEF SiteInv

\* A template is used when it is the first that fits.
LEMMA TemplateStep ==
    ASSUME SiteInv, TryTemplate PROVE SiteInv'
<1> DEFINE t == site.templates[tried + 1]
           named == site.template = t.name
<1>1. /\ setupAt = "choose" /\ site.template # "url" /\ tried' = tried + 1 /\ tried < Len(site.templates)
      /\ site' = site /\ services' = services /\ siteFiles' = siteFiles /\ created' = created
  BY Zenon DEF TryTemplate
<1>2. /\ tried \in Nat /\ chosen \in 0 .. tried /\ Len(site.templates) \in Nat
      /\ \A i \in DOMAIN services : "none" \notin {services[i].name, services[i].type, services[i].endpoint}
      /\ NotNewer
      /\ \A i \in 1 .. tried : ~Fits(site.templates[i])
  BY <1>1 DEF SiteInv, SiteTypeOK, IsSite, SetupSound
<1>3. \A r : Fits(r)' = Fits(r)
  BY <1>1, FitsLemma, Zenon
<1>4. \/ setupAt' = setupAt /\ chosen' = chosen /\ ~Fits(t)
      \/ setupAt' = "failed" /\ chosen' = chosen
      \/ setupAt' = "files" /\ chosen' = tried + 1 /\ Fits(t)
  BY Zenon DEF TryTemplate, Fits
<1>5. tried' \in 0 .. Len(site.templates) /\ chosen' \in 0 .. tried'
  BY <1>1, <1>2, <1>4
<1>6. NotNewer'
  BY <1>1, <1>2, <1>4, Zenon DEF NotNewer
<1>7. FirstFit'
  <2>1. CASE setupAt' = "files"
    <3>1. chosen' = tried + 1 /\ Fits(t) /\ \A i \in 1 .. (tried + 1) - 1 : i \in 1 .. tried
      BY <1>1, <1>2, <1>4, <2>1
    <3> QED
      BY <1>1, <1>2, <1>3, <3>1, Zenon DEF FirstFit
  <2> QED
    BY <2>1, Zenon DEF FirstFit
<1>8. setupAt' = "choose" => \A i \in 1 .. tried' : ~Fits(site.templates[i])'
  <2> SUFFICES ASSUME setupAt' = "choose", NEW i \in 1 .. tried + 1 PROVE ~Fits(site.templates[i])'
    BY <1>1, Zenon
  <2>1. ~Fits(t)
    BY <1>1, <1>4, Zenon
  <2>2. i \in 1 .. tried \/ i = tried + 1
    BY <1>2
  <2>3. ~Fits(site.templates[i])
    BY <1>2, <2>1, <2>2
  <2> QED
    BY <1>1, <1>3, <2>3, Zenon
<1>9. setupAt' \in {"choose", "failed", "files"}
  BY <1>1, <1>4
<1> QED
  BY <1>1, <1>2, <1>5, <1>6, <1>7, <1>8, <1>9, QuietStep

\* A file is written when it is not there, or with --force.
LEMMA WriteStep ==
    ASSUME SiteInv, WriteSiteFile PROVE SiteInv'
<1>1. /\ setupAt = "write" /\ site' = site /\ services' = services /\ tried' = tried /\ chosen' = chosen
      /\ setupAt' \in {"write", "failed"}
  BY Zenon DEF WriteSiteFile
<1>2. \/ siteFiles' = siteFiles /\ created' = created
      \/ setupAt' = "failed" /\ siteFiles' = siteFiles
      \/ \E f : /\ f \in DOMAIN siteFiles => site.force
                /\ created' = created \union {f} /\ siteFiles' = Written(f)
  BY Zenon DEF WriteSiteFile
<1>3. /\ SiteTypeOK /\ created = {f \in DOMAIN siteFiles : siteFiles[f] = "generated"} /\ UserFilesKept
  BY <1>1, Zenon DEF SiteInv, SetupSound
<1>4. CASE siteFiles' = siteFiles /\ (setupAt' = "failed" \/ created' = created)
  <2>1. IsSite(site)'
    BY <1>1, Zenon DEF SiteInv, IsSite
  <2>2. SiteTypeOK'
    BY <1>1, <1>3, <1>4 DEF SiteTypeOK
  <2>3. setupAt' # "failed" => created' = {f \in DOMAIN siteFiles' : siteFiles'[f] = "generated"}
    BY <1>3, <1>4, Zenon
  <2>4. UserFilesKept'
    BY <1>1, <1>3, <1>4 DEF UserFilesKept
  <2> QED
    BY <1>1, <2>1, <2>2, <2>3, <2>4 DEF SiteInv, SetupSound, ReportIsExact, NotNewer, FirstFit
<1>5. ASSUME NEW f, f \in DOMAIN siteFiles => site.force,
             created' = created \union {f}, siteFiles' = Written(f)
      PROVE  SiteInv'
  <2>1. IsSite(site)'
    BY <1>1, Zenon DEF SiteInv, IsSite
  <2>2. /\ DOMAIN siteFiles' = DOMAIN siteFiles \union {f}
        /\ \A g \in DOMAIN siteFiles' : siteFiles'[g] = IF g = f THEN "generated" ELSE siteFiles[g]
    BY <1>5, Zenon DEF Written
  <2>3. SiteTypeOK'
    BY <1>1, <1>3, <2>2 DEF SiteTypeOK
  <2>4. created' = {g \in DOMAIN siteFiles' : siteFiles'[g] = "generated"}
    BY <1>3, <1>5, <2>2
  <2>5. UserFilesKept'
    BY <1>1, <1>3, <1>5, <2>2 DEF UserFilesKept
  <2> QED
    BY <1>1, <2>1, <2>3, <2>4, <2>5 DEF SiteInv, SetupSound, ReportIsExact, NotNewer, FirstFit
<1> QED
  BY <1>2, <1>4, <1>5

\* Every step of project:init.
LEMMA SiteStep ==
    ASSUME SiteInv, [SiteNext]_siteVars PROVE SiteInv'
<1>0. /\ tried \in 0 .. Len(site.templates) /\ chosen \in 0 .. tried /\ Len(site.templates) \in Nat
      /\ \A i \in DOMAIN services : "none" \notin {services[i].name, services[i].type, services[i].endpoint}
      /\ setupAt \in {"off", "git", "services", "fetch", "choose", "files", "write", "done", "failed"}
      /\ NotNewer /\ FirstFit
  BY Zenon DEF SiteInv, SiteTypeOK, IsSite, SetupSound
<1>1. CASE gitInit
  <2>1. NotNewer' /\ FirstFit'
    BY <1>1, Zenon DEF gitInit, NotNewer, FirstFit
  <2>2. tried' = 0
    BY <1>1, Zenon DEF gitInit, SiteInv
  <2> QED
    BY <1>0, <1>1, <2>1, <2>2, QuietStep DEF gitInit
<1>2. CASE parseCloudServices
  <2>1. FirstFit' /\ tried' = 0 /\ tried' = tried /\ chosen' = chosen
    BY <1>2, Zenon DEF parseCloudServices, SiteInv, FirstFit
  <2>2. CASE setupAt' = "fetch"
    <3>1. NotNewer'
      BY <1>2, <2>2, ServicesStep, Zenon DEF NotNewer, NotAbove, parseCloudServices
    <3> QED
      BY <1>0, <1>2, <2>1, <2>2, <3>1, ServicesStep, QuietStep, Zenon DEF parseCloudServices
  <2>3. CASE setupAt' = "failed" /\ services' = services
    <3>1. NotNewer'
      BY <2>3, Zenon DEF NotNewer
    <3> QED
      BY <1>0, <1>2, <2>1, <2>3, <3>1, QuietStep DEF parseCloudServices
  <2> QED
    BY <1>2, <2>2, <2>3 DEF parseCloudServices
<1>3. CASE FetchTemplates
  <2>1. NotNewer' /\ FirstFit' /\ tried' = 0
    BY <1>0, <1>3, Zenon DEF FetchTemplates, NotNewer, FirstFit, SiteInv
  <2> QED
    BY <1>0, <1>3, <2>1, QuietStep DEF FetchTemplates
<1>4. CASE GivenTemplate
  <2>1. NotNewer' /\ FirstFit' /\ tried' \in 0 .. Len(site.templates) /\ chosen' \in 0 .. tried'
    BY <1>0, <1>4 DEF GivenTemplate, NotNewer, FirstFit
  <2> QED
    BY <1>0, <1>4, <2>1, QuietStep, SMTT(30) DEF GivenTemplate
<1>5. CASE NoTemplate \/ ListFiles \/ FilesWritten
  <2>1. NotNewer' /\ FirstFit'
    BY <1>5, Zenon DEF NoTemplate, ListFiles, FilesWritten, NotNewer, FirstFit
  <2> QED
    BY <1>0, <1>5, <2>1, QuietStep DEF NoTemplate, ListFiles, FilesWritten
<1>6. CASE UNCHANGED siteVars
  <2>1. \A t : Fits(t)' = Fits(t)
    BY <1>6, FitsLemma DEF siteVars
  <2>2. IsSite(site)'
    BY <1>6, Zenon DEF SiteInv, IsSite, siteVars
  <2>3. SiteTypeOK'
    BY <1>6, Zenon DEF SiteInv, SiteTypeOK, siteVars
  <2>4. NotNewer' /\ UserFilesKept' /\ ReportIsExact'
    BY <1>6, Zenon DEF SiteInv, SetupSound, NotNewer, UserFilesKept, ReportIsExact, siteVars
  <2>5. FirstFit'
    BY <1>0, <1>6, <2>1 DEF FirstFit, siteVars
  <2> QED
    BY <1>6, <2>1, <2>2, <2>3, <2>4, <2>5 DEF SiteInv, SetupSound, siteVars
<1> QED
  BY <1>1, <1>2, <1>3, <1>4, <1>5, <1>6, TemplateStep, WriteStep DEF SiteNext

\* SetupSound: for every project, no Docker image gives a service a version
\* newer than the cloud has, the template is the first that fits, a file of the
\* user is only replaced with --force and what is reported is what was written.
THEOREM SetupSoundAlways == SiteSpec => []SetupSound
<1>1. (\E s : \E at \in {"git", "services"} : IsSite(s) /\ SiteInit(s, at)) => SiteInv
  <2> SUFFICES ASSUME NEW s, NEW at \in {"git", "services"}, IsSite(s), SiteInit(s, at) PROVE SiteInv
    BY Zenon
  <2>1. IsSite(site)
    BY Zenon DEF SiteInit
  <2>2. SiteTypeOK
    BY <2>1 DEF SiteInit, SiteTypeOK, IsSite
  <2>3. created = {f \in DOMAIN siteFiles : siteFiles[f] = "generated"}
    BY Zenon DEF SiteInit
  <2>4. SetupSound
    BY <2>3, Zenon DEF SiteInit, SetupSound, NotNewer, FirstFit, UserFilesKept, ReportIsExact
  <2> QED
    BY <2>1, <2>2, <2>3, <2>4 DEF SiteInv, SiteInit
<1>2. SiteInv => SetupSound
  BY Zenon DEF SiteInv
<1> QED
  BY <1>1, <1>2, SiteStep, PTL DEF SiteSpec

-----------------------------------------------------------------------------
(* The application of a directory.                                         *)

\* A file declares finitely many applications, and every name has its place in
\* the alphabet.
IsTree(w) ==
    \A f \in DOMAIN w.files : w.files[f] # Garbled =>
        /\ IsFiniteSet(w.files[f])
        /\ \A a \in w.files[f] : \E i \in DOMAIN w.alphabet : w.alphabet[i] = a.name

AppSpec ==
    /\ \E w : IsTree(w) /\ w.alphabet \in Seq(STRING) /\ AppInit(w, "start")
    /\ [][AppNext]_appVars

Declared == UNION {Declares(f) : f \in findAppConfigFiles}

AppInv ==
    /\ IsTree(fs) /\ fs.alphabet \in Seq(STRING)
    /\ asked \in {"start", "parse", "select", "done"}
    /\ unparsed \subseteq findAppConfigFiles
    /\ apps \in Seq(Declared)
    /\ asked = "start" => apps = <<>>
    /\ asked = "parse" =>
         \A f \in findAppConfigFiles \ unparsed : \A a \in Declares(f) :
            \E i \in 1 .. Len(apps) : apps[i] = a
    /\ asked \in {"select", "done"} /\ apps # <<>> =>
         /\ \A a \in Declared : \E i \in 1 .. Len(apps) : apps[i] = a
         /\ \A i, j \in 1 .. Len(apps) : i < j => Rank(apps[i].name) <= Rank(apps[j].name)
    /\ SameApp

\* What the tree declares only depends on the tree.
LEMMA TreeLemma ==
    ASSUME UNCHANGED fs
    PROVE  /\ findAppConfigFiles' = findAppConfigFiles
           /\ \A f : Declares(f)' = Declares(f)
           /\ \A n : Rank(n)' = Rank(n)
<1>1. repositoryRoot' = repositoryRoot
  BY DEF repositoryRoot
<1>2. RootDir' = RootDir
  BY <1>1 DEF RootDir
<1>3. Inside' = Inside /\ \A f : Rel(f)' = Rel(f)
  BY <1>1, <1>2 DEF Inside, Rel
<1>4. GuessProduct' = GuessProduct
  BY <1>3 DEF GuessProduct
<1>5. findAppConfigFiles' = findAppConfigFiles
  BY <1>3, <1>4, Zenon DEF findAppConfigFiles
<1>6. ASSUME NEW f PROVE Declares(f)' = Declares(f)
  BY <1>2, <1>4 DEF Declares
<1> QED
  BY <1>5, <1>6 DEF Rank

\* The names that are declared have a place, a number, in the alphabet.
LEMMA RankLemma ==
    ASSUME AppInv, NEW a \in Declared
    PROVE  Rank(a.name) \in Int
<1>1. PICK f \in findAppConfigFiles : a \in Declares(f)
  BY DEF Declared
<1>2. f \in DOMAIN fs.files
  BY <1>1 DEF findAppConfigFiles, Inside
<1>3. fs.files[f] # Garbled /\ \E b \in fs.files[f] : a.name = b.name
  BY <1>1 DEF Declares
<1>4. \E i \in DOMAIN fs.alphabet : fs.alphabet[i] = a.name
  BY <1>2, <1>3 DEF AppInv, IsTree
<1>5. DOMAIN fs.alphabet \subseteq Int
  BY DEF AppInv
<1> QED
  BY <1>4, <1>5 DEF Rank

\* A file declares finitely many applications.
LEMMA FiniteLemma ==
    ASSUME AppInv, NEW f \in findAppConfigFiles
    PROVE  IsFiniteSet(Declares(f))
<1> DEFINE listed == GuessProduct = "flex" \/ HasSuffix(f, <<".platform", "applications.yaml">>)
           Local(a) == [name |-> a.name, root |-> IF listed THEN RootDir \o a.source ELSE Dir(f)]
<1>1. CASE fs.files[f] = Garbled
  BY <1>1, FS_EmptySet DEF Declares
<1>2. CASE fs.files[f] # Garbled
  <2>1. IsFiniteSet(fs.files[f])
    BY <1>2, SMTT(30) DEF AppInv, IsTree, findAppConfigFiles, Inside
  <2> DEFINE h == [a \in fs.files[f] |-> Local(a)]
  <2>2. h \in Surjection(fs.files[f], Declares(f))
    BY <1>2, Zenon DEF Surjection, Declares
  <2> QED
    BY <2>1, <2>2, FS_Surjection, SMTT(30)
<1> QED
  BY <1>1, <1>2

\* The applications of a file are added to those of the others.
LEMMA ParseStep ==
    ASSUME AppInv, ParseFile PROVE AppInv'
<1>1. PICK f \in unparsed :
        /\ unparsed' = unparsed \ {f}
        /\ \E s \in Bijection(1 .. Cardinality(Declares(f)), Declares(f)) : apps' = apps \o s
  BY DEF ParseFile
<1>2. PICK s \in Bijection(1 .. Cardinality(Declares(f)), Declares(f)) : apps' = apps \o s
  BY <1>1
<1>3. Declares(f) \subseteq Declared /\ f \in findAppConfigFiles
  BY DEF AppInv, Declared
<1> DEFINE n == Cardinality(Declares(f))
<1>4. n \in Nat
  BY <1>3, FiniteLemma, FS_CardinalityType
<1> HIDE DEF n
<1>5. s \in [1 .. n -> Declares(f)] /\ \A a \in Declares(f) : \E i \in 1 .. n : s[i] = a
  BY <1>2 DEF Bijection, Surjection, Injection, n
<1>6. s \in Seq(Declared) /\ Len(s) = n
  BY <1>3, <1>4, <1>5
<1>7. apps \in Seq(Declared)
  BY DEF AppInv
<1>8. apps' \in Seq(Declared) /\ Len(apps') = Len(apps) + n /\ Len(apps) \in Nat
        /\ (\A i \in 1 .. Len(apps) : apps'[i] = apps[i])
        /\ \A i \in 1 .. n : apps'[Len(apps) + i] = s[i]
  <2>1. Len(apps) \in Nat
    BY <1>7
  <2>2. /\ apps \o s \in Seq(Declared) /\ Len(apps \o s) = Len(apps) + Len(s)
        /\ \A i \in 1 .. Len(apps) + Len(s) : (apps \o s)[i] =
             IF i <= Len(apps) THEN apps[i] ELSE s[i - Len(apps)]
    BY <1>6, <1>7
  <2>3. \A i \in 1 .. n : Len(apps) + i \in 1 .. Len(apps) + n /\ ~(Len(apps) + i <= Len(apps))
                            /\ (Len(apps) + i) - Len(apps) = i
    BY <1>4, <2>1
  <2>4. \A i \in 1 .. Len(apps) : i \in 1 .. Len(apps) + n /\ i <= Len(apps)
    BY <1>4, <2>1
  <2> QED
    BY <1>2, <1>6, <2>1, <2>2, <2>3, <2>4
<1>9. ASSUME NEW g \in findAppConfigFiles \ unparsed', NEW a \in Declares(g)
      PROVE  \E i \in 1 .. Len(apps') : apps'[i] = a
  <2>1. CASE g = f
    <3>1. PICK i \in 1 .. n : s[i] = a
      BY <1>5, <1>9, <2>1
    <3>2. Len(apps) + i \in 1 .. Len(apps') /\ apps'[Len(apps) + i] = a
      BY <1>4, <1>8, <3>1
    <3> QED
      BY <3>2
  <2>2. CASE g # f
    <3>1. PICK i \in 1 .. Len(apps) : apps[i] = a
      BY <1>1, <1>9, <2>2 DEF AppInv, ParseFile
    <3>2. i \in 1 .. Len(apps') /\ apps'[i] = a
      BY <1>4, <1>8, <3>1
    <3> QED
      BY <3>2
  <2> QED
    BY <2>1, <2>2
<1>10. fs' = fs /\ asked' = asked /\ asked = "parse"
  BY DEF ParseFile
<1>11. findAppConfigFiles' = findAppConfigFiles /\ (\A g : Declares(g)' = Declares(g)) /\ Declared' = Declared
  BY <1>10, TreeLemma, SMTT(30) DEF Declared
<1>12. SameApp'
  BY <1>10, SMTT(30) DEF SameApp
<1>13. IsTree(fs)' /\ (fs.alphabet \in Seq(STRING))'
  BY <1>10 DEF AppInv, IsTree
<1>14. unparsed' \subseteq findAppConfigFiles'
  BY <1>1, <1>11 DEF AppInv
<1>15. \A g \in findAppConfigFiles' \ unparsed' : \A a \in Declares(g)' :
          \E i \in 1 .. Len(apps') : apps'[i] = a
  BY <1>9, <1>11, SMTT(30)
<1> QED
  BY <1>8, <1>10, <1>11, <1>12, <1>13, <1>14, <1>15 DEF AppInv

\* Sorting keeps the applications and orders them by name.
LEMMA SortStep ==
    ASSUME AppInv, SortApps PROVE AppInv'
<1>1. PICK p \in Bijection(DOMAIN apps, DOMAIN apps) :
        /\ apps' = [i \in DOMAIN apps |-> apps[p[i]]]
        /\ \A i, j \in DOMAIN apps : i < j => Rank(apps'[i].name) <= Rank(apps'[j].name)
  BY DEF SortApps, byName
<1>2. apps \in Seq(Declared) /\ Len(apps) \in Nat /\ DOMAIN apps = 1 .. Len(apps)
  BY DEF AppInv
<1>3. /\ \A i \in 1 .. Len(apps) : p[i] \in 1 .. Len(apps)
      /\ \A k \in 1 .. Len(apps) : \E i \in 1 .. Len(apps) : p[i] = k
  BY <1>1, <1>2, Zenon DEF Bijection, Surjection, Injection
<1>4. apps' \in [1 .. Len(apps) -> Declared]
  BY <1>1, <1>2, <1>3
<1>5. apps' \in Seq(Declared) /\ Len(apps') = Len(apps)
  BY <1>2, <1>4
<1>6. fs' = fs /\ unparsed' = unparsed /\ unparsed = {} /\ asked = "parse" /\ asked' = "select"
  BY DEF SortApps
<1>7. ASSUME NEW a \in Declared PROVE \E i \in 1 .. Len(apps') : apps'[i] = a
  <2>1. PICK k \in 1 .. Len(apps) : apps[k] = a
    BY <1>6, <1>7 DEF AppInv, Declared
  <2>2. PICK i \in 1 .. Len(apps) : p[i] = k
    BY <1>3
  <2> QED
    BY <1>1, <1>2, <1>5, <2>1, <2>2
<1>8. /\ findAppConfigFiles' = findAppConfigFiles /\ (\A g : Declares(g)' = Declares(g))
      /\ Declared' = Declared /\ \A n : Rank(n)' = Rank(n)
  BY <1>6, TreeLemma DEF Declared
<1>9. \A i, j \in 1 .. Len(apps') : i < j => Rank(apps[i].name)' <= Rank(apps[j].name)'
  <2>1. \A i, j \in 1 .. Len(apps') : i < j => Rank(apps'[i].name) <= Rank(apps'[j].name)
    BY <1>1, <1>2, <1>5
  <2>2. \A i : Rank(apps[i].name)' = Rank(apps'[i].name)
    BY <1>6 DEF Rank
  <2> QED
    BY <2>1, <2>2
<1>10. SameApp'
  BY <1>6 DEF SameApp
<1>11. IsTree(fs)' /\ (fs.alphabet \in Seq(STRING))'
  BY <1>6 DEF AppInv, IsTree
<1> QED
  BY <1>5, <1>6, <1>7, <1>8, <1>9, <1>10, <1>11, SMTT(30) DEF AppInv

\* The first application around the directory is the first one by name.
LEMMA GuessStep ==
    ASSUME AppInv, GuessSelectedApp PROVE SameApp'
<1> DEFINE around == {i \in DOMAIN apps : HasPrefix(fs.dir, apps[i].root)}
           names == {a.name : a \in {a \in Declared : Len(apps) = 1 \/ HasPrefix(fs.dir, a.root)}}
<1>1. asked = "select" /\ asked' = "done" /\ fs' = fs /\ apps' = apps
        /\ app' = IF Len(apps) = 1 THEN apps[1].name
                  ELSE IF around = {} THEN "none" ELSE apps[Min(around)].name
  BY DEF GuessSelectedApp
<1>2. SUFFICES ASSUME apps # <<>>
               PROVE  IF names = {} THEN app' = "none"
                      ELSE app' \in names /\ \A n \in names : Rank(app') <= Rank(n)
  <2>1. /\ findAppConfigFiles' = findAppConfigFiles /\ (\A g : Declares(g)' = Declares(g))
        /\ Declared' = Declared /\ \A n : Rank(n)' = Rank(n)
    BY <1>1, TreeLemma DEF Declared
  <2>2. \A n : Rank(app)' = Rank(app')
    BY <1>1 DEF Rank
  <2> QED
    BY <1>1, <2>1, <2>2, Zenon DEF SameApp, Declared
<1>3. apps \in Seq(Declared) /\ Len(apps) \in Nat /\ DOMAIN apps = 1 .. Len(apps)
        /\ \A i \in 1 .. Len(apps) : apps[i] \in Declared
  BY DEF AppInv
<1>4. /\ \A a \in Declared : \E i \in 1 .. Len(apps) : apps[i] = a
      /\ \A i, j \in 1 .. Len(apps) : i < j => Rank(apps[i].name) <= Rank(apps[j].name)
  BY <1>1, <1>2 DEF AppInv
<1>5. \A i \in 1 .. Len(apps) : Rank(apps[i].name) \in Int
  BY <1>3, RankLemma
<1>6. \A i, j \in 1 .. Len(apps) : i <= j => Rank(apps[i].name) <= Rank(apps[j].name)
  <2> SUFFICES ASSUME NEW i \in 1 .. Len(apps), NEW j \in 1 .. Len(apps), i <= j
               PROVE  Rank(apps[i].name) <= Rank(apps[j].name)
    OBVIOUS
  <2>1. i = j \/ i < j
    BY <1>3
  <2> QED
    BY <1>4, <1>5, <2>1
<1>7. CASE Len(apps) = 1
  <2>1. names = {apps[1].name}
    BY <1>3, <1>4, <1>7
  <2>2. Rank(apps[1].name) <= Rank(apps[1].name)
    BY <1>5, <1>7
  <2> HIDE DEF names
  <2> QED
    BY <1>1, <1>7, <2>1, <2>2, SMTT(30)
<1>8. CASE Len(apps) # 1
  <2>1. \A n \in names : \E i \in around : apps[i].name = n
    BY <1>3, <1>4, <1>8
  <2>2. \A i \in around : apps[i].name \in names /\ i \in 1 .. Len(apps)
    BY <1>3, <1>8
  <2>3. around \in SUBSET Nat
    BY <1>3
  <2> HIDE DEF around, names
  <2>4. CASE around = {}
    BY <1>1, <1>8, <2>1, <2>4, SMTT(30)
  <2>5. CASE around # {}
    <3>1. Min(around) \in around /\ \A i \in around : Min(around) <= i
      BY <2>3, <2>5, LeastLemma, Zenon DEF Min
    <3>2. app' = apps[Min(around)].name
      BY <1>1, <1>8, <2>5
    <3>3. \A n \in names : Rank(apps[Min(around)].name) <= Rank(n)
      BY <1>6, <2>1, <2>2, <3>1
    <3> QED
      BY <2>2, <3>1, <3>2, <3>3
  <2> QED
    BY <2>4, <2>5
<1> QED
  BY <1>7, <1>8, Zenon

\* Every step on the way to the application.
LEMMA AppStep ==
    ASSUME AppInv, [AppNext]_appVars PROVE AppInv'
<1>1. CASE ProjectFromDir
  <2>1. fs' = fs /\ apps' = apps /\ asked = "start" /\ asked' \in {"parse", "done"}
          /\ (unparsed' = unparsed \/ unparsed' = findAppConfigFiles)
          /\ (asked' = "parse" => unparsed' = findAppConfigFiles)
    BY <1>1 DEF ProjectFromDir
  <2>2. /\ findAppConfigFiles' = findAppConfigFiles /\ (\A g : Declares(g)' = Declares(g))
        /\ Declared' = Declared
    BY <2>1, TreeLemma, SMTT(30) DEF Declared
  <2>3. IsTree(fs)' /\ (fs.alphabet \in Seq(STRING))' /\ apps' = <<>>
    BY <2>1 DEF AppInv, IsTree
  <2>4. SameApp'
    BY <2>3 DEF SameApp
  <2> QED
    BY <2>1, <2>2, <2>3, <2>4 DEF AppInv
<1>2. CASE ParseFile
  BY <1>2, ParseStep
<1>3. CASE SortApps
  BY <1>3, SortStep, SMTT(30)
<1>4. ASSUME fs' = fs, apps' = apps, unparsed' = unparsed, SameApp',
             asked' = asked \/ (asked = "select" /\ asked' = "done")
      PROVE  AppInv'
  <2>2. /\ findAppConfigFiles' = findAppConfigFiles /\ (\A g : Declares(g)' = Declares(g))
        /\ Declared' = Declared
    BY <1>4, TreeLemma, SMTT(30) DEF Declared
  <2>3. IsTree(fs)' /\ (fs.alphabet \in Seq(STRING))'
    BY <1>4 DEF AppInv, IsTree
  <2>4. \A i : Rank(apps[i].name)' = Rank(apps[i].name)
    BY <1>4, SMTT(30) DEF Rank
  <2> QED
    BY <1>4, <2>2, <2>3, <2>4 DEF AppInv
<1>5. CASE GuessSelectedApp
  BY <1>4, <1>5, GuessStep DEF GuessSelectedApp
<1>6. CASE UNCHANGED appVars
  <2>1. SameApp'
    <3>1. fs' = fs /\ asked' = asked /\ apps' = apps /\ app' = app
      BY <1>6 DEF appVars
    <3>2. (\A n : Rank(n)' = Rank(n)) /\ Rank(app)' = Rank(app)
      BY <3>1 DEF Rank
    <3>3. findAppConfigFiles' = findAppConfigFiles /\ \A g : Declares(g)' = Declares(g)
      BY <3>1, TreeLemma
    <3>4. (UNION {Declares(f) : f \in findAppConfigFiles})' = UNION {Declares(f) : f \in findAppConfigFiles}
      BY <3>3
    <3> QED
      BY <3>1, <3>2, <3>4, Zenon DEF AppInv, SameApp
  <2> QED
    BY <1>4, <1>6, <2>1, SMTT(30) DEF appVars
<1> QED
  BY <1>1, <1>2, <1>3, <1>5, <1>6 DEF AppNext

\* SameApp: whatever the order in which the files of the applications are read
\* and whichever way sort.Sort orders those of the same name, GuessSelectedApp
\* returns the application around the directory that comes first by name.
THEOREM SameAppAlways == AppSpec => []SameApp
<1>1. (\E w : IsTree(w) /\ w.alphabet \in Seq(STRING) /\ AppInit(w, "start")) => AppInv
  BY DEF AppInit, AppInv, SameApp
<1>2. AppInv => SameApp
  BY DEF AppInv
<1> QED
  BY <1>1, <1>2, AppStep, PTL DEF AppSpec
=============================================================================
