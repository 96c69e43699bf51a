------------------------ MODULE VideoAttributesProofs ------------------------
(* Proofs about the duration and the bitrate of a row, for every file, any  *)
(* number of audio numbers, any width of a number and either SQL mode.      *)
EXTENDS VideoAttributes, WellFoundedInduction, TLAPS

----------------------------------------------------------------------------
(* Numbers and powers.                                                     *)
LEMMA Least ==
    ASSUME NEW T, T \subseteq Nat, T # {}
    PROVE  \E x \in T : \A y \in T : x <= y
<1> DEFINE R == OpToRel(<, Nat)
<1>1. \A x, y \in Nat : x < y => <<x, y>> \in R
  BY DEF OpToRel
<1>2. IsWellFoundedOn(R, Nat)
  BY NatLessThanWellFounded
<1> HIDE DEF R
<1>3. PICK x \in T : \A y \in T : ~ (<<y, x>> \in R)
  BY <1>2, WFMin
<1>4. \A y \in T : ~ (y < x)
  BY <1>1, <1>3
<1> QED
  BY <1>4

(* What holds of 0 and of the next number holds of n.                      *)
LEMMA Climb ==
    ASSUME NEW n \in Nat, NEW S, 0 \in S,
           \A i \in 1 .. n : i - 1 \in S => i \in S
    PROVE  n \in S
<1> DEFINE T == (0 .. n) \ S
<1> SUFFICES ASSUME T # {}
             PROVE  FALSE
  OBVIOUS
<1>1. PICK x \in T : \A y \in T : x <= y
  <2>1. T \subseteq Nat
    OBVIOUS
  <2> HIDE DEF T
  <2> QED
    BY <2>1, Least
<1>2. x \in 1 .. n
  BY <1>1
<1>3. x - 1 \in T
  BY <1>1, <1>2
<1> QED
  BY <1>1, <1>2, <1>3

LEMMA Division ==
    ASSUME NEW a \in Nat, NEW b \in Nat \ {0}
    PROVE  /\ a \div b \in Nat /\ a % b \in Nat
           /\ a % b \in 0 .. b - 1
           /\ a < b => a % b = a
           /\ (a \div b) * b <= a
           /\ a < (a \div b + 1) * b
<1>1. a \div b \in Nat /\ a % b \in Nat /\ a % b \in 0 .. b - 1
  OBVIOUS
<1>2. a < b => a % b = a
  OBVIOUS
<1>3. (a \div b) * b <= a /\ a < (a \div b + 1) * b
  OBVIOUS
<1> QED
  BY <1>1, <1>2, <1>3

(* The powers of ten to the n-th.                                          *)
IsPowers(f, n) ==
    /\ f \in [0 .. n -> Nat \ {0}]
    /\ f[0] = 1
    /\ \A k \in 1 .. n : f[k] = 10 * f[k - 1]

LEMMA PowersExist ==
    ASSUME NEW n \in Nat
    PROVE  \E f : IsPowers(f, n)
<1> DEFINE S == {k \in 0 .. n : \E f : IsPowers(f, k)}
<1>1. 0 \in S
  <2>1. IsPowers([k \in 0 .. 0 |-> 1], 0)
    BY DEF IsPowers
  <2> QED
    BY <2>1
<1>2. ASSUME NEW i \in 1 .. n, i - 1 \in S
      PROVE  i \in S
  <2>1. PICK f : IsPowers(f, i - 1)
    BY <1>2
  <2> DEFINE g == [k \in 0 .. i |-> IF k = i THEN 10 * f[i - 1] ELSE f[k]]
  <2>2. IsPowers(g, i)
    <3>1. f \in [0 .. i - 1 -> Nat \ {0}] /\ i - 1 \in 0 .. i - 1
      BY <2>1 DEF IsPowers
    <3>2. 10 * f[i - 1] \in Nat \ {0}
      BY <3>1
    <3>3. g \in [0 .. i -> Nat \ {0}]
      BY <3>1, <3>2
    <3>4. g[0] = 1
      BY <2>1 DEF IsPowers
    <3>5. ASSUME NEW k \in 1 .. i
          PROVE  g[k] = 10 * g[k - 1]
      BY <2>1, <3>1 DEF IsPowers
    <3> HIDE DEF g
    <3> QED
      BY <3>3, <3>4, <3>5 DEF IsPowers
  <2> QED
    BY <2>2
<1> HIDE DEF S
<1>3. n \in S
  BY <1>1, <1>2, Climb
<1> QED
  BY <1>3 DEF S

LEMMA PowersSame ==
    ASSUME NEW n \in Nat, NEW m \in 0 .. n, NEW f, IsPowers(f, n),
           NEW g, IsPowers(g, m)
    PROVE  f[m] = g[m]
<1> DEFINE S == {k \in 0 .. m : f[k] = g[k]}
<1>1. 0 \in S
  BY DEF IsPowers
<1>2. \A i \in 1 .. m : i - 1 \in S => i \in S
  BY DEF IsPowers
<1>3. m \in S
  <2> HIDE DEF S
  <2> QED
    BY <1>1, <1>2, Climb
<1> QED
  BY <1>3

LEMMA PowerIs ==
    ASSUME NEW k \in Nat
    PROVE  /\ Power[0] = 1 /\ Power[k] \in Nat \ {0}
           /\ Power[k + 1] = 10 * Power[k]
<1> DEFINE F(n) == CHOOSE f : IsPowers(f, n)
           P == [n \in Nat |-> F(n)[n]]
<1>1. \A n \in Nat : IsPowers(F(n), n)
  BY PowersExist
<1> HIDE DEF F
<1>2. P[0] = 1 /\ \A n \in Nat : P[n] \in Nat \ {0}
  BY <1>1 DEF IsPowers
<1>3. ASSUME NEW n \in Nat \ {0}
      PROVE  P[n] = 10 * P[n - 1]
  <2>1. IsPowers(F(n), n) /\ IsPowers(F(n - 1), n - 1) /\ n - 1 \in 0 .. n
    BY <1>1
  <2>2. F(n)[n - 1] = F(n - 1)[n - 1]
    BY <2>1, PowersSame
  <2>3. F(n)[n] = 10 * F(n)[n - 1]
    BY <2>1 DEF IsPowers
  <2> QED
    BY <2>1, <2>2, <2>3
<1> HIDE DEF P
<1>4. P = [n \in Nat |-> IF n = 0 THEN 1 ELSE 10 * P[n - 1]]
  <2>1. P = [n \in Nat |-> P[n]]
    BY DEF P
  <2> QED
    BY <1>2, <1>3, <2>1
<1>5. Power = [n \in Nat |-> IF n = 0 THEN 1 ELSE 10 * Power[n - 1]]
  BY <1>4, Zenon DEF Power
<1> DEFINE S == {n \in 0 .. k : Power[n] \in Nat \ {0}}
<1>6. Power[0] = 1 /\ \A n \in Nat : Power[n + 1] = 10 * Power[n]
  BY <1>5
<1>7. k \in S
  <2>1. 0 \in S /\ \A i \in 1 .. k : i - 1 \in S => i \in S
    BY <1>5, <1>6
  <2> HIDE DEF S
  <2> QED
    BY <2>1, Climb
<1> QED
  BY <1>6, <1>7

(* A number is less than the power of ten of its width.                    *)
LEMMA WidthIs ==
    ASSUME NEW n \in Nat
    PROVE  Width(n) \in 1 .. n + 1 /\ n < Power[Width(n)]
<1> DEFINE T == {w \in 1 .. n + 1 : n < Power[w]}
           S == {i \in 0 .. n : i < Power[i + 1]}
<1>1. n \in S
  <2>1. 0 \in S
    BY PowerIs
  <2>2. ASSUME NEW i \in 1 .. n, i - 1 \in S
        PROVE  i \in S
    <3>1. i - 1 < Power[i] /\ Power[i] \in Nat /\ Power[i + 1] = 10 * Power[i]
      BY <2>2, PowerIs
    <3> QED
      BY <3>1
  <2> HIDE DEF S
  <2> QED
    BY <2>1, <2>2, Climb
<1>2. T \subseteq Nat /\ T # {}
  BY <1>1
<1>3. PICK w \in T : \A v \in T : w <= v
  <2> HIDE DEF T
  <2> QED
    BY <1>2, Least
<1>4. w = 1 \/ Power[w - 1] <= n
  <2> SUFFICES ASSUME w # 1
               PROVE  Power[w - 1] <= n
    OBVIOUS
  <2>1. w - 1 \in Nat /\ w - 1 \in 1 .. n + 1 /\ w - 1 \notin T
    BY <1>3
  <2>2. Power[w - 1] \in Nat
    BY <2>1, PowerIs
  <2> QED
    BY <2>1, <2>2
<1>5. \E v \in 1 .. n + 1 : n < Power[v] /\ (v = 1 \/ Power[v - 1] <= n)
  BY <1>3, <1>4
<1> QED
  BY <1>5, Zenon DEF Width

----------------------------------------------------------------------------
(* Runs of digits.                                                         *)
RunType == [n : Nat, len : Nat \ {0}]

LEMMA RunIs ==
    ASSUME NEW n \in Nat
    PROVE  Run(n) \in RunType /\ Run(n).n = n /\ Run(n).len = Width(n)
  BY WidthIs DEF Run, RunType

(* The digits of the first i of m runs.                                    *)
IsSums(f, runs, m) ==
    f = [j \in 0 .. m |-> IF j = 0 THEN 0 ELSE f[j - 1] + runs[j].len]

LEMMA SumsExist ==
    ASSUME NEW runs \in Seq(RunType)
    PROVE  \E f : IsSums(f, runs, Len(runs))
<1> DEFINE S == {m \in 0 .. Len(runs) : \E f : IsSums(f, runs, m)}
<1>1. 0 \in S
  <2> DEFINE f == [j \in 0 .. 0 |-> 0]
  <2>1. IsSums(f, runs, 0)
    BY DEF IsSums
  <2> QED
    BY <2>1
<1>2. ASSUME NEW m \in 1 .. Len(runs), m - 1 \in S
      PROVE  m \in S
  <2>1. PICK f : IsSums(f, runs, m - 1)
    BY <1>2
  <2> DEFINE g == [j \in 0 .. m |-> IF j = 0 THEN 0
                                    ELSE f[j - 1] + runs[j].len]
  <2>2. \A j \in 0 .. m - 1 : g[j] = f[j]
    BY <2>1 DEF IsSums
  <2>3. IsSums(g, runs, m)
    <3>1. ASSUME NEW j \in 1 .. m
          PROVE  g[j] = g[j - 1] + runs[j].len
      <4>1. g[j] = f[j - 1] + runs[j].len /\ j - 1 \in 0 .. m - 1
        OBVIOUS
      <4> HIDE DEF g
      <4> QED
        BY <2>2, <4>1
    <3>2. g[0] = 0 /\ g = [j \in 0 .. m |-> g[j]]
      OBVIOUS
    <3> HIDE DEF g
    <3> QED
      BY <3>1, <3>2 DEF IsSums
  <2> QED
    BY <2>3
<1> HIDE DEF S
<1>3. Len(runs) \in S
  BY <1>1, <1>2, Climb
<1> QED
  BY <1>3 DEF S

LEMMA UptoIs ==
    ASSUME NEW runs \in Seq(RunType)
    PROVE  /\ Upto(runs, 0) = 0
           /\ \A i \in 1 .. Len(runs) :
                /\ runs[i].len \in Nat \ {0} /\ runs[i].n \in Nat
                /\ Upto(runs, i) = Upto(runs, i - 1) + runs[i].len
           /\ \A i \in 0 .. Len(runs) : Upto(runs, i) \in Nat
<1> DEFINE U == CHOOSE f : IsSums(f, runs, Len(runs))
<1>1. \A i : Upto(runs, i) = U[i]
  BY Zenon DEF Upto, IsSums
<1>2. IsSums(U, runs, Len(runs))
  BY SumsExist
<1> HIDE DEF U
<1>3. /\ U[0] = 0
      /\ \A i \in 1 .. Len(runs) : U[i] = U[i - 1] + runs[i].len
  BY <1>2 DEF IsSums
<1>4. \A i \in 1 .. Len(runs) : runs[i].len \in Nat \ {0} /\ runs[i].n \in Nat
  <2>1. \A i \in 1 .. Len(runs) : runs[i] \in RunType
    OBVIOUS
  <2> QED
    BY <2>1 DEF RunType
<1>5. ASSUME NEW i \in 0 .. Len(runs)
      PROVE  U[i] \in Nat
  <2> DEFINE S == {j \in 0 .. i : U[j] \in Nat}
  <2>1. 0 \in S
    BY <1>3
  <2>2. ASSUME NEW j \in 1 .. i, j - 1 \in S
        PROVE  j \in S
    <3>1. /\ U[j] = U[j - 1] + runs[j].len
          /\ U[j - 1] \in Nat /\ runs[j].len \in Nat
      BY <1>3, <1>4, <2>2
    <3> QED
      BY <3>1
  <2>3. i \in S
    <3> HIDE DEF S
    <3> QED
      BY <2>1, <2>2, Climb
  <2> QED
    BY <2>3
<1> QED
  BY <1>1, <1>3, <1>4, <1>5

LEMMA UptoGrows ==
    ASSUME NEW runs \in Seq(RunType), NEW i \in 0 .. Len(runs),
           NEW j \in i .. Len(runs)
    PROVE  Upto(runs, i) <= Upto(runs, j)
<1> DEFINE S == {k \in 0 .. j - i : Upto(runs, i) <= Upto(runs, i + k)}
<1>1. 0 \in S
  BY UptoIs
<1>2. ASSUME NEW k \in 1 .. j - i, k - 1 \in S
      PROVE  k \in S
  <2>1. /\ i + k \in 1 .. Len(runs) /\ i + (k - 1) = (i + k) - 1
        /\ Upto(runs, i) <= Upto(runs, (i + k) - 1)
    BY <1>2
  <2>2. /\ Upto(runs, i + k) = Upto(runs, (i + k) - 1) + runs[i + k].len
        /\ runs[i + k].len \in Nat
        /\ Upto(runs, (i + k) - 1) \in Nat /\ Upto(runs, i) \in Nat
    BY <2>1, UptoIs
  <2> QED
    BY <2>1, <2>2
<1>3. j - i \in S
  <2> HIDE DEF S
  <2> QED
    BY <1>1, <1>2, Climb
<1> QED
  BY <1>3

LEMMA UptoNext ==
    ASSUME NEW runs \in Seq(RunType), NEW i \in 1 .. Len(runs),
           NEW j, j = i - 1
    PROVE  /\ Upto(runs, i) = Upto(runs, j) + runs[i].len
           /\ Upto(runs, j) \in Nat /\ Upto(runs, i) \in Nat
           /\ runs[i].len \in Nat \ {0} /\ runs[i].n \in Nat
           /\ Upto(runs, j) < Upto(runs, i)
           /\ Upto(runs, i) - Upto(runs, j) = runs[i].len
<1>1. j \in 0 .. Len(runs) /\ i \in 0 .. Len(runs)
  OBVIOUS
<1>2. /\ Upto(runs, i) = Upto(runs, j) + runs[i].len
      /\ Upto(runs, j) \in Nat /\ Upto(runs, i) \in Nat
      /\ runs[i].len \in Nat \ {0} /\ runs[i].n \in Nat
  BY <1>1, UptoIs
<1> QED
  BY <1>2

(* Digit p is in run i.                                                    *)
In(runs, p, i) ==
    /\ i \in 1 .. Len(runs)
    /\ Upto(runs, i - 1) < p /\ p <= Upto(runs, i)

LEMMA InIs ==
    ASSUME NEW runs, NEW i \in 1 .. Len(runs), NEW j, j = i - 1, NEW p,
           Upto(runs, j) < p, p <= Upto(runs, i)
    PROVE  In(runs, p, i)
  BY DEF In

LEMMA RunAtIs ==
    ASSUME NEW runs \in Seq(RunType), NEW p \in 1 .. Total(runs)
    PROVE  In(runs, p, RunAt(runs, p))
<1> DEFINE T == {i \in 0 .. Len(runs) : p <= Upto(runs, i)}
<1>1. Len(runs) \in T /\ T \subseteq Nat
  BY DEF Total
<1>2. PICK i \in T : \A j \in T : i <= j
  <2> HIDE DEF T
  <2> QED
    BY <1>1, Least
<1>3. i # 0
  BY <1>2, UptoIs
<1>4. i - 1 \in 0 .. Len(runs) /\ i - 1 \notin T
  BY <1>2, <1>3
<1>5. In(runs, p, i)
  <2>1. Upto(runs, i - 1) \in Nat /\ ~(p <= Upto(runs, i - 1))
    BY <1>4, UptoIs
  <2> QED
    BY <1>2, <1>3, <2>1 DEF In
<1>6. \E j \in DOMAIN runs : Upto(runs, j - 1) < p /\ p <= Upto(runs, j)
  BY <1>5 DEF In
<1>7. /\ RunAt(runs, p) \in DOMAIN runs
      /\ Upto(runs, RunAt(runs, p) - 1) < p
      /\ p <= Upto(runs, RunAt(runs, p))
  BY <1>6, Zenon DEF RunAt
<1> QED
  BY <1>7 DEF In

LEMMA RunAtOnly ==
    ASSUME NEW runs \in Seq(RunType), NEW p \in 1 .. Total(runs), NEW i,
           In(runs, p, i)
    PROVE  RunAt(runs, p) = i
<1> DEFINE j == RunAt(runs, p)
<1>1. In(runs, p, j)
  BY RunAtIs
<1> HIDE DEF j
<1>2. ASSUME NEW a, NEW b, In(runs, p, a), In(runs, p, b)
      PROVE  ~(a < b)
  <2> SUFFICES ASSUME a < b
               PROVE  FALSE
    OBVIOUS
  <2>1. a \in 0 .. Len(runs) /\ b - 1 \in a .. Len(runs)
    BY <1>2 DEF In
  <2>2. Upto(runs, a) <= Upto(runs, b - 1)
    BY <2>1, UptoGrows
  <2>3. Upto(runs, a) \in Nat /\ Upto(runs, b - 1) \in Nat
    BY <2>1, UptoIs
  <2> QED
    BY <1>2, <2>2, <2>3 DEF In
<1>3. ~(i < j) /\ ~(j < i)
  BY <1>1, <1>2
<1>4. i = j
  BY <1>1, <1>3 DEF In
<1> QED
  BY <1>4 DEF j

(* A number of the expression ends before the digits that are left for     *)
(* those after it, and with its run if it can.                             *)
LEMMA TakenIs ==
    ASSUME NEW runs \in Seq(RunType), NEW left \in Nat,
           NEW p \in 1 .. Total(runs) - left
    PROVE  /\ Taken(runs, p, left) \in p .. Total(runs) - left
           /\ \A i : In(runs, p, i) /\ Upto(runs, i) <= Total(runs) - left =>
                       Taken(runs, p, left) = Upto(runs, i)
<1>1. Total(runs) \in Nat
  BY UptoIs DEF Total
<1>2. p \in 1 .. Total(runs)
  BY <1>1
<1>3. In(runs, p, RunAt(runs, p))
  BY <1>2, RunAtIs
<1>4. Upto(runs, RunAt(runs, p)) \in Nat
  BY <1>3, UptoIs DEF In
<1>5. Taken(runs, p, left) \in p .. Total(runs) - left
  BY <1>1, <1>3, <1>4 DEF Taken, In
<1>6. ASSUME NEW i, In(runs, p, i), Upto(runs, i) <= Total(runs) - left
      PROVE  Taken(runs, p, left) = Upto(runs, i)
  <2>1. RunAt(runs, p) = i
    BY <1>2, <1>6, RunAtOnly
  <2> QED
    BY <1>6, <2>1 DEF Taken
<1> QED
  BY <1>5, <1>6


(* The fourth number starts after three digits at least.                   *)
LEMMA FourthIs ==
    ASSUME NEW runs \in Seq(RunType), Total(runs) >= 4
    PROVE  Fourth(runs) \in Nat
<1> DEFINE p1 == Taken(runs, 1, 3)
           p2 == Taken(runs, p1 + 1, 2)
           p3 == Taken(runs, p2 + 1, 1)
           i  == RunAt(runs, p3 + 1)
<1>1. Total(runs) \in Nat
  BY UptoIs DEF Total
<1>2. p1 \in 1 .. Total(runs) - 3
  BY <1>1, TakenIs
<1> HIDE DEF p1
<1>3. p2 \in p1 + 1 .. Total(runs) - 2
  <2>1. p1 + 1 \in 1 .. Total(runs) - 2
    BY <1>1, <1>2
  <2> QED
    BY <2>1, TakenIs
<1> HIDE DEF p2
<1>4. p3 \in p2 + 1 .. Total(runs) - 1
  <2>1. p2 + 1 \in 1 .. Total(runs) - 1
    BY <1>1, <1>2, <1>3
  <2> QED
    BY <2>1, TakenIs
<1> HIDE DEF p3
<1>5. In(runs, p3 + 1, i)
  <2>1. p3 + 1 \in 1 .. Total(runs)
    BY <1>1, <1>2, <1>3, <1>4
  <2> QED
    BY <2>1, RunAtIs
<1> HIDE DEF i
<1>6. Upto(runs, i) - p3 \in Nat /\ runs[i].n \in Nat
  BY <1>2, <1>3, <1>4, <1>5, UptoIs DEF In
<1>7. runs[i].n % Power[Upto(runs, i) - p3] \in Nat
  <2> DEFINE b == Power[Upto(runs, i) - p3]
  <2>1. b \in Nat \ {0}
    BY <1>6, PowerIs
  <2> HIDE DEF b
  <2>2. runs[i].n % b \in Nat
    BY <1>6, <2>1, Division
  <2> QED
    BY <2>2 DEF b
<1> QED
  BY <1>7 DEF Fourth, p1, p2, p3, i

(* Where each of four runs has a digit, the fourth number is the fourth    *)
(* run.                                                                    *)
LEMMA FourthOfFour ==
    ASSUME NEW runs \in Seq(RunType), Len(runs) >= 4,
           runs[4].n < Power[runs[4].len]
    PROVE  Fourth(runs) = runs[4].n
<1> DEFINE p1 == Upto(runs, 1)
           p2 == Upto(runs, 2)
           p3 == Upto(runs, 3)
<1>1. /\ 0 \in 0 .. Len(runs) /\ 1 \in 1 .. Len(runs) /\ 2 \in 1 .. Len(runs)
      /\ 3 \in 1 .. Len(runs) /\ 4 \in 1 .. Len(runs)
      /\ 4 \in 0 .. Len(runs) /\ Len(runs) \in 4 .. Len(runs)
  OBVIOUS
<1>2. /\ Upto(runs, 0) = 0 /\ runs[4].len \in Nat /\ runs[4].n \in Nat
      /\ Upto(runs, 1) \in Nat /\ Upto(runs, 2) \in Nat
      /\ Upto(runs, 3) \in Nat /\ Upto(runs, 4) \in Nat
      /\ Upto(runs, 0) < Upto(runs, 1) /\ Upto(runs, 1) < Upto(runs, 2)
      /\ Upto(runs, 2) < Upto(runs, 3) /\ Upto(runs, 3) < Upto(runs, 4)
      /\ Upto(runs, 4) - Upto(runs, 3) = runs[4].len
  <2>1. 0 = 1 - 1 /\ 1 = 2 - 1 /\ 2 = 3 - 1 /\ 3 = 4 - 1
    OBVIOUS
  <2> QED
    BY <1>1, <2>1, UptoIs, UptoNext
<1>3. Upto(runs, 4) <= Total(runs) /\ Total(runs) \in Nat
  BY <1>1, UptoGrows, UptoIs DEF Total
<1>4. Taken(runs, 1, 3) = p1
  <2>1. /\ 1 \in 1 .. Total(runs) - 3
        /\ Upto(runs, 1) <= Total(runs) - 3
    BY <1>2, <1>3
  <2>2. In(runs, 1, 1)
    <3>1. /\ 0 = 1 - 1
          /\ Upto(runs, 0) < 1 /\ 1 <= Upto(runs, 1)
      BY <1>2
    <3> QED
      BY <1>1, <3>1, InIs
  <2> QED
    BY <2>1, <2>2, TakenIs
<1>5. Taken(runs, p1 + 1, 2) = p2
  <2>1. /\ p1 + 1 \in 1 .. Total(runs) - 2
        /\ Upto(runs, 2) <= Total(runs) - 2
    BY <1>2, <1>3
  <2>2. In(runs, p1 + 1, 2)
    <3>1. /\ 1 = 2 - 1
          /\ Upto(runs, 1) < p1 + 1 /\ p1 + 1 <= Upto(runs, 2)
      BY <1>2
    <3> QED
      BY <1>1, <3>1, InIs
  <2> HIDE DEF p1
  <2> QED
    BY <2>1, <2>2, TakenIs
<1>6. Taken(runs, p2 + 1, 1) = p3
  <2>1. /\ p2 + 1 \in 1 .. Total(runs) - 1
        /\ Upto(runs, 3) <= Total(runs) - 1
    BY <1>2, <1>3
  <2>2. In(runs, p2 + 1, 3)
    <3>1. /\ 2 = 3 - 1
          /\ Upto(runs, 2) < p2 + 1 /\ p2 + 1 <= Upto(runs, 3)
      BY <1>2
    <3> QED
      BY <1>1, <3>1, InIs
  <2> HIDE DEF p2
  <2> QED
    BY <2>1, <2>2, TakenIs
<1>7. RunAt(runs, p3 + 1) = 4
  <2>1. p3 + 1 \in 1 .. Total(runs)
    BY <1>2, <1>3
  <2>2. In(runs, p3 + 1, 4)
    <3>1. /\ 3 = 4 - 1
          /\ Upto(runs, 3) < p3 + 1 /\ p3 + 1 <= Upto(runs, 4)
      BY <1>2
    <3> QED
      BY <1>1, <3>1, InIs
  <2> HIDE DEF p3
  <2> QED
    BY <2>1, <2>2, RunAtOnly
<1>8. Upto(runs, 4) - p3 = runs[4].len
  BY <1>2
<1>9. runs[4].n % Power[runs[4].len] = runs[4].n
  <2>1. Power[runs[4].len] \in Nat \ {0}
    BY <1>2, PowerIs
  <2> QED
    BY <1>2, <2>1, Division
<1> QED
  BY <1>4, <1>5, <1>6, <1>7, <1>8, <1>9 DEF Fourth


LEMMA TotalAtLeast ==
    ASSUME NEW runs \in Seq(RunType), NEW i \in 1 .. Len(runs),
           NEW j, j = i - 1, NEW n \in Nat, Upto(runs, j) >= n
    PROVE  /\ Total(runs) \in Nat
           /\ Total(runs) >= n + runs[i].len /\ Total(runs) >= n + 1
<1>1. /\ Len(runs) \in i .. Len(runs) /\ i \in 0 .. Len(runs)
      /\ Len(runs) \in 0 .. Len(runs)
  OBVIOUS
<1>2. Upto(runs, i) <= Total(runs) /\ Total(runs) \in Nat
  BY <1>1, UptoGrows, UptoIs DEF Total
<1>3. /\ Upto(runs, i) = Upto(runs, j) + runs[i].len
      /\ Upto(runs, i) \in Nat /\ Upto(runs, j) \in Nat
      /\ runs[i].len \in Nat \ {0}
  BY UptoNext
<1> QED
  BY <1>2, <1>3

LEMMA FourDigits ==
    ASSUME NEW runs \in Seq(RunType), Len(runs) >= 2, runs[1].len = 2,
           Len(runs) >= 3 \/ runs[2].len = 2
    PROVE  Total(runs) >= 4
<1>1. /\ 1 \in 1 .. Len(runs) /\ 2 \in 1 .. Len(runs)
      /\ 0 = 1 - 1 /\ 1 = 2 - 1 /\ 2 = 3 - 1
  OBVIOUS
<1>2. /\ Upto(runs, 0) = 0 /\ Upto(runs, 1) = Upto(runs, 0) + runs[1].len
      /\ Upto(runs, 1) < Upto(runs, 2) /\ Upto(runs, 2) \in Nat
  BY <1>1, UptoIs, UptoNext
<1>3. Upto(runs, 1) >= 2 /\ Upto(runs, 2) >= 3
  BY <1>2
<1>4. CASE runs[2].len = 2
  BY <1>1, <1>3, <1>4, TotalAtLeast
<1>5. CASE Len(runs) >= 3
  <2>1. 3 \in 1 .. Len(runs)
    BY <1>5
  <2>2. Total(runs) >= 3 + 1
    BY <1>1, <1>3, <2>1, TotalAtLeast
  <2> QED
    BY <2>2
<1> QED
  BY <1>4, <1>5

----------------------------------------------------------------------------
(* The line ffmpeg prints.                                                 *)
Runs(f) ==
    DurationRuns(f.duration) \o StartRuns(f.start) \o BitrateRuns(f.bitrate)
        \o AudioRuns(f)
Time(f) == IF f.duration = None THEN None ELSE HMS(f.duration)
Printed(f) == [time |-> Time(f), runs |-> Runs(f)]

LEMMA FileFields ==
    ASSUME NEW f \in Files
    PROVE  /\ f.duration \in Nat \cup {None} /\ f.start \in Nat \cup {None}
           /\ f.bitrate \in Nat \cup {None} /\ f.audio \in Seq(Nat)
           /\ TimeBase \in Nat \ {0} /\ TimeBase \div 200 \in Nat
           /\ None \notin Nat
  BY AttributesAssumption DEF AttributesAssumption, FileType

LEMMA DurationRunsAre ==
    ASSUME NEW f \in Files
    PROVE  /\ DurationRuns(f.duration) \in Seq(RunType)
           /\ f.duration # None =>
                /\ Len(DurationRuns(f.duration)) = 1
                /\ DurationRuns(f.duration)[1].len = 2
<1>1. CASE f.duration = None
  BY <1>1 DEF DurationRuns
<1>2. CASE f.duration # None
  <2>1. Hundredths(f.duration) \in Nat
    <3> DEFINE r == Rounded(f.duration) % TimeBase
    <3>1. Rounded(f.duration) \in Nat
      BY <1>2, FileFields DEF Rounded
    <3>2. r \in Nat
      BY <3>1, FileFields, Division
    <3> HIDE DEF r
    <3>3. 100 * r \in Nat
      BY <3>2
    <3>4. (100 * r) \div TimeBase \in Nat
      BY <3>3, FileFields, Division
    <3> QED
      BY <3>4 DEF r, Hundredths
  <2>2. [n |-> Hundredths(f.duration), len |-> 2] \in RunType
    BY <2>1 DEF RunType
  <2> QED
    BY <1>2, <2>2 DEF DurationRuns
<1> QED
  BY <1>1, <1>2

LEMMA StartRunsAre ==
    ASSUME NEW f \in Files
    PROVE  /\ StartRuns(f.start) \in Seq(RunType)
           /\ f.start # None => Len(StartRuns(f.start)) = 2
<1>1. CASE f.start = None
  BY <1>1 DEF StartRuns
<1>2. CASE f.start # None
  <2>1. f.start \div TimeBase \in Nat /\ f.start % TimeBase \in Nat
    BY <1>2, FileFields, Division
  <2>2. /\ Run(f.start \div TimeBase) \in RunType
        /\ [n |-> f.start % TimeBase, len |-> 6] \in RunType
    BY <2>1, RunIs DEF RunType
  <2> QED
    BY <1>2, <2>2 DEF StartRuns
<1> QED
  BY <1>1, <1>2

LEMMA BitrateRunsAre ==
    ASSUME NEW f \in Files
    PROVE  /\ BitrateRuns(f.bitrate) \in Seq(RunType)
           /\ f.bitrate \notin {None, 0} =>
                /\ f.bitrate \div 1000 \in Nat
                /\ BitrateRuns(f.bitrate) = <<Run(f.bitrate \div 1000)>>
<1>1. CASE f.bitrate \in {None, 0}
  BY <1>1 DEF BitrateRuns
<1>2. CASE f.bitrate \notin {None, 0}
  <2>1. f.bitrate \div 1000 \in Nat
    BY <1>2, FileFields
  <2>2. Run(f.bitrate \div 1000) \in RunType
    BY <2>1, RunIs
  <2> QED
    BY <1>2, <2>1, <2>2 DEF BitrateRuns
<1> QED
  BY <1>1, <1>2

LEMMA AudioRunsAre ==
    ASSUME NEW f \in Files
    PROVE  /\ AudioRuns(f) \in Seq(RunType)
           /\ Len(AudioRuns(f)) = Len(f.audio)
<1>1. \A i \in 1 .. Len(f.audio) : Run(f.audio[i]) \in RunType
  BY FileFields, RunIs
<1>2. f.audio \in Seq(Nat)
  BY FileFields
<1> QED
  BY <1>1, <1>2 DEF AudioRuns

LEMMA Joined ==
    ASSUME NEW x \in Seq(RunType), NEW y \in Seq(RunType)
    PROVE  /\ x \o y \in Seq(RunType)
           /\ Len(x) \in Nat /\ Len(y) \in Nat
           /\ Len(x \o y) = Len(x) + Len(y)
           /\ \A i \in 1 .. Len(x) : (x \o y)[i] = x[i]
           /\ \A i \in 1 .. Len(y) : (x \o y)[Len(x) + i] = y[i]
  OBVIOUS

(* Four sequences are strung together as q.                                *)
Strung(q, d, s, b, a) ==
    /\ q \in Seq(RunType)
    /\ Len(d) \in Nat /\ Len(s) \in Nat /\ Len(b) \in Nat
    /\ Len(a) \in Nat
    /\ Len(q) = Len(d) + Len(s) + Len(b) + Len(a)
    /\ Len(d) = 1 => q[1] = d[1]
    /\ Len(d) + Len(s) = 3 /\ Len(b) = 1 => q[4] = b[1]

LEMMA FourJoined ==
    ASSUME NEW d \in Seq(RunType), NEW s \in Seq(RunType),
           NEW b \in Seq(RunType), NEW a \in Seq(RunType)
    PROVE  Strung(d \o s \o b \o a, d, s, b, a)
<1> DEFINE x == d \o s
           y == x \o b
           q == y \o a
<1>1. /\ x \in Seq(RunType) /\ Len(d) \in Nat /\ Len(s) \in Nat
      /\ Len(x) = Len(d) + Len(s)
      /\ \A i \in 1 .. Len(d) : x[i] = d[i]
  BY Joined
<1> HIDE DEF x
<1>3. /\ y \in Seq(RunType) /\ Len(b) \in Nat /\ Len(x) \in Nat
      /\ Len(y) = Len(x) + Len(b)
      /\ \A i \in 1 .. Len(x) : y[i] = x[i]
      /\ \A i \in 1 .. Len(b) : y[Len(x) + i] = b[i]
  BY <1>1, Joined
<1> HIDE DEF y
<1>4. /\ q \in Seq(RunType) /\ Len(a) \in Nat /\ Len(y) \in Nat
      /\ Len(q) = Len(y) + Len(a)
      /\ \A i \in 1 .. Len(y) : q[i] = y[i]
  BY <1>3, Joined
<1> HIDE DEF q
<1>5. Len(d) = 1 => q[1] = d[1]
  BY <1>1, <1>3, <1>4
<1>6. Len(d) + Len(s) = 3 /\ Len(b) = 1 => q[4] = b[1]
  <2> SUFFICES ASSUME Len(d) + Len(s) = 3, Len(b) = 1
               PROVE  q[4] = b[1]
    OBVIOUS
  <2>1. Len(x) = 3 /\ Len(y) = 4
    BY <1>1, <1>3
  <2>2. y[3 + 1] = b[1]
    BY <1>3, <2>1
  <2> QED
    BY <1>4, <2>1, <2>2
<1>7. /\ q \in Seq(RunType)
      /\ Len(d) \in Nat /\ Len(s) \in Nat /\ Len(b) \in Nat
      /\ Len(a) \in Nat
      /\ Len(q) = Len(d) + Len(s) + Len(b) + Len(a)
  BY <1>1, <1>3, <1>4
<1> QED
  BY <1>5, <1>6, <1>7, Zenon DEF Strung, q, y, x

LEMMA RunsAre ==
    ASSUME NEW f \in Files
    PROVE  /\ Runs(f) \in Seq(RunType)
           /\ f.duration # None =>
                /\ Len(Runs(f)) >= 1 /\ Runs(f)[1].len = 2
                /\ Telling(f) => Len(Runs(f)) >= 3
                /\ f.start # None /\ f.bitrate \notin {None, 0} =>
                     /\ Len(Runs(f)) >= 4
                     /\ Runs(f)[4] = Run(f.bitrate \div 1000)
<1>1. PICK d, s, b, a :
        /\ d = DurationRuns(f.duration) /\ s = StartRuns(f.start)
        /\ b = BitrateRuns(f.bitrate) /\ a = AudioRuns(f)
  OBVIOUS
<1>2. /\ d \in Seq(RunType) /\ s \in Seq(RunType) /\ b \in Seq(RunType)
      /\ a \in Seq(RunType)
      /\ Runs(f) = d \o s \o b \o a
  BY <1>1, DurationRunsAre, StartRunsAre, BitrateRunsAre, AudioRunsAre
     DEF Runs
<1>3. Strung(d \o s \o b \o a, d, s, b, a)
  BY <1>2, FourJoined
<1>4. PICK q : q = Runs(f) /\ q = d \o s \o b \o a
  BY <1>2
<1>5. /\ q \in Seq(RunType)
      /\ Len(d) \in Nat /\ Len(s) \in Nat /\ Len(b) \in Nat
      /\ Len(a) \in Nat
      /\ Len(q) = Len(d) + Len(s) + Len(b) + Len(a)
  BY <1>3, <1>4, Zenon DEF Strung
<1>6. /\ Len(d) = 1 => q[1] = d[1]
      /\ Len(d) + Len(s) = 3 /\ Len(b) = 1 => q[4] = b[1]
  BY <1>3, <1>4, Zenon DEF Strung
<1>7. ASSUME f.duration # None
      PROVE  Len(d) = 1 /\ d[1].len = 2
  BY <1>1, <1>7, DurationRunsAre
<1>8. f.start # None => Len(s) = 2
  BY <1>1, StartRunsAre
<1>9. ASSUME f.bitrate \notin {None, 0}
      PROVE  Len(b) = 1 /\ b[1] = Run(f.bitrate \div 1000)
  BY <1>1, <1>9, BitrateRunsAre
<1>10. Len(a) = Len(f.audio)
  BY <1>1, AudioRunsAre
<1>11. ASSUME f.duration # None
       PROVE  Len(q) >= 1 /\ q[1].len = 2
  BY <1>5, <1>6, <1>7, <1>11
<1>12. ASSUME f.duration # None, Telling(f)
       PROVE  Len(q) >= 3
  <2>1. Len(d) = 1 /\ (Len(s) = 2 \/ Len(a) > 1)
    BY <1>7, <1>8, <1>10, <1>12 DEF Telling
  <2>2. /\ Len(q) = Len(d) + Len(s) + Len(b) + Len(a)
        /\ Len(d) \in Nat /\ Len(s) \in Nat /\ Len(b) \in Nat
        /\ Len(a) \in Nat
    BY <1>5
  <2> QED
    BY <2>1, <2>2
<1>13. ASSUME f.duration # None, f.start # None, f.bitrate \notin {None, 0}
       PROVE  Len(q) >= 4 /\ q[4] = Run(f.bitrate \div 1000)
  <2>1. Len(d) = 1 /\ Len(s) = 2 /\ Len(b) = 1
    BY <1>7, <1>8, <1>9, <1>13
  <2>2. Len(q) >= 4 /\ Len(d) + Len(s) = 3
    BY <1>5, <2>1
  <2> QED
    BY <1>6, <1>9, <1>13, <2>1, <2>2
<1> QED
  BY <1>4, <1>5, <1>11, <1>12, <1>13


----------------------------------------------------------------------------
(* The time of day in the line.                                            *)
LEMMA ByParts ==
    ASSUME NEW t \in Nat
    PROVE  /\ t \div 3600 \in Nat
           /\ (t \div 60) % 60 \in Nat /\ (t \div 60) % 60 < 60
           /\ t % 60 \in Nat /\ t % 60 < 60
           /\ t = (t \div 3600) * 3600 + ((t \div 60) % 60) * 60 + (t % 60)
  OBVIOUS

(* The seconds of the duration, rounded as they are printed.               *)
Secs(d) == Rounded(d) \div TimeBase

LEMMA SecsAre ==
    ASSUME NEW f \in Files, f.duration # None
    PROVE  LET d == f.duration IN
           /\ Secs(d) \in Nat /\ Rounded(d) \in Nat
           /\ Secs(d) * TimeBase <= Rounded(d)
           /\ Rounded(d) < (Secs(d) + 1) * TimeBase
<1>1. Rounded(f.duration) \in Nat /\ TimeBase \in Nat \ {0}
  BY FileFields DEF Rounded
<1> QED
  BY <1>1, Division DEF Secs

LEMMA HMSIs ==
    ASSUME NEW f \in Files, f.duration # None
    PROVE  LET x == HMS(f.duration) IN
           /\ x.h \in Nat /\ x.m \in Nat /\ x.m < 60
           /\ x.s \in Nat /\ x.s < 60
           /\ Secs(f.duration) = x.h * 3600 + x.m * 60 + x.s
           /\ x # None
<1> DEFINE t == Secs(f.duration)
<1>1. HMS(f.duration) =
        [h |-> t \div 3600, m |-> (t \div 60) % 60, s |-> t % 60]
  BY DEF HMS, Secs
<1>2. t \in Nat
  BY SecsAre
<1> HIDE DEF t
<1>3. /\ t \div 3600 \in Nat
      /\ (t \div 60) % 60 \in Nat /\ (t \div 60) % 60 < 60
      /\ t % 60 \in Nat /\ t % 60 < 60
      /\ t = (t \div 3600) * 3600 + ((t \div 60) % 60) * 60 + (t % 60)
  BY <1>2, ByParts
<1>4. /\ HMS(f.duration).h = t \div 3600
      /\ HMS(f.duration).m = (t \div 60) % 60
      /\ HMS(f.duration).s = t % 60
  BY <1>1
<1>5. HMS(f.duration) # None
  <2>1. HMS(f.duration) \in [h : Nat, m : Nat, s : Nat]
    BY <1>1, <1>3
  <2> QED
    BY <2>1, AttributesAssumption DEF AttributesAssumption
<1>6. t = HMS(f.duration).h * 3600 + HMS(f.duration).m * 60
          + HMS(f.duration).s
  BY <1>3, <1>4
<1> QED
  BY <1>3, <1>4, <1>5, <1>6 DEF t

LEMMA HourKeptIs ==
    ASSUME NEW h \in Nat
    PROVE  HourKept(h) \in Nat /\ HourKept(h) < 24 /\ (h < 24 => HourKept(h) = h)
  BY DEF HourKept

----------------------------------------------------------------------------
(* What the expression takes from the line.                                *)
LEMMA TellingTotal ==
    ASSUME NEW f \in Files, f.duration # None, Telling(f)
    PROVE  Total(Runs(f)) >= 4
<1>1. /\ Runs(f) \in Seq(RunType)
      /\ Runs(f)[1].len = 2 /\ Len(Runs(f)) >= 3
  BY RunsAre
<1>2. Len(Runs(f)) >= 2
  BY <1>1
<1> QED
  BY <1>1, <1>2, FourDigits

(* Given up, the seconds are two digits more, which make four in all.      *)
LEMMA SecondsGivenUp ==
    ASSUME NEW f \in Files, f.duration # None, NEW n \in Nat,
           NEW q, q = <<[n |-> n, len |-> 2]>> \o Runs(f)
    PROVE  Total(q) >= 4 /\ Fourth(q) \in Nat
<1> DEFINE u == [n |-> n, len |-> 2]
           x == <<u>>
           y == Runs(f)
<1>1. y \in Seq(RunType) /\ Len(y) >= 1 /\ y[1].len = 2
  BY RunsAre
<1>2. u \in RunType
  BY DEF RunType
<1>3. x \in Seq(RunType) /\ Len(x) = 1 /\ x[1] = u /\ u.len = 2
  BY <1>2
<1>4. q = x \o y
  OBVIOUS
<1> HIDE DEF u, x, y
<1>5. /\ x \o y \in Seq(RunType) /\ Len(x \o y) = Len(x) + Len(y)
      /\ Len(y) \in Nat
      /\ \A i \in 1 .. Len(x) : (x \o y)[i] = x[i]
      /\ \A i \in 1 .. Len(y) : (x \o y)[Len(x) + i] = y[i]
  BY <1>1, <1>3, Joined
<1>6. q[1] = x[1] /\ q[1 + 1] = y[1]
  BY <1>1, <1>3, <1>4, <1>5
<1>7. q \in Seq(RunType) /\ Len(q) = Len(x) + Len(y)
  BY <1>4, <1>5
<1>8. Len(q) >= 2
  BY <1>1, <1>3, <1>5, <1>7
<1>9. q[1].len = 2 /\ q[2].len = 2
  <2>1. 1 + 1 = 2
    OBVIOUS
  <2> QED
    BY <1>1, <1>3, <1>6, <2>1
<1> QED
  BY <1>7, <1>8, <1>9, FourDigits, FourthIs

(* What an attribute has to do with the file it was taken from.            *)
TakenFrom(a, f) ==
    LET x == HMS(f.duration) IN
    /\ f.duration # None
    /\ a.h = HourKept(x.h) /\ a.m = x.m /\ a.s \in {0, x.s}
    /\ a.bitrate \in Nat
    /\ Telling(f) => a.s = x.s
    /\ f.start # None /\ f.bitrate \notin {None, 0} =>
         a.bitrate = f.bitrate \div 1000

LEMMA MatchesAre ==
    ASSUME NEW f \in Files
    PROVE  /\ Matches(Printed(f)) = {} => f.duration = None
           /\ \A a \in Matches(Printed(f)) : TakenFrom(a, f)
<1> DEFINE l == Printed(f)
           x == HMS(f.duration)
<1>1. l.time = (IF f.duration = None THEN None ELSE x) /\ l.runs = Runs(f)
  BY DEF Printed, Time
<1> HIDE DEF l
<1>2. CASE f.duration = None
  BY <1>1, <1>2 DEF Matches, l
<1>3. CASE f.duration # None
  <2>1. /\ l.time = x /\ x # None /\ x.s \in Nat
        /\ Runs(f) \in Seq(RunType)
    <3>1. x # None /\ x.s \in Nat
      BY <1>3, HMSIs
    <3>2. Runs(f) \in Seq(RunType)
      BY RunsAre
    <3>3. l.time = x
      BY <1>1, <1>3
    <3> HIDE DEF x
    <3>4. x.s \in Nat
      BY <3>1
    <3> QED
      BY <3>1, <3>2, <3>3, <3>4
  <2> HIDE DEF x
  <2>2. CASE Total(Runs(f)) >= 4
    <3> DEFINE a == [h |-> HourKept(x.h), m |-> x.m, s |-> x.s,
                     bitrate |-> Fourth(Runs(f))]
    <3>1. Matches(l) = {a}
      BY <1>1, <2>1, <2>2 DEF Matches
    <3>2. Fourth(Runs(f)) \in Nat
      BY <2>1, <2>2, FourthIs
    <3>3. ASSUME f.start # None, f.bitrate \notin {None, 0}
          PROVE  Fourth(Runs(f)) = f.bitrate \div 1000
      <4> DEFINE r == Run(f.bitrate \div 1000)
      <4>1. /\ Len(Runs(f)) >= 4 /\ Runs(f)[4] = r
            /\ f.bitrate \div 1000 \in Nat
        BY <1>3, <3>3, RunsAre, BitrateRunsAre
      <4>2. r.n = f.bitrate \div 1000 /\ r.n < Power[r.len]
        <5> DEFINE n == f.bitrate \div 1000
        <5>1. n \in Nat
          BY <4>1
        <5> HIDE DEF n
        <5>2. Run(n).n = n /\ n < Power[Run(n).len]
          BY <5>1, RunIs, WidthIs
        <5> QED
          BY <5>2 DEF n
      <4> HIDE DEF r
      <4> QED
        BY <2>1, <4>1, <4>2, FourthOfFour
    <3>4. TakenFrom(a, f)
      BY <1>3, <3>2, <3>3 DEF TakenFrom, x
    <3> QED
      BY <3>1, <3>4 DEF l
  <2>3. CASE ~(Total(Runs(f)) >= 4)
    <3> DEFINE q == <<[n |-> x.s, len |-> 2]>> \o Runs(f)
               a == [h |-> HourKept(x.h), m |-> x.m, s |-> 0,
                     bitrate |-> Fourth(q)]
    <3>1. q = SecondsToo(l)
      BY <1>1, <2>1 DEF SecondsToo
    <3>2. Total(q) >= 4 /\ Fourth(q) \in Nat
      BY <1>3, <2>1, SecondsGivenUp
    <3>5. Matches(l) = {a}
      <4> HIDE DEF q
      <4> QED
        BY <1>1, <2>1, <2>3, <3>1, <3>2 DEF Matches
    <3>3. ~Telling(f) /\ f.start = None
      <4>1. ~Telling(f)
        BY <1>3, <2>3, TellingTotal
      <4> QED
        BY <4>1 DEF Telling
    <3> HIDE DEF q
    <3>4. TakenFrom(a, f)
      BY <1>3, <3>2, <3>3 DEF TakenFrom, x
    <3> QED
      BY <3>4, <3>5 DEF l
  <2> QED
    BY <2>2, <2>3
<1> QED
  BY <1>2, <1>3

----------------------------------------------------------------------------
(* The invariant.                                                          *)
RowOf(a) == [duration |-> a.h * 3600 + a.m * 60 + a.s,
             bitrate |-> Smallint(a.bitrate)]

Stages == {"measure", "match", "insert", "refused", "stored", "lost"}

Inv ==
    /\ file \in Files /\ stage \in Stages
    /\ stage # "measure" => line = Printed(file)
    /\ stage = "insert" => attr \in Matches(line)
    /\ stage = "refused" => Matches(line) = {}
    /\ stage = "stored" =>
         \E a \in Matches(Printed(file)) : row = RowOf(a)

LEMMA InitInv == Init => Inv
  BY DEF Init, Inv, Stages

LEMMA MeasureKeeps ==
    ASSUME Inv, Measure
    PROVE  Inv'
<1>1. line' = Printed(file)
  BY DEF Measure, Printed, Time, Runs
<1> QED
  BY <1>1 DEF Inv, Measure, Stages

LEMMA MatchKeeps ==
    ASSUME Inv, Match \/ MatchFail
    PROVE  Inv'
<1>1. file' = file /\ line' = line /\ line = Printed(file)
  BY DEF Inv, Match, MatchFail
<1>2. CASE Match
  BY <1>1, <1>2 DEF Inv, Match, Stages
<1>3. CASE MatchFail
  BY <1>1, <1>3 DEF Inv, MatchFail, Stages
<1> QED
  BY <1>2, <1>3

LEMMA InsertKeeps ==
    ASSUME Inv, Insert \/ InsertFail
    PROVE  Inv'
<1>1. /\ file' = file /\ line' = line /\ line = Printed(file)
      /\ attr \in Matches(line)
  BY DEF Inv, Insert, InsertFail
<1>2. CASE Insert
  <2>1. row' = RowOf(attr)
    BY <1>2 DEF Insert, RowOf
  <2> QED
    BY <1>1, <1>2, <2>1 DEF Inv, Insert, Stages
<1>3. CASE InsertFail
  BY <1>1, <1>3 DEF Inv, InsertFail, Stages
<1> QED
  BY <1>2, <1>3

LEMMA InvHolds == Spec => []Inv
<1>1. Inv /\ [Next]_vars => Inv'
  <2> SUFFICES ASSUME Inv, [Next]_vars
               PROVE  Inv'
    OBVIOUS
  <2>1. CASE Measure
    BY <2>1, MeasureKeeps
  <2>2. CASE Match \/ MatchFail
    BY <2>2, MatchKeeps
  <2>3. CASE Insert \/ InsertFail
    BY <2>3, InsertKeeps
  <2>4. CASE UNCHANGED vars
    BY <2>4 DEF Inv, vars
  <2> QED
    BY <2>1, <2>2, <2>3, <2>4 DEF Next
<1> QED
  BY <1>1, InitInv, PTL DEF Spec

(* A row is of an attribute taken from the file.                           *)
LEMMA StoredFrom ==
    ASSUME Inv, stage = "stored"
    PROVE  \E a : row = RowOf(a) /\ TakenFrom(a, file) /\ file \in Files
<1>1. PICK a \in Matches(Printed(file)) : row = RowOf(a)
  BY DEF Inv
<1>2. file \in Files
  BY DEF Inv
<1> QED
  BY <1>1, <1>2, MatchesAre

(* The parts of a time.                                                    *)
LEMMA PartsOf ==
    ASSUME NEW h \in Nat, NEW m \in Nat, m < 60, NEW s \in Nat, s < 60,
           NEW t, t = h * 3600 + m * 60 + s
    PROVE  (t \div 60) % 60 = m /\ t % 60 = s
<1>1. t = 60 * (60 * h + m) + s /\ 60 * h + m \in Nat
  OBVIOUS
<1>2. PICK k \in Nat : k = 60 * h + m /\ t = 60 * k + s
  BY <1>1
<1>3. t \div 60 = k /\ t % 60 = s
  BY <1>2
<1>4. k % 60 = m
  BY <1>2
<1> QED
  BY <1>3, <1>4

LEMMA SmallintIs ==
    ASSUME NEW n \in Nat
    PROVE  Smallint(n) \in 0 .. SmallintMax
<1>1. SmallintMax \in Nat
  BY DEF SmallintMax
<1> QED
  BY <1>1 DEF Smallint

(* In numbers: the hour is kept as far as it goes, the seconds may be 0.   *)
LEMMA RowIs ==
    ASSUME NEW f \in Files, NEW a, TakenFrom(a, f)
    PROVE  LET r == RowOf(a)
               x == HMS(f.duration) IN
           /\ f.duration # None
           /\ r.duration = HourKept(x.h) * 3600 + x.m * 60 + a.s
           /\ r.duration \in 0 .. Day - 1
           /\ r.bitrate \in 0 .. SmallintMax
           /\ r.bitrate = Smallint(a.bitrate)
<1>1. /\ f.duration # None
      /\ a.h = HourKept(HMS(f.duration).h) /\ a.m = HMS(f.duration).m
      /\ a.s \in {0, HMS(f.duration).s} /\ a.bitrate \in Nat
  BY DEF TakenFrom
<1> DEFINE x == HMS(f.duration)
<1>2. /\ x.h \in Nat /\ x.m \in Nat /\ x.m < 60
      /\ x.s \in Nat /\ x.s < 60
  BY <1>1, HMSIs
<1>3. HourKept(x.h) \in Nat /\ HourKept(x.h) < 24
  BY <1>2, HourKeptIs
<1>4. RowOf(a).bitrate = Smallint(a.bitrate)
      /\ RowOf(a).duration = a.h * 3600 + a.m * 60 + a.s
  BY DEF RowOf
<1>5. Smallint(a.bitrate) \in 0 .. SmallintMax
  BY <1>1, SmallintIs
<1>6. PICK h, m, s : h = HourKept(x.h) /\ m = x.m /\ s = a.s
  OBVIOUS
<1>7. /\ h \in Nat /\ h < 24 /\ m \in Nat /\ m < 60
      /\ s \in Nat /\ s < 60
  BY <1>1, <1>2, <1>3, <1>6
<1>8. PICK t : t = h * 3600 + m * 60 + s
  OBVIOUS
<1>9. t \in 0 .. Day - 1
  <2>1. t \in Nat /\ Day \in Nat /\ t < Day
    BY <1>7, <1>8 DEF Day
  <2> QED
    BY <2>1
<1> QED
  BY <1>1, <1>4, <1>5, <1>6, <1>8, <1>9

----------------------------------------------------------------------------
(* A row holds a time of a day and a SMALLINT, whatever the numbers on the *)
(* line: the groups of the expression admit no other time, and MySQL no    *)
(* larger number (AttributesTypeOK).                                       *)
THEOREM AttributesTyped == Spec => []AttributesTypeOK
<1>1. Inv => AttributesTypeOK
  <2> SUFFICES ASSUME Inv
               PROVE  AttributesTypeOK
    OBVIOUS
  <2>1. /\ file \in Files
        /\ stage \in {"measure", "match", "insert", "refused", "stored", "lost"}
    BY DEF Inv, Stages
  <2>2. ASSUME stage = "stored"
        PROVE  row \in [duration : 0 .. Day - 1, bitrate : 0 .. SmallintMax]
    <3>1. PICK a : row = RowOf(a) /\ TakenFrom(a, file)
      BY <2>2, StoredFrom
    <3>2. /\ RowOf(a).duration \in 0 .. Day - 1
          /\ RowOf(a).bitrate \in 0 .. SmallintMax
      BY <2>1, <3>1, RowIs
    <3>3. RowOf(a) \in [duration : 0 .. Day - 1, bitrate : 0 .. SmallintMax]
      BY <3>2 DEF RowOf
    <3> QED
      BY <3>1, <3>3
  <2> QED
    BY <2>1, <2>2 DEF AttributesTypeOK
<1> QED
  BY <1>1, InvHolds, PTL

(* g hours, m minutes and n seconds were printed, h hours, m minutes and s *)
(* seconds stored.                                                         *)
Parted(g, m, n, h, s) ==
    /\ g \in Nat /\ m \in Nat /\ m < 60 /\ n \in Nat /\ n < 60
    /\ h \in Nat /\ s \in {0, n}
    /\ Secs(file.duration) = g * 3600 + m * 60 + n
    /\ row.duration = h * 3600 + m * 60 + s
    /\ g < 24 => h = g
    /\ Telling(file) => s = n

LEMMA StoredParts ==
    ASSUME Inv, stage = "stored"
    PROVE  \E g, m, n, h, s : Parted(g, m, n, h, s)
<1>1. PICK a : row = RowOf(a) /\ TakenFrom(a, file) /\ file \in Files
  BY StoredFrom
<1>2. /\ file.duration # None
      /\ row.duration = HourKept(HMS(file.duration).h) * 3600
                          + HMS(file.duration).m * 60 + a.s
      /\ a.s \in {0, HMS(file.duration).s}
      /\ Telling(file) => a.s = HMS(file.duration).s
  BY <1>1, RowIs DEF TakenFrom
<1> DEFINE x == HMS(file.duration)
<1>3. /\ x.h \in Nat /\ x.m \in Nat /\ x.m < 60
      /\ x.s \in Nat /\ x.s < 60
      /\ Secs(file.duration) = x.h * 3600 + x.m * 60 + x.s
  BY <1>1, <1>2, HMSIs
<1>4. HourKept(x.h) \in Nat /\ (x.h < 24 => HourKept(x.h) = x.h)
  BY <1>3, HourKeptIs
<1>5. /\ row.duration = HourKept(x.h) * 3600 + x.m * 60 + a.s
      /\ a.s \in {0, x.s} /\ (Telling(file) => a.s = x.s)
  BY <1>2
<1> HIDE DEF x
<1>6. Parted(x.h, x.m, x.s, HourKept(x.h), a.s)
  BY <1>3, <1>4, <1>5 DEF Parted
<1> QED
  BY <1>6

(* A row of a file shorter than a day has its duration as it was printed,  *)
(* to the minute whatever else is on the line, and to the second when      *)
(* there is enough after it for the expression to leave the seconds alone: *)
(* no digit of another number of the line gets into it (DurationKept).     *)
THEOREM DurationIsKept == Spec => []DurationKept
<1>1. Inv => DurationKept
  <2> SUFFICES ASSUME Inv, stage = "stored", NEW t,
                      t = Secs(file.duration), t < Day
               PROVE  /\ row.duration \in {t, t - (t % 60)}
                      /\ Telling(file) => row.duration = t
    BY DEF DurationKept, Secs
  <2>1. PICK g, m, n, h, s : Parted(g, m, n, h, s)
    BY StoredParts
  <2>2. /\ g \in Nat /\ m \in Nat /\ m < 60
        /\ n \in Nat /\ n < 60 /\ h \in Nat /\ s \in {0, n}
        /\ t = g * 3600 + m * 60 + n
        /\ row.duration = h * 3600 + m * 60 + s
        /\ g < 24 => h = g
        /\ Telling(file) => s = n
    BY <2>1 DEF Parted
  <2>3. g < 24
    BY <2>2 DEF Day
  <2>4. t % 60 = n
    BY <2>2, PartsOf
  <2> QED
    BY <2>2, <2>3, <2>4
<1> QED
  BY <1>1, InvHolds, PTL

(* The minutes of a row are those that were printed, of a file of any      *)
(* length, and its seconds too when the expression has not given them up:  *)
(* only the hour is cut to its last digits (MinutesKept).                  *)
THEOREM MinutesAreKept == Spec => []MinutesKept
<1>1. Inv => MinutesKept
  <2> SUFFICES ASSUME Inv, stage = "stored", NEW t, t = Secs(file.duration)
               PROVE  /\ (row.duration \div 60) % 60 = (t \div 60) % 60
                      /\ row.duration % 60 \in {0, t % 60}
                      /\ Telling(file) => row.duration % 60 = t % 60
    BY DEF MinutesKept, Secs
  <2>1. PICK g, m, n, h, s : Parted(g, m, n, h, s)
    BY StoredParts
  <2>2. /\ g \in Nat /\ m \in Nat /\ m < 60
        /\ n \in Nat /\ n < 60 /\ h \in Nat /\ s \in {0, n}
        /\ t = g * 3600 + m * 60 + n
        /\ row.duration = h * 3600 + m * 60 + s
        /\ Telling(file) => s = n
    BY <2>1 DEF Parted
  <2>3. (t \div 60) % 60 = m /\ t % 60 = n
    BY <2>2, PartsOf
  <2>4. s \in Nat /\ s < 60
    BY <2>2
  <2>5. (row.duration \div 60) % 60 = m /\ row.duration % 60 = s
    <3>1. PICK u : u = row.duration
      OBVIOUS
    <3>2. u = h * 3600 + m * 60 + s
      BY <2>2, <3>1
    <3>3. (u \div 60) % 60 = m /\ u % 60 = s
      BY <2>2, <2>4, <3>2, PartsOf
    <3> QED
      BY <3>1, <3>3
  <2> QED
    BY <2>2, <2>3, <2>5
<1> QED
  BY <1>1, InvHolds, PTL

(* When ffmpeg knows where the file starts and its bitrate, the fourth     *)
(* number is the bitrate, all of its digits and no other's, and the row    *)
(* has it, or the largest SMALLINT (BitrateKept).                          *)
THEOREM BitrateIsKept == Spec => []BitrateKept
<1>1. Inv => BitrateKept
  <2> SUFFICES ASSUME Inv, stage = "stored", file.start # None,
                      file.bitrate \notin {None, 0}
               PROVE  \/ row.bitrate = file.bitrate \div 1000
                      \/ /\ row.bitrate = SmallintMax
                         /\ file.bitrate \div 1000 > SmallintMax
    BY DEF BitrateKept
  <2>1. PICK a : row = RowOf(a) /\ TakenFrom(a, file) /\ file \in Files
    BY StoredFrom
  <2>2. row.bitrate = Smallint(a.bitrate)
    BY <2>1 DEF RowOf
  <2>3. a.bitrate = file.bitrate \div 1000 /\ a.bitrate \in Nat
    BY <2>1 DEF TakenFrom
  <2>4. SmallintMax \in Nat
    BY DEF SmallintMax
  <2> QED
    BY <2>2, <2>3, <2>4 DEF Smallint
<1> QED
  BY <1>1, InvHolds, PTL

(* Error 11 is for a file of which ffmpeg cannot tell how long it is: of   *)
(* any other the expression finds four numbers, if need be by giving up    *)
(* the seconds (RefusedUnknown).                                           *)
THEOREM RefusedOnlyUnknown == Spec => []RefusedUnknown
<1>1. Inv => RefusedUnknown
  <2> SUFFICES ASSUME Inv, stage = "refused"
               PROVE  file.duration = None
    BY DEF RefusedUnknown
  <2>1. file \in Files /\ Matches(Printed(file)) = {}
    BY DEF Inv
  <2> QED
    BY <2>1, MatchesAre
<1> QED
  BY <1>1, InvHolds, PTL
=============================================================================
