------------------------- MODULE CampaignFiles_proofs -------------------------
(***************************************************************************)
(* What is made of the files of the drivers, for any scripts, any jobs and *)
(* any number of starts and kills: a benchmark reports whole pairs, the    *)
(* conditions of a replay meet the proposals of its generation, and the    *)
(* tables of the primary script stand for rows that ran.                   *)
(***************************************************************************)
EXTENDS Campaign_proofs

-----------------------------------------------------------------------------
(* The benchmark: its cells in the order it meets them. *)

Conds(j) == Len(j.conditions)
Scens(j) == Len(j.scenarios)

LEMMA Parts ==
    ASSUME NEW a \in Nat, NEW d \in Nat \ {0}, NEW b \in Nat, b < d
    PROVE  (d * a + b) \div d = a /\ (d * a + b) % d = b
  <1> DEFINE n == d * a + b
  <1>1. d * a \in Nat
    OBVIOUS
  <1>2. n \in Nat
    BY <1>1
  <1>3. PICK q \in Nat, r \in Nat : /\ q = n \div d /\ r = n % d /\ r < d
                                    /\ n = d * q + r
    <2> HIDE DEF n
    <2> QED BY <1>2, Quotient
  <1>4. q = a
    <2>1. ASSUME NEW e \in Nat, q = a + 1 + e
          PROVE  FALSE
      <3>1. d * q = d * a + d + d * e
        BY <2>1
      <3>2. d * e \in Nat
        OBVIOUS
      <3> QED BY <1>1, <1>3, <3>1, <3>2
    <2>2. ASSUME NEW e \in Nat, a = q + 1 + e
          PROVE  FALSE
      <3>1. d * a = d * q + d + d * e
        BY <2>2
      <3>2. d * e \in Nat /\ d * q \in Nat
        BY <1>3
      <3> QED BY <1>3, <3>1, <3>2
    <2>3. \/ q = a
          \/ q - a - 1 \in Nat /\ q = a + 1 + (q - a - 1)
          \/ a - q - 1 \in Nat /\ a = q + 1 + (a - q - 1)
      BY <1>3
    <2> QED BY <2>1, <2>2, <2>3
  <1> QED BY <1>1, <1>3, <1>4

LEMMA BenchFacts ==
    ASSUME NEW j \in Jobs, NEW n \in 0..(CellCount(j) - 1)
    PROVE  LET C == Conds(j)
               S == Scens(j)
               p == n \div C
           IN  /\ C \in Nat \ {0} /\ S \in Nat \ {0} /\ j.repetitions \in Nat \ {0}
               /\ CellCount(j) = C * (S * j.repetitions)
               /\ S * j.repetitions \in Nat
               /\ p \in Nat /\ p < S * j.repetitions
               /\ n % C \in Nat /\ n % C < C /\ n = C * p + (n % C)
               /\ p % S \in Nat /\ p % S < S /\ p = S * (p \div S) + (p % S)
               /\ p \div S \in Nat /\ p \div S < j.repetitions
  <1> DEFINE C == Conds(j)
             S == Scens(j)
             R == j.repetitions
             p == n \div C
  <1>1. S \in Nat /\ C \in Nat /\ R \in Nat \ {0} /\ CellCount(j) = S * C * R
    BY JobFacts DEF CellCount, Conds, Scens
  <1>2. CellCount(j) \in Nat
    BY JobFacts
  <1> HIDE DEF S, C, R
  <1>3. n \in Nat /\ n < CellCount(j) /\ CellCount(j) # 0
    BY <1>2
  <1>4. S * C * R = C * (S * R)
    BY <1>1
  <1>5. C # 0 /\ S # 0
    <2>1. S * 0 * R = 0 /\ 0 * C * R = 0
      BY <1>1
    <2> QED BY <1>1, <1>3, <2>1
  <1>6. S * R \in Nat
    <2>1. \A x, y \in Nat : x * y \in Nat
      OBVIOUS
    <2> QED BY <1>1, <2>1
  <1>7. n < (S * R) * C
    <2>1. C * (S * R) = (S * R) * C
      BY <1>1, <1>6
    <2> QED BY <1>1, <1>3, <1>4, <2>1
  <1>8. p \in Nat /\ p < S * R /\ n % C \in Nat /\ n % C < C /\ n = C * p + (n % C)
    <2>1. p \in Nat /\ p < S * R
      BY <1>1, <1>3, <1>5, <1>6, <1>7, Quotient, QuotientBound
    <2>2. n % C \in 0..(C - 1) /\ n = C * p + (n % C)
      BY <1>1, <1>3, <1>5, Quotient
    <2>3. \A x \in 0..(C - 1) : x \in Nat /\ x < C
      BY <1>1
    <2> QED BY <2>1, <2>2, <2>3
  <1> HIDE DEF p
  <1>9. /\ p % S \in Nat /\ p % S < S /\ p = S * (p \div S) + (p % S)
        /\ p \div S \in Nat /\ p \div S < R
    <2>1. S * R = R * S
      BY <1>1
    <2>2. p \div S \in Nat /\ p \div S < R
      BY <1>1, <1>5, <1>8, <2>1, Quotient, QuotientBound
    <2>3. p % S \in 0..(S - 1) /\ p = S * (p \div S) + (p % S)
      BY <1>1, <1>5, <1>8, Quotient
    <2>4. \A x \in 0..(S - 1) : x \in Nat /\ x < S
      BY <1>1
    <2> QED BY <2>2, <2>3, <2>4
  <1> QED BY <1>1, <1>4, <1>5, <1>6, <1>8, <1>9 DEF p, C, S, R

\* Two cells of one pair stand in one block of conditions, and a cell stands
\* in one place.
LEMMA BenchDiffers ==
    ASSUME NEW j \in Jobs, NoRepeats(j.scenarios), NoRepeats(j.conditions),
           NEW m \in 0..(CellCount(j) - 1), NEW n \in 0..(CellCount(j) - 1)
    PROVE  /\ Pair(BenchAt(j, m)) = Pair(BenchAt(j, n))
                  <=> m \div Conds(j) = n \div Conds(j)
           /\ BenchAt(j, m) = BenchAt(j, n) => m = n
  <1> DEFINE C == Conds(j)
             S == Scens(j)
             p == m \div C
             q == n \div C
  <1>1. /\ C \in Nat \ {0} /\ S \in Nat \ {0}
        /\ m % C \in Nat /\ m % C < C /\ m = C * p + (m % C)
        /\ p % S \in Nat /\ p % S < S /\ p = S * (p \div S) + (p % S)
        /\ n % C \in Nat /\ n % C < C /\ n = C * q + (n % C)
        /\ q % S \in Nat /\ q % S < S /\ q = S * (q \div S) + (q % S)
    BY BenchFacts
  <1>2. DOMAIN j.scenarios = 1..S /\ DOMAIN j.conditions = 1..C
    BY JobFacts DEF Conds, Scens
  <1>3. /\ BenchAt(j, m).scenario = j.scenarios[(p % S) + 1]
        /\ BenchAt(j, m).condition = j.conditions[(m % C) + 1]
        /\ BenchAt(j, m).rep = p \div S
        /\ BenchAt(j, n).scenario = j.scenarios[(q % S) + 1]
        /\ BenchAt(j, n).condition = j.conditions[(n % C) + 1]
        /\ BenchAt(j, n).rep = q \div S
    BY DEF BenchAt, Conds, Scens
  <1> HIDE DEF C, S, p, q
  <1>4. \A x \in Nat, y \in Nat : x < y => x + 1 \in 1..y
    OBVIOUS
  <1>5. /\ (p % S) + 1 \in DOMAIN j.scenarios /\ (q % S) + 1 \in DOMAIN j.scenarios
        /\ (m % C) + 1 \in DOMAIN j.conditions /\ (n % C) + 1 \in DOMAIN j.conditions
    BY <1>1, <1>2, <1>4
  <1>6. j.scenarios[(p % S) + 1] = j.scenarios[(q % S) + 1] => p % S = q % S
    <2>1. j.scenarios[(p % S) + 1] = j.scenarios[(q % S) + 1] => (p % S) + 1 = (q % S) + 1
      BY <1>5 DEF NoRepeats
    <2> QED BY <1>1, <2>1
  <1>7. j.conditions[(m % C) + 1] = j.conditions[(n % C) + 1] => m % C = n % C
    <2>1. j.conditions[(m % C) + 1] = j.conditions[(n % C) + 1] => (m % C) + 1 = (n % C) + 1
      BY <1>5 DEF NoRepeats
    <2> QED BY <1>1, <2>1
  <1>8. Pair(BenchAt(j, m)) = Pair(BenchAt(j, n)) <=> p = q
    <2>1. ASSUME Pair(BenchAt(j, m)) = Pair(BenchAt(j, n))
          PROVE  p = q
      <3>1. p % S = q % S /\ p \div S = q \div S
        BY <1>3, <1>6, <2>1 DEF Pair
      <3> QED BY <1>1, <3>1
    <2>2. p = q => Pair(BenchAt(j, m)) = Pair(BenchAt(j, n))
      BY <1>3 DEF Pair
    <2> QED BY <2>1, <2>2
  <1>9. ASSUME BenchAt(j, m) = BenchAt(j, n)
        PROVE  m = n
    <2>1. p = q
      BY <1>8, <1>9 DEF Pair
    <2>2. m % C = n % C
      BY <1>3, <1>7, <1>9
    <2> QED BY <1>1, <2>1, <2>2
  <1> QED BY <1>8, <1>9 DEF p, q, C

\* The cells of a benchmark from place m on, as a queue and as a set.
Suffix(j, m) == [k \in 1..(CellCount(j) - m) |-> BenchAt(j, m + k - 1)]

From(j, m) == {BenchAt(j, n) : n \in m..(CellCount(j) - 1)}

LEMMA Mixed ==
    ASSUME NEW a \in Nat, NEW A \in Nat, a < A, NEW b \in Nat, NEW B \in Nat \ {0}, b < B
    PROVE  /\ B * a + b \in Nat /\ B * a + b < B * A
           /\ (B * a + b) \div B = a /\ (B * a + b) % B = b
  <1>1. B * a \in Nat /\ B * (A - a - 1) \in Nat
    <2>1. A - a - 1 \in Nat
      OBVIOUS
    <2>2. \A x, y \in Nat : x * y \in Nat
      OBVIOUS
    <2> QED BY <2>1, <2>2
  <1>2. B * A = B * a + B + B * (A - a - 1)
    OBVIOUS
  <1>3. B * a + b \in Nat /\ B * a + b < B * A
    BY <1>1, <1>2
  <1> QED BY <1>3, Parts

LEMMA CountFacts ==
    ASSUME NEW j \in Jobs, CellCount(j) # 0
    PROVE  /\ Conds(j) \in Nat \ {0} /\ Scens(j) \in Nat \ {0}
           /\ DOMAIN j.conditions = 1..Conds(j)
           /\ j.repetitions \in Nat \ {0}
           /\ CellCount(j) = Conds(j) * (Scens(j) * j.repetitions)
           /\ CellCount(j) = j.repetitions * (Conds(j) * Scens(j))
           /\ CellCount(j) \in Nat
           /\ Scens(j) * j.repetitions \in Nat
           /\ Conds(j) * Scens(j) \in Nat
  <1>1. CellCount(j) \in Nat
    BY JobFacts
  <1>2. 0 \in 0..(CellCount(j) - 1)
    BY <1>1
  <1> DEFINE C == Conds(j)
             S == Scens(j)
             R == j.repetitions
  <1>3. /\ C \in Nat \ {0} /\ S \in Nat \ {0} /\ R \in Nat \ {0}
        /\ CellCount(j) = C * (S * R) /\ S * R \in Nat
    BY <1>2, BenchFacts
  <1>4. DOMAIN j.conditions = 1..C
    BY JobFacts DEF Conds
  <1> HIDE DEF C, S, R
  <1>5. C * S \in Nat
    <2>1. \A x, y \in Nat : x * y \in Nat
      OBVIOUS
    <2> QED BY <1>3, <2>1
  <1>6. C * (S * R) = R * (C * S)
    BY <1>3
  <1> QED BY <1>1, <1>3, <1>4, <1>5, <1>6 DEF C, S, R

\* The benchmark meets every cell of its job.
LEMMA BenchMeetsAll ==
    ASSUME NEW j \in Jobs
    PROVE  Cells(j) = From(j, 0)
  <1> DEFINE C == Conds(j)
             S == Scens(j)
             R == j.repetitions
             N == CellCount(j)
  <1>1. CASE N = 0
    <2>1. 0..(N - 1) = {}
      BY <1>1
    <2> QED BY <2>1 DEF Cells, From
  <1>2. CASE N # 0
    <2>1. /\ C \in Nat \ {0} /\ S \in Nat \ {0} /\ R \in Nat \ {0}
          /\ N = C * (S * R) /\ N = R * (C * S) /\ S * R \in Nat /\ C * S \in Nat
          /\ N \in Nat
      BY <1>2, CountFacts
    <2>2. ASSUME NEW n \in 0..(N - 1)
          PROVE  BenchAt(j, n) \in Cells(j)
      <3> DEFINE p == n \div C
                 t == n % C
                 s == p % S
                 r == p \div S
                 round == C * s + t
                 k == R * round + r
      <3>1. /\ t \in Nat /\ t < C /\ s \in Nat /\ s < S /\ r \in Nat /\ r < R
        BY BenchFacts
      <3>2. BenchAt(j, n) = [scenario |-> j.scenarios[s + 1],
                             condition |-> j.conditions[t + 1], rep |-> r]
        BY DEF BenchAt, Conds, Scens
      <3> HIDE DEF C, S, R, N, p, t, s, r
      <3>3. round \in Nat /\ round < C * S /\ round \div C = s /\ round % C = t
        BY <2>1, <3>1, Mixed
      <3> HIDE DEF round
      <3>4. k \in Nat /\ k < R * (C * S) /\ k \div R = round /\ k % R = r
        BY <2>1, <3>1, <3>3, Mixed
      <3> HIDE DEF k
      <3>5. k \in 0..(N - 1)
        BY <2>1, <3>4
      <3>6. CellAt(j, k) = [scenario |-> j.scenarios[s + 1],
                            condition |-> j.conditions[t + 1], rep |-> r]
        BY <3>3, <3>4 DEF CellAt, R, C, Conds
      <3> QED BY <3>2, <3>5, <3>6 DEF Cells, N
    <2>3. ASSUME NEW k \in 0..(N - 1)
          PROVE  CellAt(j, k) \in From(j, 0)
      <3> DEFINE round == k \div R
                 r == k % R
                 s == round \div C
                 t == round % C
                 p == S * r + s
                 n == C * p + t
      <3>0. CellAt(j, k) = [scenario |-> j.scenarios[s + 1],
                            condition |-> j.conditions[t + 1], rep |-> r]
        BY DEF CellAt, Conds
      <3> HIDE DEF C, S, R, N
      <3>1. /\ round \in Nat /\ r \in Nat /\ r < R /\ round < C * S
        <4>1. k \in Nat /\ k < N
          BY <2>1
        <4>2. R * (C * S) = (C * S) * R
          BY <2>1
        <4>3. k < (C * S) * R
          BY <2>1, <4>1, <4>2
        <4>4. round \in Nat /\ r \in 0..(R - 1) /\ round < C * S
          BY <2>1, <4>1, <4>3, Quotient, QuotientBound
        <4>5. \A x \in 0..(R - 1) : x \in Nat /\ x < R
          BY <2>1
        <4> QED BY <4>4, <4>5
      <3> HIDE DEF round, r
      <3>2. s \in Nat /\ s < S /\ t \in Nat /\ t < C
        <4>1. C * S = S * C
          BY <2>1
        <4>2. s \in Nat /\ t \in 0..(C - 1) /\ s < S
          BY <2>1, <3>1, <4>1, Quotient, QuotientBound
        <4>3. \A x \in 0..(C - 1) : x \in Nat /\ x < C
          BY <2>1
        <4> QED BY <4>2, <4>3
      <3> HIDE DEF s, t
      <3>3. p \in Nat /\ p < S * R /\ p \div S = r /\ p % S = s
        BY <2>1, <3>1, <3>2, Mixed
      <3> HIDE DEF p
      <3>4. n \in Nat /\ n < C * (S * R) /\ n \div C = p /\ n % C = t
        BY <2>1, <3>2, <3>3, Mixed
      <3> HIDE DEF n
      <3>5. n \in 0..(N - 1)
        BY <2>1, <3>4
      <3>6. BenchAt(j, n) = [scenario |-> j.scenarios[s + 1],
                             condition |-> j.conditions[t + 1], rep |-> r]
        BY <3>3, <3>4 DEF BenchAt, C, S, Conds, Scens
      <3> QED BY <3>0, <3>5, <3>6 DEF From, N
    <2>4. Cells(j) = {CellAt(j, k) : k \in 0..(N - 1)}
      BY DEF Cells
    <2>5. From(j, 0) = {BenchAt(j, n) : n \in 0..(N - 1)}
      BY DEF From
    <2> QED BY <2>2, <2>3, <2>4, <2>5
  <1> QED BY <1>1, <1>2

\* Where the pair of the cell at place m ends.
PairEnd(j, m) == Conds(j) * ((m \div Conds(j)) + 1)

\* A pair's conditions stand next to one another.
LEMMA PairBlock ==
    ASSUME NEW j \in Jobs, NEW m \in 0..(CellCount(j) - 1)
    PROVE  LET C == Conds(j)
               p == m \div C
           IN  /\ PairEnd(j, m) \in (m + 1)..CellCount(j)
               /\ ((CellCount(j) - m - 1) % C) + 1 = PairEnd(j, m) - m
               /\ \A n \in 0..(CellCount(j) - 1) :
                      n \div C = p <=> n >= PairEnd(j, m) - C /\ n < PairEnd(j, m)
               /\ \A t \in 0..(C - 1) :
                      /\ PairEnd(j, m) - C + t \in 0..(CellCount(j) - 1)
                      /\ (PairEnd(j, m) - C + t) % C = t
  <1> DEFINE C == Conds(j)
             K == Scens(j) * j.repetitions
             N == CellCount(j)
             p == m \div C
             t0 == m % C
             e == PairEnd(j, m)
  <1>1. /\ C \in Nat \ {0} /\ N = C * K /\ K \in Nat /\ N \in Nat
        /\ p \in Nat /\ p < K /\ t0 \in Nat /\ t0 < C /\ m = C * p + t0
    <2>1. N \in Nat
      BY JobFacts
    <2> QED BY <2>1, BenchFacts
  <1>2. e = C * (p + 1)
    BY DEF PairEnd
  <1> HIDE DEF C, K, N, p, t0, e
  <1>3. e = C * p + C /\ C * p \in Nat /\ C * (K - p - 1) \in Nat
    <2>1. \A x, y \in Nat : x * y \in Nat
      OBVIOUS
    <2>2. K - p - 1 \in Nat
      BY <1>1
    <2>3. C * (p + 1) = C * p + C
      BY <1>1
    <2> QED BY <1>1, <1>2, <2>1, <2>2, <2>3
  <1>4. N = C * p + C + C * (K - p - 1)
    BY <1>1
  <1>5. e \in (m + 1)..N
    BY <1>1, <1>3, <1>4
  <1>6. ((N - m - 1) % C) + 1 = e - m
    <2> DEFINE u == K - p - 1
               v == C - 1 - t0
    <2>1. u \in Nat /\ v \in Nat /\ v < C
      BY <1>1
    <2>2. N - m - 1 = C * u + v
      BY <1>1, <1>3, <1>4
    <2> HIDE DEF u
    <2>3. (C * u + v) % C = v
      <3> HIDE DEF v
      <3> QED BY <1>1, <2>1, Parts
    <2> QED BY <1>1, <1>3, <2>2, <2>3
  <1>7. ASSUME NEW n \in 0..(N - 1)
        PROVE  n \div C = p <=> n >= e - C /\ n < e
    <2>1. n \in Nat /\ n < N
      BY <1>1
    <2>2. /\ n \div C \in Nat /\ n % C \in 0..(C - 1)
          /\ n = C * (n \div C) + (n % C)
      BY <1>1, <2>1, Quotient
    <2>3. ASSUME n \div C = p
          PROVE  n >= e - C /\ n < e
      <3>1. n = C * p + (n % C)
        BY <2>2, <2>3
      <3> QED BY <1>1, <1>3, <2>2, <3>1
    <2>4. ASSUME n >= e - C, n < e
          PROVE  n \div C = p
      <3>1. n - C * p \in Nat /\ n - C * p < C /\ n = C * p + (n - C * p)
        BY <1>1, <1>3, <2>1, <2>4
      <3>2. PICK b \in Nat : b < C /\ n = C * p + b
        BY <3>1
      <3> QED BY <1>1, <3>2, Parts
    <2> QED BY <2>3, <2>4
  <1>8. ASSUME NEW t \in 0..(C - 1)
        PROVE  e - C + t \in 0..(N - 1) /\ (e - C + t) % C = t
    <2>1. t \in Nat /\ t < C
      BY <1>1
    <2>2. e - C + t = C * p + t
      BY <1>1, <1>3, <2>1
    <2>3. (C * p + t) % C = t
      BY <1>1, <2>1, Parts
    <2>4. C * p + t \in 0..(N - 1)
      BY <1>1, <1>3, <1>4, <2>1
    <2> QED BY <2>2, <2>3, <2>4
  <1> QED BY <1>5, <1>6, <1>7, <1>8 DEF C, N, p, e

LEMMA SuffixFacts ==
    ASSUME NEW j \in Jobs, NEW m \in 0..CellCount(j)
    PROVE  /\ IsList(Suffix(j, m)) /\ Len(Suffix(j, m)) = CellCount(j) - m
           /\ Occurring(Suffix(j, m)) = From(j, m)
           /\ Suffix(j, m) = <<>> <=> m = CellCount(j)
           /\ m < CellCount(j) =>
                  /\ Head(Suffix(j, m)) = BenchAt(j, m)
                  /\ Tail(Suffix(j, m)) = Suffix(j, m + 1)
  <1> DEFINE N == CellCount(j)
             s == Suffix(j, m)
  <1>1. N \in Nat /\ m \in Nat /\ m <= N /\ N - m \in Nat
    BY JobFacts
  <1>2. s = [k \in 1..(N - m) |-> BenchAt(j, m + k - 1)]
    BY DEF Suffix
  <1> HIDE DEF s, N
  <1>3. /\ DOMAIN s = 1..(N - m)
        /\ \A k \in 1..(N - m) : s[k] = BenchAt(j, m + k - 1)
    BY <1>2
  <1>4. s \in Seq(Occurring(s)) /\ Len(s) = N - m
    <2>1. \A k \in 1..(N - m) : s[k] \in Occurring(s)
      BY <1>3 DEF Occurring
    <2>2. s = [k \in 1..(N - m) |-> s[k]]
      BY <1>2
    <2> QED BY <1>1, <1>3, <2>1, <2>2
  <1>5. IsList(s)
    BY <1>4 DEF IsList, Occurring
  <1>6. Occurring(s) = From(j, m)
    <2>1. \A k \in 1..(N - m) : m + k - 1 \in m..(N - 1)
      BY <1>1
    <2>2. \A n \in m..(N - 1) : n - m + 1 \in 1..(N - m) /\ m + (n - m + 1) - 1 = n
      BY <1>1
    <2>3. From(j, m) = {BenchAt(j, n) : n \in m..(N - 1)}
      BY DEF From, N
    <2>4. \A n \in m..(N - 1) : s[n - m + 1] = BenchAt(j, n)
      BY <1>3, <2>2
    <2> QED BY <1>3, <2>1, <2>2, <2>3, <2>4 DEF Occurring
  <1>7. s = <<>> <=> m = N
    BY <1>1, <1>4
  <1>8. ASSUME m < N
        PROVE  Head(s) = BenchAt(j, m) /\ Tail(s) = Suffix(j, m + 1)
    <2>1. s # <<>> /\ 1 \in 1..(N - m) /\ m + 1 - 1 = m
      BY <1>1, <1>7, <1>8
    <2>2. Head(s) = s[1]
      BY <1>4, <2>1
    <2>3. Head(s) = BenchAt(j, m)
      BY <1>3, <2>1, <2>2
    <2>4. /\ Tail(s) \in Seq(Occurring(s)) /\ Len(Tail(s)) = N - m - 1
          /\ \A k \in 1..(N - m - 1) : Tail(s)[k] = s[k + 1]
      BY <1>1, <1>4, <2>1, HeadTailProperties
    <2>5. Tail(s) = [k \in 1..(N - m - 1) |-> Tail(s)[k]]
      <3>1. PICK t : t = Tail(s)
        OBVIOUS
      <3>2. PICK T : t \in Seq(T) /\ Len(t) = N - m - 1
        BY <2>4, <3>1
      <3>3. t = [k \in 1..(N - m - 1) |-> t[k]]
        BY <3>2
      <3> QED BY <3>1, <3>3
    <2>6. \A k \in 1..(N - m - 1) : /\ k + 1 \in 1..(N - m)
                                    /\ m + (k + 1) - 1 = (m + 1) + k - 1
      BY <1>1
    <2>7. \A k \in 1..(N - m - 1) : Tail(s)[k] = BenchAt(j, (m + 1) + k - 1)
      BY <1>3, <2>4, <2>6
    <2>8. Tail(s) = [k \in 1..(N - m - 1) |-> BenchAt(j, (m + 1) + k - 1)]
      BY <2>5, <2>7
    <2>9. N - m - 1 = N - (m + 1)
      BY <1>1
    <2> QED BY <2>3, <2>8, <2>9 DEF Suffix, N
  <1> QED BY <1>4, <1>5, <1>6, <1>7, <1>8 DEF s, N

\* Skipping the rest of a pair leaves the pairs after it.
LEMMA SuffixSkips ==
    ASSUME NEW j \in Jobs, NEW m \in 0..(CellCount(j) - 1), NEW left,
           left = ((Len(Suffix(j, m)) - 1) % Conds(j)) + 1
    PROVE  SubSeq(Suffix(j, m), left + 1, Len(Suffix(j, m)))
               = Suffix(j, PairEnd(j, m))
  <1> DEFINE N == CellCount(j)
             s == Suffix(j, m)
             e == PairEnd(j, m)
             u == Suffix(j, e)
             v == SubSeq(s, left + 1, N - m)
  <1>1. N \in Nat /\ m \in Nat /\ m < N /\ m \in 0..N /\ e \in (m + 1)..N /\ e \in 0..N
        /\ left = e - m
    <2>1. N \in Nat
      BY JobFacts
    <2>2. m \in 0..N
      BY <2>1
    <2>3. Len(s) = N - m
      BY <2>2, SuffixFacts
    <2>4. e \in (m + 1)..N /\ ((N - m - 1) % Conds(j)) + 1 = e - m
      BY PairBlock
    <2>5. e \in 0..N
      BY <2>1, <2>4
    <2> QED BY <2>1, <2>2, <2>3, <2>4, <2>5
  <1>2. /\ Len(s) = N - m /\ Occurring(s) = From(j, m) /\ IsList(s)
        /\ Len(u) = N - e /\ Occurring(u) = From(j, e) /\ IsList(u)
    BY <1>1, SuffixFacts
  <1>3. /\ s = [k \in 1..(N - m) |-> BenchAt(j, m + k - 1)]
        /\ u = [k \in 1..(N - e) |-> BenchAt(j, e + k - 1)]
    BY DEF Suffix
  <1> HIDE DEF s, u, e, N
  <1> DEFINE S == Occurring(s) \cup Occurring(u)
  <1>4. u \in Seq(S) /\ s \in Seq(S)
    <2>1. s \in Seq(Occurring(s)) /\ u \in Seq(Occurring(u))
      BY <1>2, ListFacts
    <2> QED BY <2>1, SeqMonotonic
  <1>5. \A i \in (left + 1)..(N - m) : s[i] \in S
    <2> HIDE DEF S
    <2>1. \A i \in (left + 1)..(N - m) : i \in 1..Len(s)
      BY <1>1, <1>2
    <2> QED BY <1>4, <2>1
  <1> HIDE DEF S
  <1>6. left + 1 \in Int /\ N - m \in Int
    BY <1>1
  <1>7. /\ v \in Seq(S) /\ Len(v) = N - e
        /\ \A i \in 1..(N - e) : v[i] = s[(left + 1) + i - 1]
    <2>1. /\ v \in Seq(S)
          /\ Len(v) = IF left + 1 <= N - m THEN (N - m) - (left + 1) + 1 ELSE 0
          /\ \A i \in 1..((N - m) - (left + 1) + 1) : v[i] = s[(left + 1) + i - 1]
      BY <1>5, <1>6, SubSeqProperties
    <2> HIDE DEF v
    <2>2. (N - m) - (left + 1) + 1 = N - e
      BY <1>1
    <2>3. left + 1 > N - m => N - e = 0
      BY <1>1
    <2> QED BY <1>1, <2>1, <2>2, <2>3
  <1>8. \A i \in 1..(N - e) : v[i] = u[i]
    <2> HIDE DEF v
    <2>1. \A i \in 1..(N - e) : /\ (left + 1) + i - 1 \in 1..(N - m)
                                /\ m + ((left + 1) + i - 1) - 1 = e + i - 1
      <3>1. left = e - m /\ e \in Int /\ m \in Int /\ N \in Int
        BY <1>1
      <3>2. ASSUME NEW i \in 1..(N - e)
            PROVE  (left + 1) + i - 1 \in 1..(N - m)
        <4>1. e > m
          BY <1>1
        <4> QED BY <3>1, <4>1
      <3>3. \A i \in 1..(N - e) : m + ((left + 1) + i - 1) - 1 = e + i - 1
        BY <3>1
      <3> QED BY <3>2, <3>3
    <2> QED BY <1>3, <1>7, <2>1
  <1>9. v = u
    <2> HIDE DEF v
    <2> QED BY <1>2, <1>4, <1>7, <1>8, SeqEqual
  <1> QED BY <1>2, <1>9 DEF u, e, s, N

LEMMA Reaches ==
    ASSUME NEW n \in Nat, NEW d \in Nat \ {0}, NEW b \in Nat
    PROVE  n >= d * b <=> n \div d >= b
  <1>1. /\ n \div d \in Nat /\ n % d \in Nat /\ n % d < d
        /\ n = d * (n \div d) + (n % d)
    <2>1. \A x \in 0..(d - 1) : x \in Nat /\ x < d
      OBVIOUS
    <2> QED BY <2>1, Quotient
  <1>2. d * b \in Nat /\ d * b = b * d
    <2>1. \A x, y \in Nat : x * y \in Nat /\ x * y = y * x
      OBVIOUS
    <2> QED BY <2>1
  <1>3. n < d * b => n \div d < b
    BY <1>2, QuotientBound
  <1>4. n \div d < b => n < d * b
    <2>1. \A q, r \in Nat : q < b /\ r < d => d * q + r < d * b
      BY Mixed
    <2> QED BY <1>1, <2>1
  <1> QED BY <1>1, <1>2, <1>3, <1>4

\* What is ahead of the benchmark, seen as sets of cells: the head of the
\* queue has its conditions next to it, and the pairs after it are whole.
LEMMA Ahead ==
    ASSUME NEW j \in Jobs, NoRepeats(j.scenarios), NoRepeats(j.conditions),
           NEW m \in 0..(CellCount(j) - 1)
    PROVE  LET e == PairEnd(j, m)
               h == BenchAt(j, m)
               C == j.conditions
           IN  /\ From(j, m) = From(j, m + 1) \cup {h} /\ h \notin From(j, m + 1)
               /\ From(j, e) = {c \in From(j, m) : Pair(c) # Pair(h)}
               /\ \A c \in From(j, e) : \A q \in Cells(j) :
                      Pair(q) = Pair(c) => q \in From(j, e)
               /\ {q \in Cells(j) : Pair(q) = Pair(h)}
                      = {Under(h, C[k]) : k \in DOMAIN C}
               /\ \A k, l \in DOMAIN C : Under(h, C[k]) = Under(h, C[l]) => k = l
               /\ h \in Cells(j)
               /\ \A i \in (m + 1)..(e - 1) : i < CellCount(j)
                                              /\ Pair(BenchAt(j, i)) = Pair(h)
  <1> DEFINE N == CellCount(j)
             C == Conds(j)
             p == m \div C
             e == PairEnd(j, m)
             h == BenchAt(j, m)
  <1>0. /\ N \in Nat /\ m \in Nat /\ m < N /\ C \in Nat \ {0}
        /\ DOMAIN j.conditions = 1..C
    <2>1. N \in Nat
      BY JobFacts
    <2>2. N # 0
      BY <2>1
    <2> QED BY <2>1, <2>2, CountFacts
  <1>1. /\ e \in (m + 1)..N
        /\ \A n \in 0..(N - 1) : n \div C = p <=> n >= e - C /\ n < e
        /\ \A t \in 0..(C - 1) : e - C + t \in 0..(N - 1) /\ (e - C + t) % C = t
    BY PairBlock
  <1>2. \A k, n \in 0..(N - 1) :
            /\ Pair(BenchAt(j, k)) = Pair(BenchAt(j, n)) <=> k \div C = n \div C
            /\ BenchAt(j, k) = BenchAt(j, n) => k = n
    BY BenchDiffers
  <1>3. /\ From(j, m) = {BenchAt(j, n) : n \in m..(N - 1)}
        /\ From(j, m + 1) = {BenchAt(j, n) : n \in (m + 1)..(N - 1)}
        /\ From(j, e) = {BenchAt(j, n) : n \in e..(N - 1)}
        /\ Cells(j) = {BenchAt(j, n) : n \in 0..(N - 1)}
    BY BenchMeetsAll DEF From
  <1>4. \A k, n \in 0..(N - 1) : /\ BenchAt(j, k).condition = j.conditions[(k % C) + 1]
                                 /\ Pair(BenchAt(j, k)).scenario = BenchAt(j, k).scenario
                                 /\ Pair(BenchAt(j, k)).rep = BenchAt(j, k).rep
    BY DEF BenchAt, Pair, Conds
  <1>5. \A k \in 0..(N - 1) :
            BenchAt(j, k) = [scenario |-> BenchAt(j, k).scenario,
                             condition |-> BenchAt(j, k).condition,
                             rep |-> BenchAt(j, k).rep]
    BY DEF BenchAt
  <1> HIDE DEF N, C, p, e, h
  <1>6. m \in 0..(N - 1) /\ h = BenchAt(j, m) /\ p = m \div C
    BY DEF N, h, p
  <1>7. From(j, m) = From(j, m + 1) \cup {h} /\ h \notin From(j, m + 1)
    <2>1. m..(N - 1) = ((m + 1)..(N - 1)) \cup {m}
      BY <1>0
    <2>2. \A n \in (m + 1)..(N - 1) : n \in 0..(N - 1) /\ n # m
      BY <1>0
    <2> QED BY <1>2, <1>3, <1>6, <2>1, <2>2
  <1>8. From(j, e) = {c \in From(j, m) : Pair(c) # Pair(h)}
    <2>1. \A n \in e..(N - 1) : n \in m..(N - 1) /\ n \in 0..(N - 1) /\ ~(n < e)
      BY <1>0, <1>1
    <2>2. \A n \in m..(N - 1) : n \in 0..(N - 1) /\ n >= m
      BY <1>0
    <2>3. \A n \in 0..(N - 1) : Pair(BenchAt(j, n)) = Pair(h) <=> n >= e - C /\ n < e
      BY <1>1, <1>2, <1>6
    <2>4. m >= e - C
      BY <1>1, <1>6
    <2>5. \A n \in m..(N - 1) : n >= e - C
      BY <1>0, <1>1, <2>4
    <2>6. \A n \in m..(N - 1) : ~(n < e) => n \in e..(N - 1)
      BY <1>0, <1>1
    <2> QED BY <1>3, <2>1, <2>2, <2>3, <2>5, <2>6
  <1>9. ASSUME NEW c \in From(j, e), NEW q \in Cells(j), Pair(q) = Pair(c)
        PROVE  q \in From(j, e)
    <2>1. PICK n \in e..(N - 1) : c = BenchAt(j, n)
      BY <1>3
    <2>2. PICK k \in 0..(N - 1) : q = BenchAt(j, k)
      BY <1>3
    <2>3. n \in 0..(N - 1) /\ n >= e
      BY <1>0, <1>1
    <2>4. k \div C = n \div C
      BY <1>2, <1>9, <2>1, <2>2, <2>3
    <2>5. k >= e
      <3>1. e = C * (p + 1)
        BY DEF PairEnd, e, p, C
      <3>2. p + 1 \in Nat
        <4>1. p \in Nat
          BY <1>0, <1>6, Quotient
        <4> QED BY <4>1
      <3>3. \A x \in Nat : x >= e <=> x \div C >= p + 1
        BY <1>0, <3>1, <3>2, Reaches
      <3>4. k \in Nat /\ n \in Nat
        BY <1>0, <2>3
      <3>5. n \div C >= p + 1
        BY <2>3, <3>3, <3>4
      <3>6. k \div C >= p + 1
        BY <2>4, <3>5
      <3> QED BY <3>3, <3>4, <3>6
    <2>6. k \in e..(N - 1)
      BY <1>0, <1>1, <2>5
    <2> QED BY <1>3, <2>2, <2>6
  <1>10. {q \in Cells(j) : Pair(q) = Pair(h)}
             = {Under(h, j.conditions[k]) : k \in DOMAIN j.conditions}
    <2>1. ASSUME NEW n \in 0..(N - 1), Pair(BenchAt(j, n)) = Pair(h)
          PROVE  \E k \in DOMAIN j.conditions :
                     BenchAt(j, n) = Under(h, j.conditions[k])
      <3>1. n % C \in 0..(C - 1) /\ (n % C) + 1 \in 1..C
        <4>1. n \in Nat
          BY <1>0
        <4>2. n % C \in 0..(C - 1)
          BY <1>0, <4>1, Quotient
        <4> QED BY <1>0, <4>2
      <3>2. /\ BenchAt(j, n).scenario = h.scenario /\ BenchAt(j, n).rep = h.rep
            /\ BenchAt(j, n).condition = j.conditions[(n % C) + 1]
        BY <1>4, <1>6, <2>1
      <3>3. BenchAt(j, n) = Under(h, j.conditions[(n % C) + 1])
        BY <1>5, <3>2 DEF Under
      <3> QED BY <1>0, <3>1, <3>3
    <2>2. ASSUME NEW k \in DOMAIN j.conditions
          PROVE  \E n \in 0..(N - 1) : /\ BenchAt(j, n) = Under(h, j.conditions[k])
                                       /\ Pair(BenchAt(j, n)) = Pair(h)
      <3> DEFINE n == e - C + (k - 1)
      <3>1. k \in 1..C /\ k - 1 \in 0..(C - 1) /\ (k - 1) + 1 = k
        BY <1>0
      <3>2. n \in 0..(N - 1) /\ n % C = k - 1 /\ n >= e - C /\ n < e
        <4>1. n \in 0..(N - 1) /\ n % C = k - 1
          BY <1>1, <3>1
        <4>2. e \in Int /\ k \in Int /\ k >= 1 /\ k <= C
          BY <1>0, <1>1, <3>1
        <4>3. n >= e - C /\ n < e
          BY <1>0, <4>2
        <4> QED BY <4>1, <4>3
      <3> HIDE DEF n
      <3>3. Pair(BenchAt(j, n)) = Pair(h)
        BY <1>1, <1>2, <1>6, <3>2
      <3>4. /\ BenchAt(j, n).scenario = h.scenario /\ BenchAt(j, n).rep = h.rep
            /\ BenchAt(j, n).condition = j.conditions[k]
        BY <1>4, <1>6, <3>1, <3>2, <3>3
      <3>5. BenchAt(j, n) = Under(h, j.conditions[k])
        BY <1>5, <3>2, <3>4 DEF Under
      <3> QED BY <3>2, <3>3, <3>5
    <2> QED BY <1>3, <2>1, <2>2
  <1>11. \A k, l \in DOMAIN j.conditions :
             Under(h, j.conditions[k]) = Under(h, j.conditions[l]) => k = l
    BY DEF Under, NoRepeats
  <1>12. h \in Cells(j)
    BY <1>3, <1>6
  <1>13. \A i \in (m + 1)..(e - 1) : i < N /\ Pair(BenchAt(j, i)) = Pair(h)
    <2>1. m >= e - C
      BY <1>1, <1>6
    <2>2. \A i \in (m + 1)..(e - 1) : i \in 0..(N - 1) /\ i < N /\ i >= e - C /\ i < e
      BY <1>0, <1>1, <2>1
    <2> QED BY <1>1, <1>2, <1>6, <2>2
  <1> QED BY <1>7, <1>8, <1>9, <1>10, <1>11, <1>12, <1>13 DEF N, e, h

-----------------------------------------------------------------------------
(* The rows of a benchmark that has dealt with some of its cells. *)

\* Where the rows of a cell stand.
Places(rows, c) == {n \in DOMAIN rows : rows[n].cell = c}

Reported(rows, c) ==
    \E m, n \in Places(rows, c) :
        /\ Places(rows, c) = {m, n} /\ m <= n
        /\ m < n => rows[m].is = "row" /\ rows[n].is = "error"

\* The rows of a benchmark that has dealt with the cells in D.
BenchRows(j, rows, D) ==
    /\ \A r \in Occurring(rows) : r.is \in {"row", "error"} /\ r.cell \in D
    /\ \A c \in D : Reported(rows, c)
    /\ \A r \in FailedIn(rows) : \A q \in Cells(j) :
           Pair(q) = Pair(r.cell) => \E e \in FailedIn(rows) : e.cell = q
    /\ SaidAlike(rows)

LEMMA JoinFacts ==
    ASSUME NEW s, IsList(s), NEW t, IsList(t)
    PROVE  /\ Len(s) \in Nat /\ Len(t) \in Nat
           /\ DOMAIN s = 1..Len(s) /\ DOMAIN t = 1..Len(t)
           /\ DOMAIN (s \o t) = 1..(Len(s) + Len(t))
           /\ \A n \in 1..Len(s) : (s \o t)[n] = s[n]
           /\ \A n \in 1..Len(t) : (s \o t)[Len(s) + n] = t[n]
  <1> DEFINE U == Occurring(s) \cup Occurring(t)
  <1>1. s \in Seq(U) /\ t \in Seq(U)
    <2>1. s \in Seq(Occurring(s)) /\ t \in Seq(Occurring(t))
      BY ListFacts
    <2> QED BY <2>1, SeqMonotonic
  <1> HIDE DEF U
  <1>2. /\ Len(s) \in Nat /\ Len(t) \in Nat
        /\ DOMAIN s = 1..Len(s) /\ DOMAIN t = 1..Len(t)
        /\ DOMAIN (s \o t) = 1..(Len(s) + Len(t))
        /\ \A n \in 1..(Len(s) + Len(t)) :
               (s \o t)[n] = IF n <= Len(s) THEN s[n] ELSE t[n - Len(s)]
    BY <1>1
  <1>3. \A n \in 1..Len(s) : (s \o t)[n] = s[n]
    BY <1>2
  <1>4. \A n \in 1..Len(t) : (s \o t)[Len(s) + n] = t[n]
    BY <1>2
  <1> QED BY <1>2, <1>3, <1>4

\* More error rows for each cell of a set B that is new or has its row.
LEMMA PairFails ==
    ASSUME NEW j, NEW D, NEW B, NEW rows, IsList(rows), NEW more, IsList(more),
           BenchRows(j, rows, D),
           NEW h \in B, h \notin D,
           B = {q \in Cells(j) : Pair(q) = Pair(h)},
           \A r \in Occurring(more) : r.is = "error",
           Filled(Occurring(more)) = B,
           \A m, n \in DOMAIN more : more[m].cell = more[n].cell => m = n
    PROVE  BenchRows(j, rows \o more, D \cup B)
  <1> DEFINE a == rows \o more
             N == Len(rows)
             M == Len(more)
  <1>1. /\ N \in Nat /\ M \in Nat
        /\ DOMAIN rows = 1..N /\ DOMAIN more = 1..M /\ DOMAIN a = 1..(N + M)
        /\ \A n \in 1..N : a[n] = rows[n]
        /\ \A n \in 1..M : a[N + n] = more[n]
    BY JoinFacts
  <1>2. Occurring(a) = Occurring(rows) \cup Occurring(more)
    BY ListJoin
  <1> HIDE DEF a, N, M
  <1>3. /\ RowsThatRan(a) = RowsThatRan(rows)
        /\ FailedIn(a) = FailedIn(rows) \cup Occurring(more)
    BY <1>2 DEF RowsThatRan, FailedIn
  <1>4. \A r \in FailedIn(rows) : Pair(r.cell) # Pair(h)
    BY DEF BenchRows, FailedIn
  <1>5. \A r \in Occurring(a) : r.is \in {"row", "error"} /\ r.cell \in D \cup B
    BY <1>2 DEF BenchRows, Filled
  <1>6. SaidAlike(a)
    BY <1>3 DEF BenchRows, SaidAlike
  <1>7. \A r \in FailedIn(a) : \A q \in Cells(j) :
            Pair(q) = Pair(r.cell) => \E e \in FailedIn(a) : e.cell = q
    <2>1. ASSUME NEW r \in Occurring(more), NEW q \in Cells(j), Pair(q) = Pair(r.cell)
          PROVE  \E e \in FailedIn(a) : e.cell = q
      <3>1. r.cell \in B
        BY DEF Filled
      <3>2. q \in B
        BY <2>1, <3>1
      <3> QED BY <1>3, <3>2 DEF Filled
    <2>2. ASSUME NEW r \in FailedIn(rows), NEW q \in Cells(j), Pair(q) = Pair(r.cell)
          PROVE  \E e \in FailedIn(a) : e.cell = q
      <3>1. \E e \in FailedIn(rows) : e.cell = q
        BY <2>2 DEF BenchRows
      <3> QED BY <1>3, <3>1
    <2> QED BY <1>3, <2>1, <2>2
  <1>8. \A n \in 1..(N + M) : n \in 1..N \/ \E k \in 1..M : n = N + k
    <2>1. \A n \in 1..(N + M) : n \in 1..N \/ (n - N \in 1..M /\ n = N + (n - N))
      BY <1>1
    <2> QED BY <2>1
  <1>9. ASSUME NEW c \in D \ B
        PROVE  Reported(a, c)
    <2>1. \A k \in 1..M : more[k].cell # c
      <3>1. \A k \in 1..M : more[k] \in Occurring(more)
        BY <1>1 DEF Occurring
      <3>2. \A k \in 1..M : more[k].cell \in B
        BY <3>1 DEF Filled
      <3> QED BY <3>2
    <2>2. \A k \in 1..M : N + k \in 1..(N + M)
      BY <1>1
    <2>3. \A n \in 1..N : n \in 1..(N + M)
      BY <1>1
    <2>4. Places(a, c) = Places(rows, c)
      BY <1>1, <1>8, <2>1, <2>3 DEF Places
    <2>5. PICK m, n \in Places(rows, c) :
              /\ Places(rows, c) = {m, n} /\ m <= n
              /\ m < n => rows[m].is = "row" /\ rows[n].is = "error"
      BY DEF BenchRows, Reported
    <2>6. a[m] = rows[m] /\ a[n] = rows[n]
      BY <1>1 DEF Places
    <2> QED BY <2>4, <2>5, <2>6 DEF Reported
  <1>10. ASSUME NEW c \in B
         PROVE  Reported(a, c)
    <2>1. PICK k \in 1..M : more[k].cell = c
      BY <1>1 DEF Filled, Occurring
    <2>2. \A l \in 1..M : more[l].cell = c => l = k
      BY <1>1, <2>1
    <2>3. N + k \in 1..(N + M) /\ \A n \in 1..N : n \in 1..(N + M) /\ n < N + k
      BY <1>1
    <2>4. Places(a, c) = Places(rows, c) \cup {N + k}
      <3>1. \A n \in Places(a, c) : n \in Places(rows, c) \cup {N + k}
        <4> SUFFICES ASSUME NEW n \in 1..(N + M), a[n].cell = c, n \notin 1..N
                     PROVE  n = N + k
          BY <1>1 DEF Places
        <4>1. PICK l \in 1..M : n = N + l
          BY <1>8
        <4>2. more[l].cell = c
          BY <1>1, <4>1
        <4> QED BY <2>2, <4>1, <4>2
      <3>2. N + k \in Places(a, c)
        BY <1>1, <2>1, <2>3 DEF Places
      <3>3. \A n \in Places(rows, c) : n \in Places(a, c)
        BY <1>1, <2>3 DEF Places
      <3> QED BY <3>1, <3>2, <3>3
    <2>5. a[N + k].is = "error"
      BY <1>1 DEF Occurring
    <2>6. \A n \in Places(rows, c) : /\ n \in 1..N /\ a[n] = rows[n]
                                     /\ rows[n].is = "row" /\ n < N + k
      <3> SUFFICES ASSUME NEW n \in Places(rows, c)
                   PROVE  n \in 1..N /\ rows[n].is = "row"
        BY <1>1, <2>3
      <3>1. n \in 1..N /\ rows[n] \in Occurring(rows) /\ rows[n].cell = c
        BY <1>1 DEF Places, Occurring
      <3>2. rows[n].is \in {"row", "error"}
        BY <3>1 DEF BenchRows
      <3>3. Pair(c) = Pair(h)
        OBVIOUS
      <3>4. rows[n].is # "error"
        BY <1>4, <3>1, <3>3 DEF FailedIn
      <3> QED BY <3>1, <3>2, <3>4
    <2>7. CASE Places(rows, c) = {}
      <3>1. Places(a, c) = {N + k, N + k} /\ ~(N + k < N + k) /\ N + k <= N + k
        BY <1>1, <2>4, <2>7
      <3> QED BY <3>1 DEF Reported
    <2>8. CASE Places(rows, c) # {}
      <3>1. c \in D
        BY <2>8 DEF BenchRows, Places, Occurring
      <3>2. PICK m, n \in Places(rows, c) :
                /\ Places(rows, c) = {m, n} /\ m <= n
                /\ m < n => rows[m].is = "row" /\ rows[n].is = "error"
        BY <3>1 DEF BenchRows, Reported
      <3>3. ~(m < n) /\ m \in Nat /\ n \in Nat
        BY <1>1, <2>6, <3>2
      <3>4. m = n
        BY <3>2, <3>3
      <3>5. Places(a, c) = {m, N + k} /\ m \in Places(a, c) /\ N + k \in Places(a, c)
        BY <2>4, <3>2, <3>4
      <3>6. a[m].is = "row" /\ m < N + k /\ m <= N + k
        BY <1>1, <2>6, <3>3
      <3> QED BY <2>5, <3>5, <3>6 DEF Reported
    <2> QED BY <2>7, <2>8
  <1> QED BY <1>5, <1>6, <1>7, <1>9, <1>10 DEF BenchRows, a

\* One more row that ran, of a cell that is new.
LEMMA MeetOnce ==
    ASSUME NEW j, NEW D, NEW rows, IsList(rows), BenchRows(j, rows, D),
           NEW r, r.is = "row", r.cell \in Cells(j), r.cell \notin D,
           \A q \in RowsThatRan(rows) : Pair(q.cell) = Pair(r.cell) => q.said = r.said
    PROVE  BenchRows(j, Append(rows, r), D \cup {r.cell})
  <1> DEFINE a == Append(rows, r)
             N == Len(rows)
             c == r.cell
  <1>1. /\ N \in Nat /\ DOMAIN rows = 1..N /\ DOMAIN a = 1..(N + 1)
        /\ \A n \in 1..N : a[n] = rows[n]
        /\ a[N + 1] = r
        /\ Occurring(a) = Occurring(rows) \cup {r}
    BY ListFacts, ListAppend
  <1> HIDE DEF a, N
  <1>2. /\ RowsThatRan(a) = RowsThatRan(rows) \cup {r}
        /\ FailedIn(a) = FailedIn(rows)
    BY <1>1 DEF RowsThatRan, FailedIn
  <1>3. \A n \in 1..(N + 1) : n \in 1..N \/ n = N + 1
    BY <1>1
  <1>4. \A n \in 1..N : n \in 1..(N + 1)
    BY <1>1
  <1>5. \A x \in Occurring(a) : x.is \in {"row", "error"} /\ x.cell \in D \cup {c}
    BY <1>1 DEF BenchRows
  <1>6. SaidAlike(a)
    BY <1>2 DEF BenchRows, SaidAlike
  <1>7. ASSUME NEW d \in D
        PROVE  Reported(a, d)
    <2>1. Places(a, d) = Places(rows, d)
      BY <1>1, <1>3, <1>4 DEF Places
    <2>2. PICK m, n \in Places(rows, d) :
              /\ Places(rows, d) = {m, n} /\ m <= n
              /\ m < n => rows[m].is = "row" /\ rows[n].is = "error"
      BY DEF BenchRows, Reported
    <2>3. a[m] = rows[m] /\ a[n] = rows[n]
      BY <1>1 DEF Places
    <2> QED BY <2>1, <2>2, <2>3 DEF Reported
  <1>8. Reported(a, c)
    <2>1. \A n \in 1..N : rows[n].cell # c
      BY <1>1 DEF BenchRows, Occurring
    <2>2. N + 1 \in 1..(N + 1)
      BY <1>1
    <2>3. Places(a, c) = {N + 1}
      BY <1>1, <1>3, <2>1, <2>2 DEF Places
    <2>4. N + 1 <= N + 1 /\ ~(N + 1 < N + 1)
      BY <1>1
    <2> QED BY <2>3, <2>4 DEF Reported
  <1> QED BY <1>2, <1>5, <1>6, <1>7, <1>8 DEF BenchRows, a

Met(j, m) == Cells(j) \ From(j, m)

\* The benchmark stands at some place of its cells; the rows are those of the
\* cells before it, and where the pair at hand has rows they say what its
\* writer said.
StandsAt(m) ==
    /\ m \in 0..CellCount(job)
    /\ queue = Suffix(job, m)
    /\ BenchRows(job, results, Met(job, m))
    /\ queue # <<>> =>
           \A r \in RowsThatRan(results) : Pair(r.cell) = Pair(Head(queue)) =>
               writer # NoProposal /\ r.said = writer

BenchRuns ==
    phase = "running" /\ job.driver = "bench" =>
        done = {} /\ \E m \in 0..CellCount(job) : StandsAt(m)

Freezing == phase \in {"freezing", "stamping"} => job.driver = "generate"

BenchFiles ==
    \A o \in Outs :
        LET file == result[o] IN
        file.whole /\ file.job.driver = "bench" =>
            BenchRows(file.job, file.rows, Cells(file.job))

BenchInv == DriverInv /\ BenchRuns /\ Freezing /\ BenchFiles

\* Between two pairs, nothing has been met of the pairs to come.
LEMMA NextPairIsNew ==
    ASSUME NEW j \in Jobs, NEW m \in 0..(CellCount(j) - 1),
           NEW rows, BenchRows(j, rows, Met(j, m)),
           \A c \in From(j, m) : \A q \in Cells(j) : Pair(q) = Pair(c) => q \in From(j, m)
    PROVE  \A r \in RowsThatRan(rows) : Pair(r.cell) # Pair(BenchAt(j, m))
  <1>1. CellCount(j) \in Nat
    BY JobFacts
  <1>2. m \in m..(CellCount(j) - 1)
    BY <1>1
  <1>3. BenchAt(j, m) \in From(j, m)
    BY <1>2 DEF From
  <1> QED BY <1>3 DEF BenchRows, RowsThatRan, Met

LEMMA BenchMoves ==
    ASSUME DistinctPairs, DriverInv, BenchRuns, BenchNext
    PROVE  BenchRuns'
  <1> SUFFICES ASSUME phase' = "running", job'.driver = "bench"
               PROVE  done' = {} /\ \E m \in 0..CellCount(job') : StandsAt(m)'
    BY DEF BenchRuns
  <1>1. /\ job' = job /\ phase' = phase /\ done' = done
    BY DEF BenchNext, Generate, MeetCondition, PairRaises, LogPair, BenchRaises,
           poolVars, inProcess
  <1>2. done = {} /\ phase = "running" /\ job.driver = "bench" /\ job \in Jobs
    BY <1>1 DEF BenchRuns, DriverInv, Standing
  <1>3. PICK m \in 0..CellCount(job) : StandsAt(m)
    BY <1>2 DEF BenchRuns
  <1>4. NoRepeats(job.scenarios) /\ NoRepeats(job.conditions)
    BY <1>2 DEF DistinctPairs, DistinctCells
  <1>5. CellCount(job) \in Nat
    BY <1>2, JobFacts
  <1>6. IsList(results)
    BY DEF DriverInv, Standing
  <1>7. CASE Generate
    <2>1. /\ UNCHANGED <<job, queue, results>> /\ writer = NoProposal
      BY <1>7 DEF Generate, poolVars, inProcess
    <2>2. StandsAt(m)'
      BY <1>3, <2>1 DEF StandsAt
    <2> QED BY <1>1, <1>2, <2>2
  <1>8. CASE LogPair
    <2>1. UNCHANGED <<job, queue, results, writer>>
      BY <1>8 DEF LogPair
    <2>2. StandsAt(m)'
      BY <1>3, <2>1 DEF StandsAt
    <2> QED BY <1>1, <1>2, <2>2
  <1>9. CASE BenchRaises
    BY <1>1, <1>2, <1>9 DEF BenchRaises
  <1>10. ASSUME queue # <<>>
         PROVE  /\ m \in 0..(CellCount(job) - 1)
                /\ Head(queue) = BenchAt(job, m)
                /\ Tail(queue) = Suffix(job, m + 1)
    <2>1. m # CellCount(job)
      BY <1>2, <1>3, <1>10, SuffixFacts DEF StandsAt
    <2>2. m \in 0..(CellCount(job) - 1) /\ m < CellCount(job)
      BY <1>5, <2>1
    <2> QED BY <1>2, <1>3, <2>2, SuffixFacts DEF StandsAt
  <1> DEFINE e == PairEnd(job, m)
             h == BenchAt(job, m)
  <1>11. ASSUME queue # <<>>
         PROVE  OtherPairs = Suffix(job, e) /\ e \in (m + 1)..CellCount(job)
    <2>1. m \in 0..(CellCount(job) - 1) /\ queue = Suffix(job, m)
      BY <1>3, <1>10, <1>11 DEF StandsAt
    <2>2. Left = ((Len(Suffix(job, m)) - 1) % Conds(job)) + 1
      BY <2>1 DEF Left, Conds
    <2>3. OtherPairs = SubSeq(Suffix(job, m), Left + 1, Len(Suffix(job, m)))
      BY <2>1 DEF OtherPairs
    <2>4. e \in (m + 1)..CellCount(job)
      BY <1>2, <2>1, PairBlock
    <2> HIDE DEF e
    <2>5. SubSeq(Suffix(job, m), Left + 1, Len(Suffix(job, m)))
              = Suffix(job, PairEnd(job, m))
      BY <1>2, <2>1, <2>2, SuffixSkips
    <2> QED BY <2>3, <2>4, <2>5 DEF e
  <1>12. ASSUME queue # <<>>
         PROVE  /\ From(job, m) = From(job, m + 1) \cup {h} /\ h \notin From(job, m + 1)
                /\ From(job, e) = {c \in From(job, m) : Pair(c) # Pair(h)}
                /\ \A c \in From(job, e) : \A q \in Cells(job) :
                       Pair(q) = Pair(c) => q \in From(job, e)
                /\ {q \in Cells(job) : Pair(q) = Pair(h)}
                       = {Under(h, job.conditions[k]) : k \in DOMAIN job.conditions}
                /\ \A k, l \in DOMAIN job.conditions :
                       Under(h, job.conditions[k]) = Under(h, job.conditions[l]) => k = l
                /\ h \in Cells(job)
                /\ \A i \in (m + 1)..(e - 1) : i < CellCount(job)
                                               /\ Pair(BenchAt(job, i)) = Pair(h)
    <2>1. m \in 0..(CellCount(job) - 1)
      BY <1>10, <1>12
    <2> QED BY <1>2, <1>4, <2>1, Ahead
  <1> HIDE DEF e, h
  <1>13. CASE MeetCondition
    <2> DEFINE r == [cell |-> Head(queue), is |-> "row", said |-> writer,
                     saw |-> Head(queue)]
    <2>1. /\ queue # <<>> /\ writer # NoProposal
          /\ results' = Append(results, r) /\ queue' = Tail(queue)
          /\ writer' = IF queue' = OtherPairs THEN NoProposal ELSE writer
      BY <1>13 DEF MeetCondition, InPair, BenchRow
    <2>2. m \in 0..(CellCount(job) - 1) /\ r.cell = h /\ r.said = writer /\ r.is = "row"
      BY <1>10, <2>1 DEF h
    <2>3. m + 1 \in 0..CellCount(job) /\ queue' = Suffix(job, m + 1)
      BY <1>5, <1>10, <2>1, <2>2
    <2>4. h \in From(job, m) /\ h \in Cells(job) /\ h \notin Met(job, m)
      BY <1>12, <2>1 DEF Met
    <2>5. Met(job, m + 1) = Met(job, m) \cup {h}
      BY <1>12, <2>1, <2>4 DEF Met
    <2>6. BenchRows(job, results, Met(job, m))
      BY <1>3 DEF StandsAt
    <2>7. \A q \in RowsThatRan(results) : Pair(q.cell) = Pair(h) => q.said = writer
      BY <1>3, <1>10, <2>1 DEF StandsAt, h
    <2> HIDE DEF r
    <2>8. BenchRows(job, results', Met(job, m + 1))
      BY <1>6, <2>1, <2>2, <2>4, <2>5, <2>6, <2>7, MeetOnce
    <2>9. RowsThatRan(results') = RowsThatRan(results) \cup {r}
      BY <1>6, <2>1, <2>2, ListAppend DEF RowsThatRan
    <2>10. ASSUME queue' # <<>>
           PROVE  \A q \in RowsThatRan(results') : Pair(q.cell) = Pair(Head(queue')) =>
                      writer' # NoProposal /\ q.said = writer'
      <3>1. m + 1 # CellCount(job)
        BY <1>2, <2>3, <2>10, SuffixFacts
      <3>2. m + 1 \in 0..(CellCount(job) - 1) /\ m + 1 < CellCount(job)
        BY <1>5, <2>3, <3>1
      <3>3. Head(queue') = BenchAt(job, m + 1)
        BY <1>2, <2>3, <3>2, SuffixFacts
      <3>4. CASE m + 1 = e
        <4>1. \A c \in From(job, m + 1) : \A q \in Cells(job) :
                  Pair(q) = Pair(c) => q \in From(job, m + 1)
          BY <1>12, <2>1, <3>4
        <4>2. \A q \in RowsThatRan(results') : Pair(q.cell) # Pair(Head(queue'))
          BY <1>2, <2>8, <3>2, <3>3, <4>1, NextPairIsNew
        <4> QED BY <4>2
      <3>5. CASE m + 1 # e
        <4>1. e \in (m + 1)..CellCount(job) /\ e \in 0..CellCount(job)
          BY <1>5, <1>11, <2>1, <2>2
        <4>2. queue' # OtherPairs
          <5>1. Len(Suffix(job, m + 1)) = CellCount(job) - (m + 1)
            BY <1>2, <2>3, SuffixFacts
          <5>2. Len(Suffix(job, e)) = CellCount(job) - e
            BY <1>2, <4>1, SuffixFacts
          <5>3. CellCount(job) - (m + 1) # CellCount(job) - e
            BY <1>5, <2>2, <3>5, <4>1
          <5> QED BY <1>11, <2>1, <2>3, <5>1, <5>2, <5>3
        <4>3. m + 1 \in (m + 1)..(e - 1)
          BY <1>5, <2>2, <3>5, <4>1
        <4>4. Pair(Head(queue')) = Pair(h)
          BY <1>12, <2>1, <3>3, <4>3
        <4> QED BY <2>1, <2>2, <2>7, <2>9, <4>2, <4>4
      <3> QED BY <3>4, <3>5
    <2>11. StandsAt(m + 1)'
      BY <1>1, <2>3, <2>8, <2>10 DEF StandsAt
    <2> QED BY <1>1, <1>2, <2>3, <2>11
  <1>14. CASE PairRaises
    <2> DEFINE row(k) == ErrorRow(Under(h, job.conditions[k]))
               rows == [k \in 1..Len(job.conditions) |-> row(k)]
               B == {q \in Cells(job) : Pair(q) = Pair(h)}
    <2>1. /\ queue # <<>> /\ results' = results \o rows
          /\ queue' = OtherPairs /\ writer' = NoProposal
      BY <1>10, <1>14 DEF PairRaises, InPair, h
    <2>2. /\ Len(job.conditions) \in Nat
          /\ DOMAIN job.conditions = 1..Len(job.conditions)
      BY <1>2, JobFacts
    <2>3. DOMAIN rows = 1..Len(job.conditions)
      OBVIOUS
    <2>4. \A k \in 1..Len(job.conditions) :
              rows[k].is = "error" /\ rows[k].cell = Under(h, job.conditions[k])
      BY DEF ErrorRow
    <2>5. \A k \in 1..Len(job.conditions) : rows[k] \in Occurring(rows)
      BY <2>3 DEF Occurring
    <2>6. rows = [k \in 1..Len(job.conditions) |-> rows[k]]
      OBVIOUS
    <2> HIDE DEF rows
    <2>7. IsList(rows)
      <3>1. rows \in Seq(Occurring(rows))
        BY <2>2, <2>5, <2>6
      <3> QED BY <3>1 DEF IsList, Occurring
    <2>8. /\ \A r \in Occurring(rows) : r.is = "error"
          /\ Filled(Occurring(rows)) = B
          /\ \A i, k \in DOMAIN rows : rows[i].cell = rows[k].cell => i = k
      <3>1. \A r \in Occurring(rows) : r.is = "error"
        BY <2>3, <2>4 DEF Occurring
      <3>2. Filled(Occurring(rows)) =
                {Under(h, job.conditions[k]) : k \in DOMAIN job.conditions}
        <4>1. \A k \in 1..Len(job.conditions) :
                  Under(h, job.conditions[k]) \in Filled(Occurring(rows))
          BY <2>4, <2>5 DEF Filled
        <4>2. \A r \in Occurring(rows) : \E k \in 1..Len(job.conditions) :
                  r.cell = Under(h, job.conditions[k])
          BY <2>3, <2>4 DEF Occurring
        <4> QED BY <2>2, <4>1, <4>2 DEF Filled
      <3>3. \A i, k \in DOMAIN rows : rows[i].cell = rows[k].cell => i = k
        BY <1>12, <2>1, <2>2, <2>3, <2>4
      <3> QED BY <1>12, <2>1, <3>1, <3>2, <3>3
    <2>9. /\ h \in B /\ h \notin Met(job, m)
          /\ Met(job, e) = Met(job, m) \cup B
      <3>1. h \in From(job, m) /\ h \in Cells(job)
        BY <1>12, <2>1
      <3>2. From(job, e) = From(job, m) \ B \/ ~(From(job, m) \subseteq Cells(job))
        BY <1>12, <2>1
      <3>3. From(job, m) \subseteq Cells(job)
        <4>1. m..(CellCount(job) - 1) \subseteq 0..(CellCount(job) - 1)
          BY <1>5
        <4>2. Cells(job) = From(job, 0)
          BY <1>2, BenchMeetsAll
        <4> QED BY <4>1, <4>2 DEF From
      <3> QED BY <3>1, <3>2, <3>3 DEF Met
    <2>10. BenchRows(job, results, Met(job, m))
      BY <1>3 DEF StandsAt
    <2> HIDE DEF B
    <2>11. BenchRows(job, results', Met(job, e))
      BY <1>6, <2>1, <2>7, <2>8, <2>9, <2>10, PairFails DEF B
    <2>12. queue' = Suffix(job, e) /\ e \in 0..CellCount(job)
      <3>1. m \in Nat
        BY <1>5
      <3> QED BY <1>5, <1>11, <2>1, <3>1
    <2>13. ASSUME queue' # <<>>
           PROVE  \A q \in RowsThatRan(results') : Pair(q.cell) # Pair(Head(queue'))
      <3>1. e # CellCount(job)
        BY <1>2, <2>12, <2>13, SuffixFacts
      <3>2. e \in 0..(CellCount(job) - 1) /\ e < CellCount(job)
        BY <1>5, <2>12, <3>1
      <3>3. Head(queue') = BenchAt(job, e)
        BY <1>2, <2>12, <3>2, SuffixFacts
      <3>4. \A c \in From(job, e) : \A q \in Cells(job) :
                Pair(q) = Pair(c) => q \in From(job, e)
        BY <1>12, <2>1
      <3> QED BY <1>2, <2>11, <3>2, <3>3, <3>4, NextPairIsNew
    <2>14. PICK k \in 0..CellCount(job) : k = e
      BY <2>12
    <2>15. StandsAt(k)'
      BY <1>1, <2>11, <2>12, <2>13, <2>14 DEF StandsAt
    <2> QED BY <1>1, <1>2, <2>15
  <1> QED BY <1>7, <1>8, <1>9, <1>13, <1>14 DEF BenchNext

LEMMA BenchInit == CampaignInit => BenchInv
  <1> SUFFICES ASSUME CampaignInit
               PROVE  BenchInv
    OBVIOUS
  <1>1. phase = "idle" /\ \A o \in Outs : ~result[o].whole
    BY DEF CampaignInit, NoFile
  <1> QED BY <1>1, DriverInit DEF BenchInv, BenchRuns, Freezing, BenchFiles

\* A driver that ends, whatever happens to its result file.
LEMMA BenchStops ==
    ASSUME BenchInv, DriverInv', Stop,
           \/ result' = result
           \/ result' = [result EXCEPT ![job.out] = NoFile]
           \/ /\ phase # "running" \/ AllCollected
              /\ phase \in {"running", "stamping"}
              /\ \E stamp \in BOOLEAN :
                     result' = [result EXCEPT ![job.out] = ResultFile(stamp)]
    PROVE  BenchInv'
  <1> USE DEF BenchInv
  <1>1. phase' = "idle"
    BY DEF Stop, Process
  <1>2. DOMAIN result = Outs
    BY DEF DriverInv, Standing
  <1>3. CASE result' = result
    BY <1>1, <1>3 DEF BenchRuns, Freezing, BenchFiles
  <1>4. CASE result' = [result EXCEPT ![job.out] = NoFile]
    <2>1. \A o \in Outs : result'[o].whole => result'[o] = result[o]
      BY <1>2, <1>4 DEF NoFile
    <2> QED BY <1>1, <2>1 DEF BenchRuns, Freezing, BenchFiles
  <1>5. ASSUME phase # "running" \/ AllCollected, phase \in {"running", "stamping"},
               NEW stamp \in BOOLEAN,
               result' = [result EXCEPT ![job.out] = ResultFile(stamp)]
        PROVE  BenchInv'
    <2>1. /\ \A o \in Outs : result'[o] = result[o]
                             \/ result'[o] = ResultFile(stamp)
      BY <1>2, <1>5
    <2>2. ASSUME job.driver = "bench"
          PROVE  BenchRows(job, results, Cells(job))
      <3>1. phase = "running" /\ queue = <<>> /\ job \in Jobs
        BY <1>5, <2>2 DEF Freezing, AllCollected, WorkersIdle, DriverInv, Standing
      <3>2. PICK m \in 0..CellCount(job) : StandsAt(m)
        BY <2>2, <3>1 DEF BenchRuns
      <3>3. From(job, m) = {}
        <4>1. Occurring(Suffix(job, m)) = From(job, m)
          BY <3>1, <3>2, SuffixFacts
        <4> QED BY <3>1, <3>2, <4>1, EmptyList DEF StandsAt
      <3>4. Met(job, m) = Cells(job)
        BY <3>3 DEF Met
      <3> QED BY <3>2, <3>4 DEF StandsAt
    <2>3. BenchFiles'
      BY <2>1, <2>2 DEF BenchFiles, ResultFile
    <2> QED BY <1>1, <2>3 DEF BenchRuns, Freezing
  <1> QED BY <1>3, <1>4, <1>5

LEMMA BenchStarts ==
    ASSUME DistinctPairs, BenchInv, DriverInv', StartDriver
    PROVE  BenchInv'
  <1> USE DEF BenchInv
  <1> DEFINE j == Head(script).job
  <1>1. result' = result /\ job' = j /\ j \in Jobs
    <2>1. script \in Seq(Steps) /\ script # <<>> /\ Head(script).do = "drive"
      BY DEF StartDriver, AtStep, DriverInv, Standing
    <2>2. j \in Jobs
      BY <2>1, StepFacts
    <2> QED BY <2>2 DEF StartDriver, disk
  <1>2. BenchFiles'
    BY <1>1 DEF BenchFiles
  <1> HIDE DEF j
  <1>3. CASE CannotStart(j)
    <2>1. phase' = "idle"
      BY <1>3 DEF StartDriver, AtStep, inProcess, j
    <2> QED BY <1>2, <2>1 DEF BenchRuns, Freezing
  <1>4. CASE ~CannotStart(j)
    <2>1. /\ phase' = "running" /\ done' = {} /\ results' = <<>>
          /\ j.driver = "bench" => queue' = BenchQueue(j)
      BY <1>4 DEF StartDriver, Process, j
    <2>2. ASSUME j.driver = "bench"
          PROVE  0 \in 0..CellCount(j) /\ StandsAt(0)'
      <3>1. CellCount(j) \in Nat
        BY <1>1, JobFacts
      <3>2. BenchQueue(j) = Suffix(j, 0)
        BY <3>1 DEF BenchQueue, Suffix
      <3>3. Met(j, 0) = {}
        BY <1>1, BenchMeetsAll DEF Met
      <3>4. RowsThatRan(results') = {} /\ FailedIn(results') = {}
            /\ Occurring(results') = {}
        BY <2>1, EmptyList DEF RowsThatRan, FailedIn
      <3>5. BenchRows(j, results', Met(j, 0))
        BY <3>3, <3>4 DEF BenchRows, SaidAlike
      <3> QED BY <1>1, <2>1, <2>2, <3>1, <3>2, <3>4, <3>5 DEF StandsAt
    <2>3. BenchRuns'
      BY <1>1, <2>1, <2>2 DEF BenchRuns
    <2> QED BY <1>2, <2>1, <2>3 DEF Freezing
  <1> QED BY <1>3, <1>4

LEMMA BenchWorks ==
    ASSUME DistinctPairs, BenchInv, DriverInv', Work
    PROVE  BenchInv'
  <1> USE DEF BenchInv
  <1>1. job' = job /\ result' = result /\ (phase' = phase \/ phase' = "leaving")
    BY DEF Work, PoolNext, TakesCell, SeedCell, SeedRaises, FinishCell, CellRaises,
           LogError, Collect, CollectRaised, BenchNext, Generate, MeetCondition, PairRaises, LogPair,
           BenchRaises, poolVars, inProcess, disk, shell
  <1>2. BenchFiles' /\ Freezing'
    BY <1>1 DEF BenchFiles, Freezing
  <1>3. CASE BenchNext
    BY <1>2, <1>3, BenchMoves
  <1>4. CASE PoolNext /\ UNCHANGED writer
    <2> SUFFICES ASSUME phase' = "running", job'.driver = "bench"
                 PROVE  FALSE
      BY <1>2 DEF BenchRuns
    <2>1. phase = "running" /\ job.driver = "bench"
      BY <1>1
    <2>2. running = {} /\ done = {}
      BY <2>1 DEF BenchRuns, DriverInv, Seeds
    <2> QED BY <1>4, <2>1, <2>2 DEF PoolNext, TakesCell, SeedCell, SeedRaises,
              LogError, Collect, CollectRaised
  <1> QED BY <1>3, <1>4 DEF Work

LEMMA BenchStep ==
    ASSUME DistinctPairs
    PROVE  BenchInv /\ [CampaignNext]_campaignVars => BenchInv'
  <1> SUFFICES ASSUME BenchInv, [CampaignNext]_campaignVars
               PROVE  BenchInv'
    OBVIOUS
  <1>1. DriverInv'
    BY DriverStep DEF BenchInv
  <1>2. ASSUME UNCHANGED <<benchVars, result>>
        PROVE  BenchInv'
    <2>1. /\ UNCHANGED <<job, phase, queue, done, results, writer, result>>
      BY <1>2 DEF benchVars, poolVars, inProcess
    <2>2. BenchRuns'
      BY <2>1 DEF BenchInv, BenchRuns, StandsAt
    <2> QED BY <1>1, <2>1, <2>2 DEF BenchInv, Freezing, BenchFiles
  <1>3. CASE StartScript
    BY <1>2, <1>3 DEF StartScript, disk
  <1>4. CASE StartDriver
    BY <1>1, <1>4, BenchStarts
  <1>5. CASE UnknownCondition \/ Leave
    <2>1. Stop /\ result' = result
      BY <1>5 DEF UnknownCondition, Leave, disk
    <2> QED BY <1>1, <2>1, BenchStops
  <1>6. CASE Work
    BY <1>1, <1>6, BenchWorks
  <1>7. CASE WriteResult
    <2>1. /\ AllCollected /\ phase = "running"
          /\ result' = [result EXCEPT ![job.out] = ResultFile(FALSE)]
      BY <1>7 DEF WriteResult, AllCollected
    <2>2. CASE job.driver # "generate"
      <3>1. Stop
        BY <1>7, <2>2 DEF WriteResult
      <3> QED BY <1>1, <2>1, <3>1, BenchStops
    <2>3. CASE job.driver = "generate"
      <3>1. phase' = "freezing" /\ job' = job
        BY <1>7, <2>3 DEF WriteResult
      <3>2. DOMAIN result = Outs
        BY DEF BenchInv, DriverInv, Standing
      <3>3. \A o \in Outs : result'[o] = result[o] \/ result'[o] = ResultFile(FALSE)
        BY <2>1, <3>2
      <3>4. BenchFiles'
        BY <2>3, <3>3 DEF BenchInv, BenchFiles, ResultFile
      <3> QED BY <1>1, <2>3, <3>1, <3>4 DEF BenchInv, BenchRuns, Freezing
    <2> QED BY <2>2, <2>3
  <1>8. CASE Freeze
    <2>1. phase = "freezing" /\ phase' = "stamping" /\ UNCHANGED <<job, result>>
      BY <1>8 DEF Freeze
    <2> QED BY <1>1, <2>1 DEF BenchInv, BenchRuns, Freezing, BenchFiles
  <1>9. CASE Stamp
    <2>1. /\ phase = "stamping" /\ Stop
          /\ result' = [result EXCEPT ![job.out] = ResultFile(TRUE)]
      BY <1>9 DEF Stamp
    <2> QED BY <1>1, <2>1, BenchStops
  <1>10. CASE Analyze \/ Tabulate
    BY <1>2, <1>10 DEF Analyze, Tabulate
  <1>11. CASE Kill
    <2>1. Stop
      BY <1>11 DEF Kill
    <2>2. result' = result \/ result' = [result EXCEPT ![job.out] = NoFile]
      BY <1>11 DEF Kill, disk
    <2> QED BY <1>1, <2>1, <2>2, BenchStops
  <1>12. CASE UNCHANGED campaignVars
    BY <1>2, <1>12 DEF campaignVars, shell, disk
  <1> QED BY <1>3, <1>4, <1>5, <1>6, <1>7, <1>8, <1>9, <1>10, <1>11, <1>12
            DEF CampaignNext, Progress

\* A benchmark that is not given a scenario or a condition twice reports every
\* pair under every condition once, or by its row and then an error row where
\* the pair raised later; one error row means that every condition of its pair
\* has one (run_llm_obligation_benchmark.py:402-421).
THEOREM PairsHaveTheirRows ==
    ASSUME DistinctPairs
    PROVE  CampaignSpec => []PairsAreReported
  <1>1. CampaignInit => BenchInv
    BY BenchInit
  <1>2. BenchInv /\ [CampaignNext]_campaignVars => BenchInv'
    BY BenchStep
  <1>3. BenchInv => PairsAreReported
    <2> SUFFICES ASSUME BenchInv, NEW o \in Outs, result[o].whole,
                        result[o].job.driver = "bench",
                        NEW c \in Cells(result[o].job)
                 PROVE  LET rows == result[o].rows
                            of == {n \in DOMAIN rows : rows[n].cell = c}
                        IN  /\ \E m, n \in of :
                                  /\ of = {m, n} /\ m <= n
                                  /\ m < n => rows[m].is = "row" /\ rows[n].is = "error"
                            /\ (\E n \in of : rows[n].is = "error") =>
                                   \A q \in Cells(result[o].job) : Pair(q) = Pair(c) =>
                                       \E r \in FailedIn(rows) : r.cell = q
      BY DEF PairsAreReported
    <2> DEFINE rows == result[o].rows
    <2>1. BenchRows(result[o].job, rows, Cells(result[o].job))
      BY DEF BenchInv, BenchFiles
    <2>2. Reported(rows, c)
      BY <2>1 DEF BenchRows
    <2>3. ASSUME NEW n \in DOMAIN rows, rows[n].cell = c, rows[n].is = "error",
                 NEW q \in Cells(result[o].job), Pair(q) = Pair(c)
          PROVE  \E r \in FailedIn(rows) : r.cell = q
      <3>1. rows[n] \in FailedIn(rows)
        BY <2>3 DEF FailedIn, Occurring
      <3> QED BY <2>1, <2>3, <3>1 DEF BenchRows
    <2> QED BY <2>2, <2>3 DEF Reported, Places
  <1> QED BY <1>1, <1>2, <1>3, PTL DEF CampaignSpec

-----------------------------------------------------------------------------
(* The bundle, and the rows of a replay. *)

\* The rows that ran say what the index has for their agents.
Recorded(rows, index) ==
    \A r \in rows : r.is = "row" =>
        /\ \A a \in Agents : RecordKey(r.cell, a) \in DOMAIN index
        /\ r.said = [a \in Agents |-> index[RecordKey(r.cell, a)]]

Answered(rows) == \A r \in rows : r.is = "row" => r.said \in Calls(r.cell)

\* A file is there or not, and no younger than the last driver.
Aged ==
    /\ drives \in Nat
    /\ phase # "idle" => drives > 0
    /\ \A o \in Outs : result[o] # NoFile =>
           /\ result[o].whole /\ result[o].drive \in 1..drives
           /\ result[o].job \in Jobs /\ result[o].job.out = o
    /\ bundle.whole => bundle.drive \in 1..drives /\ "generation" \in Outs
    /\ phase \in {"running", "leaving"} /\ bundle.whole => bundle.drive < drives

\* A generation writes its rows, freezes them and names the bundle.
Stamped ==
    /\ \A o \in Outs : result[o].stamped =>
           o = "generation" /\ bundle.whole /\ bundle.drive = result[o].drive
    /\ phase \in {"freezing", "stamping"} => result[job.out] = ResultFile(FALSE)
    /\ phase = "stamping" =>
           /\ bundle.whole /\ bundle.drive = drives
           /\ bundle.outputs = Outputs(results)

BundleIsOfFile ==
    bundle.whole /\ result["generation"].drive = bundle.drive =>
        bundle.outputs = Outputs(result["generation"].rows)

\* A replay has the bundle in memory; its rows and its file are of it, until
\* another bundle is made.
Replayed ==
    /\ phase \in {"running", "leaving"} /\ job.driver = "replay" =>
           /\ bundle.whole /\ frozen = bundle.outputs
           /\ Recorded(done \cup Occurring(results), frozen)
    /\ \A o \in Outs :
           LET file == result[o] IN
           file.whole /\ file.job.driver = "replay" =>
               /\ SaidAlike(file.rows)
               /\ bundle.whole /\ bundle.drive < file.drive =>
                      Recorded(Occurring(file.rows), bundle.outputs)

Generated ==
    /\ phase # "idle" /\ job.driver = "generate" =>
           Answered(done \cup Occurring(results))
    /\ \A o \in Outs : result[o].whole /\ result[o].job.driver = "generate" =>
           Answered(Occurring(result[o].rows))

ReplayInv ==
    BenchInv /\ Aged /\ Stamped /\ BundleIsOfFile /\ Replayed /\ Generated

LEMMA ReplayInit == CampaignInit => ReplayInv
  <1> SUFFICES ASSUME CampaignInit
               PROVE  ReplayInv
    OBVIOUS
  <1>1. /\ phase = "idle" /\ drives = 0 /\ ~bundle.whole
        /\ \A o \in Outs : result[o] = NoFile
    BY DEF CampaignInit, NoBundle
  <1>2. ~NoFile.whole /\ ~NoFile.stamped
    BY DEF NoFile
  <1> QED BY <1>1, <1>2, BenchInit DEF ReplayInv, Aged, Stamped, BundleIsOfFile,
            Replayed, Generated

\* The process ends or is killed with nothing written, or with a file cut.
LEMMA ReplayLoses ==
    ASSUME OneGeneration, ReplayInv, BenchInv', Stop, UNCHANGED drives,
           \/ UNCHANGED <<result, bundle>>
           \/ result' = [result EXCEPT ![job.out] = NoFile] /\ bundle' = bundle
           \/ phase = "freezing" /\ bundle' = NoBundle /\ result' = result
    PROVE  ReplayInv'
  <1> USE DEF ReplayInv
  <1>1. phase' = "idle"
    BY DEF Stop, Process
  <1>2. DOMAIN result = Outs /\ (phase # "idle" => job \in Jobs)
    BY DEF BenchInv, DriverInv, Standing
  <1>3. ~NoFile.whole /\ ~NoFile.stamped /\ NoFile.drive = 0
    BY DEF NoFile
  <1>4. CASE UNCHANGED <<result, bundle>>
    BY <1>1, <1>4 DEF Aged, Stamped, BundleIsOfFile, Replayed, Generated
  <1>5. CASE result' = [result EXCEPT ![job.out] = NoFile] /\ bundle' = bundle
    <2>1. \A o \in Outs : result'[o] = result[o] \/ result'[o] = NoFile
      BY <1>2, <1>5
    <2>2. Aged'
      BY <1>1, <1>3, <1>5, <2>1 DEF Aged
    <2>3. Stamped' /\ Replayed' /\ Generated'
      BY <1>1, <1>3, <1>5, <2>1 DEF Stamped, Replayed, Generated
    <2>4. BundleIsOfFile'
      <3>1. result'["generation"] = result["generation"]
            \/ result'["generation"] = NoFile
        BY <1>2, <1>5
      <3>2. bundle.whole => bundle.drive # 0
        BY DEF Aged
      <3> QED BY <1>3, <1>5, <3>1, <3>2 DEF BundleIsOfFile
    <2> QED BY <2>2, <2>3, <2>4
  <1>6. CASE phase = "freezing" /\ bundle' = NoBundle /\ result' = result
    <2>1. ~bundle'.whole
      BY <1>6 DEF NoBundle
    <2>2. /\ result[job.out] = ResultFile(FALSE)
          /\ job.out = "generation"
      BY <1>2, <1>6 DEF Stamped, BenchInv, Freezing, OneGeneration
    <2>3. \A o \in Outs : ~result'[o].stamped
      BY <1>6, <2>2 DEF Stamped, ResultFile
    <2> QED BY <1>1, <1>6, <2>1, <2>3 DEF Aged, Stamped, BundleIsOfFile, Replayed, Generated
  <1> QED BY <1>4, <1>5, <1>6

LEMMA ReplayStarts ==
    ASSUME ReplayInv, BenchInv', StartDriver
    PROVE  ReplayInv'
  <1> USE DEF ReplayInv
  <1> DEFINE j == Head(script).job
  <1>1. /\ result' = result /\ bundle' = bundle /\ drives' = drives + 1
        /\ job' = j /\ phase = "idle"
    BY DEF StartDriver, AtStep, disk
  <1>2. drives \in Nat /\ \A n \in 1..drives : n \in 1..(drives + 1) /\ n < drives + 1
    BY DEF Aged
  <1> HIDE DEF j
  <1>3. Aged'
    <2>1. drives' \in Nat /\ drives' > 0
      BY <1>1, <1>2
    <2> QED BY <1>1, <1>2, <2>1 DEF Aged
  <1>4. BundleIsOfFile'
    BY <1>1 DEF BundleIsOfFile
  <1>5. CASE CannotStart(j)
    <2>1. phase' = "idle"
      BY <1>1, <1>5 DEF StartDriver, inProcess, j
    <2> QED BY <1>1, <1>3, <1>4, <2>1 DEF Stamped, Replayed, Generated
  <1>6. CASE ~CannotStart(j)
    <2>1. /\ phase' = "running" /\ done' = {} /\ results' = <<>>
          /\ j.driver = "replay" => frozen' = bundle.outputs
      BY <1>6 DEF StartDriver, Process, j
    <2>2. j.driver = "replay" => bundle.whole
      BY <1>6 DEF CannotStart
    <2>3. done' \cup Occurring(results') = {}
      BY <2>1, EmptyList
    <2>4. Recorded({}, frozen') /\ Answered({})
      BY DEF Recorded, Answered
    <2>5. Stamped'
      BY <1>1, <2>1 DEF Stamped
    <2>6. Replayed' /\ Generated'
      BY <1>1, <2>1, <2>2, <2>3, <2>4 DEF Replayed, Generated
    <2> QED BY <1>3, <1>4, <2>5, <2>6
  <1> QED BY <1>5, <1>6

\* The rows at hand keep saying what they may say.
LEMMA RowsSay ==
    ASSUME DriverInv, Work
    PROVE  \A r \in done' \cup Occurring(results') :
               \/ r \in done \cup Occurring(results)
               \/ (r.is = "row" /\ job.driver # "bench") => r.said \in Replies(r.cell)
               \/ job.driver = "bench"
  <1>1. IsList(results)
    BY DEF DriverInv, Standing
  <1>2. CASE BenchNext
    BY <1>2 DEF BenchNext, Generate, MeetCondition, PairRaises, LogPair, BenchRaises,
       InPair, poolVars, inProcess
  <1>3. CASE PoolNext
    <2>1. CASE SeedCell
      BY <2>1 DEF SeedCell
    <2>2. ASSUME NEW c \in running, FinishCell(c)
          PROVE  \A r \in done' \cup Occurring(results') :
                     \/ r \in done \cup Occurring(results)
                     \/ r.is = "row" => r.said \in Replies(r.cell)
      <3>1. PICK said \in Replies(c) : done' = done \cup {Row(c, said)}
        BY <2>2 DEF FinishCell
      <3>2. results' = results
        BY <2>2 DEF FinishCell
      <3>3. Row(c, said).said = said /\ Row(c, said).cell = c
        BY DEF Row
      <3> QED BY <3>1, <3>2, <3>3
    <2>3. ASSUME NEW c \in running, CellRaises(c)
          PROVE  \A r \in done' \cup Occurring(results') :
                     r \in done \cup Occurring(results) \/ r.is # "row"
      <3>1. /\ results' = results
            /\ done' \subseteq done \cup {Exception(c), ErrorRow(c)}
        BY <2>3 DEF CellRaises
      <3>2. Exception(c).is = "exception" /\ ErrorRow(c).is = "error"
        BY DEF Exception, ErrorRow
      <3> QED BY <3>1, <3>2
    <2>4. ASSUME NEW c \in raised, LogError(c)
          PROVE  \A r \in done' \cup Occurring(results') :
                     r \in done \cup Occurring(results) \/ r.is # "row"
      <3>1. results' = results /\ done' = done \cup {ErrorRow(c)}
        BY <2>4 DEF LogError
      <3>2. ErrorRow(c).is = "error"
        BY DEF ErrorRow
      <3> QED BY <3>1, <3>2
    <2>5. CASE Collect
      <3>1. PICK r \in done : done' = done \ {r} /\ results' = Append(results, r)
        BY <2>5 DEF Collect
      <3>2. Occurring(results') = Occurring(results) \cup {r}
        BY <1>1, <3>1, ListAppend
      <3> QED BY <3>1, <3>2
    <2>6. CASE CollectRaised
      BY <2>6 DEF CollectRaised
    <2>7. CASE SeedRaises
      <3>1. results' = results /\ done' = done \cup {Exception(Head(queue))}
        BY <2>7 DEF SeedRaises
      <3>2. Exception(Head(queue)).is = "exception"
        BY DEF Exception
      <3> QED BY <3>1, <3>2
    <2> QED BY <1>3, <2>1, <2>2, <2>3, <2>4, <2>5, <2>6, <2>7 DEF PoolNext
  <1> QED BY <1>2, <1>3 DEF Work

LEMMA ReplayWorks ==
    ASSUME ReplayInv, BenchInv', Work
    PROVE  ReplayInv'
  <1> USE DEF ReplayInv
  <1>1. /\ UNCHANGED <<job, frozen, result, bundle, drives>>
        /\ phase' = phase \/ (phase = "running" /\ phase' = "leaving")
    <2>1. UNCHANGED <<result, bundle, drives>>
      BY DEF Work, disk, shell
    <2>2. CASE PoolNext
      BY <2>1, <2>2 DEF PoolNext, TakesCell, SeedCell, SeedRaises, FinishCell,
         CellRaises, LogError, Collect, CollectRaised
    <2>3. CASE BenchNext
      BY <2>1, <2>3 DEF BenchNext, Generate, MeetCondition, PairRaises, LogPair,
         BenchRaises, InPair, poolVars, inProcess
    <2> QED BY <2>2, <2>3 DEF Work
  <1>2. phase \in {"freezing", "stamping"} => results' = results
    <2> SUFFICES ASSUME phase \in {"freezing", "stamping"}
                 PROVE  results' = results
      OBVIOUS
    <2>1. phase # "running"
      OBVIOUS
    <2> QED BY <2>1 DEF Work, PoolNext, TakesCell, SeedCell, SeedRaises, FinishCell,
              CellRaises, LogError, Collect, CollectRaised, BenchNext, Generate, MeetCondition, PairRaises,
              LogPair, BenchRaises, InPair, poolVars, inProcess
  <1>3. \A r \in done' \cup Occurring(results') :
            \/ r \in done \cup Occurring(results)
            \/ (r.is = "row" /\ job.driver # "bench") => r.said \in Replies(r.cell)
            \/ job.driver = "bench"
    BY RowsSay DEF BenchInv
  <1>4. phase # "idle" \/ phase' = phase
    BY <1>1
  <1>5. Aged'
    BY <1>1 DEF Aged
  <1>6. Stamped'
    BY <1>1, <1>2 DEF Stamped, ResultFile
  <1>7. BundleIsOfFile'
    BY <1>1 DEF BundleIsOfFile
  <1>8. Replayed'
    <2>1. ASSUME phase \in {"running", "leaving"}, job.driver = "replay"
          PROVE  Recorded(done' \cup Occurring(results'), frozen)
      <3> SUFFICES ASSUME NEW r \in done' \cup Occurring(results'), r.is = "row"
                   PROVE  /\ \A a \in Agents : RecordKey(r.cell, a) \in DOMAIN frozen
                          /\ r.said = [a \in Agents |-> frozen[RecordKey(r.cell, a)]]
        BY DEF Recorded
      <3>1. CASE r \in done \cup Occurring(results)
        BY <2>1, <3>1 DEF Replayed, Recorded
      <3>2. CASE r.said \in Replies(r.cell)
        BY <2>1, <3>2 DEF Replies
      <3> QED BY <1>3, <2>1, <3>1, <3>2
    <2> QED BY <1>1, <2>1 DEF Replayed
  <1>9. Generated'
    <2>1. ASSUME phase # "idle", job.driver = "generate"
          PROVE  Answered(done' \cup Occurring(results'))
      <3> SUFFICES ASSUME NEW r \in done' \cup Occurring(results'), r.is = "row"
                   PROVE  r.said \in Calls(r.cell)
        BY DEF Answered
      <3>1. CASE r \in done \cup Occurring(results)
        BY <2>1, <3>1 DEF Generated, Answered
      <3>2. CASE r.said \in Replies(r.cell)
        BY <2>1, <3>2 DEF Replies
      <3> QED BY <1>3, <2>1, <3>1, <3>2
    <2> QED BY <1>1, <2>1 DEF Generated
  <1> QED BY <1>5, <1>6, <1>7, <1>8, <1>9

\* The file of a driver that is done; a generation's bundle is made of its
\* rows, so the name in the file is right.
LEMMA ReplayWrites ==
    ASSUME OneGeneration, ReplayInv, BenchInv', UNCHANGED <<bundle, drives>>,
           NEW stamp \in BOOLEAN,
           result' = [result EXCEPT ![job.out] = ResultFile(stamp)],
           IF stamp
           THEN phase = "stamping" /\ Stop
           ELSE /\ phase = "running" /\ done = {}
                /\ \/ job.driver # "generate" /\ Stop
                   \/ /\ job.driver = "generate" /\ phase' = "freezing"
                      /\ UNCHANGED <<job, results, done>>
    PROVE  ReplayInv'
  <1> USE DEF ReplayInv
  <1> DEFINE file == ResultFile(stamp)
  <1>1. /\ job' = job
        /\ phase' = "idle" \/ (phase' = "freezing" /\ results' = results /\ done' = done)
        /\ phase' = "freezing" => ~stamp
    BY DEF Stop, Process
  <1>2. job \in Jobs /\ job.out \in Outs /\ DOMAIN result = Outs
    BY JobFacts DEF BenchInv, DriverInv, Standing
  <1>3. /\ result'[job.out] = file
        /\ \A o \in Outs : o # job.out => result'[o] = result[o]
    BY <1>2
  <1>4. /\ file.whole /\ file.drive = drives /\ file.job = job
        /\ file.rows = results /\ file.stamped = stamp
    BY DEF ResultFile
  <1>5. drives \in 1..drives
    BY <1>1 DEF Aged
  <1>6. stamp => /\ job.driver = "generate"
                 /\ bundle.whole /\ bundle.drive = drives
                 /\ bundle.outputs = Outputs(results)
    BY DEF Stamped, BenchInv, Freezing
  <1>7. ~stamp /\ bundle.whole => bundle.drive < drives /\ bundle.drive # drives
    BY DEF Aged
  <1>8. job.driver = "generate" <=> job.out = "generation"
    BY <1>2 DEF OneGeneration
  <1>9. ~NoFile.stamped /\ ~NoFile.whole
    BY DEF NoFile
  <1> HIDE DEF file
  <1>10. Aged'
    <2>1. \A o \in Outs : result'[o] # NoFile =>
              /\ result'[o].whole /\ result'[o].drive \in 1..drives
              /\ result'[o].job \in Jobs /\ result'[o].job.out = o
      BY <1>2, <1>3, <1>4, <1>5 DEF Aged
    <2> QED BY <1>1, <2>1 DEF Aged
  <1>11. Stamped'
    <2>1. ASSUME NEW o \in Outs, result'[o].stamped
          PROVE  o = "generation" /\ bundle.whole /\ bundle.drive = result'[o].drive
      BY <1>3, <1>4, <1>6, <1>8, <2>1 DEF Stamped
    <2>2. phase' = "freezing" => result'[job.out] = ResultFile(FALSE)'
      BY <1>1, <1>3, <1>4 DEF ResultFile, file
    <2> QED BY <1>1, <2>1, <2>2 DEF Stamped
  <1>12. BundleIsOfFile'
    <2>1. CASE job.out = "generation"
      BY <1>3, <1>4, <1>6, <1>7, <2>1 DEF BundleIsOfFile
    <2>2. CASE job.out # "generation"
      <3>1. result'["generation"] = result["generation"]
        BY <2>2
      <3> QED BY <3>1 DEF BundleIsOfFile
    <2> QED BY <2>1, <2>2
  <1>13. Replayed'
    <2>1. ASSUME job.driver = "replay"
          PROVE  /\ SaidAlike(results)
                 /\ Recorded(Occurring(results), bundle.outputs)
      <3>1. phase = "running"
        BY <1>6, <2>1
      <3>2. Recorded(Occurring(results), bundle.outputs)
        BY <2>1, <3>1 DEF Replayed, Recorded
      <3>3. ASSUME NEW r \in RowsThatRan(results), NEW q \in RowsThatRan(results),
                   Pair(r.cell) = Pair(q.cell)
            PROVE  r.said = q.said
        <4>1. r.cell.scenario = q.cell.scenario /\ r.cell.rep = q.cell.rep
          BY <3>3 DEF Pair
        <4>2. \A a \in Agents : RecordKey(r.cell, a) = RecordKey(q.cell, a)
          BY <4>1 DEF RecordKey
        <4>3. /\ r.said = [a \in Agents |-> bundle.outputs[RecordKey(r.cell, a)]]
              /\ q.said = [a \in Agents |-> bundle.outputs[RecordKey(q.cell, a)]]
          BY <3>2 DEF Recorded, RowsThatRan
        <4> QED BY <4>2, <4>3
      <3> QED BY <3>2, <3>3 DEF SaidAlike
    <2>2. ASSUME NEW o \in Outs, result'[o].whole, result'[o].job.driver = "replay"
          PROVE  /\ SaidAlike(result'[o].rows)
                 /\ bundle.whole /\ bundle.drive < result'[o].drive =>
                        Recorded(Occurring(result'[o].rows), bundle.outputs)
      BY <1>3, <1>4, <2>1, <2>2 DEF Replayed
    <2> QED BY <1>1, <2>2 DEF Replayed
  <1>14. Generated'
    <2>1. job.driver = "generate" => Answered(done \cup Occurring(results))
      <3>1. phase # "idle"
        OBVIOUS
      <3> QED BY <3>1 DEF Generated
    <2>2. job.driver = "generate" => Answered(Occurring(results))
      BY <2>1 DEF Answered
    <2>3. \A o \in Outs : result'[o].whole /\ result'[o].job.driver = "generate" =>
              Answered(Occurring(result'[o].rows))
      BY <1>3, <1>4, <2>2 DEF Generated
    <2> QED BY <1>1, <2>1, <2>3 DEF Generated
  <1> QED BY <1>10, <1>11, <1>12, <1>13, <1>14

LEMMA ReplayFreezes ==
    ASSUME OneGeneration, ReplayInv, BenchInv', Freeze
    PROVE  ReplayInv'
  <1> USE DEF ReplayInv
  <1>1. /\ phase = "freezing" /\ phase' = "stamping"
        /\ bundle' = [whole |-> TRUE, drive |-> drives, outputs |-> Outputs(results)]
        /\ UNCHANGED <<job, done, results, result, drives>>
    BY DEF Freeze, shell
  <1>2. bundle'.whole /\ bundle'.drive = drives /\ bundle'.outputs = Outputs(results)
    BY <1>1
  <1>3. /\ result[job.out] = ResultFile(FALSE) /\ job.out = "generation"
        /\ job \in Jobs /\ job.out \in Outs
    BY <1>1, JobFacts
       DEF Stamped, BenchInv, DriverInv, Standing, Freezing, OneGeneration
  <1>4. Aged'
    BY <1>1, <1>2, <1>3 DEF Aged
  <1>5. \A o \in Outs : ~result[o].stamped
    BY <1>3 DEF Stamped, ResultFile
  <1>6. Stamped'
    BY <1>1, <1>2, <1>3, <1>5 DEF Stamped, ResultFile
  <1>7. BundleIsOfFile'
    BY <1>1, <1>2, <1>3 DEF BundleIsOfFile, ResultFile
  <1>8. \A o \in Outs : result[o].whole => ~(drives < result[o].drive)
    <2>1. \A n \in 1..drives : ~(drives < n)
      BY DEF Aged
    <2>2. ~NoFile.whole
      BY DEF NoFile
    <2> QED BY <2>1, <2>2 DEF Aged
  <1>9. Replayed'
    BY <1>1, <1>2, <1>8 DEF Replayed
  <1>10. Generated'
    BY <1>1 DEF Generated
  <1> QED BY <1>4, <1>6, <1>7, <1>9, <1>10

LEMMA ReplayStep ==
    ASSUME DistinctPairs, OneGeneration
    PROVE  ReplayInv /\ [CampaignNext]_campaignVars => ReplayInv'
  <1> SUFFICES ASSUME ReplayInv, [CampaignNext]_campaignVars
               PROVE  ReplayInv'
    OBVIOUS
  <1>1. BenchInv'
    BY BenchStep DEF ReplayInv
  <1>2. ASSUME UNCHANGED <<benchVars, drives, result, bundle>>
        PROVE  ReplayInv'
    <2>1. UNCHANGED <<job, phase, done, results, frozen, drives, result, bundle>>
      BY <1>2 DEF benchVars, poolVars, inProcess
    <2> QED BY <1>1, <2>1 DEF ReplayInv, Aged, Stamped, BundleIsOfFile, Replayed,
              Generated, ResultFile
  <1>3. CASE StartScript
    BY <1>2, <1>3 DEF StartScript, disk
  <1>4. CASE StartDriver
    BY <1>1, <1>4, ReplayStarts
  <1>5. CASE UnknownCondition \/ Leave
    <2>1. Stop /\ UNCHANGED <<drives, result, bundle>>
      BY <1>5 DEF UnknownCondition, Leave, disk
    <2> QED BY <1>1, <2>1, ReplayLoses
  <1>6. CASE Work
    BY <1>1, <1>6, ReplayWorks
  <1>7. CASE WriteResult
    <2>1. /\ phase = "running" /\ done = {} /\ UNCHANGED <<bundle, drives>>
          /\ result' = [result EXCEPT ![job.out] = ResultFile(FALSE)]
          /\ \/ job.driver # "generate" /\ Stop
             \/ /\ job.driver = "generate" /\ phase' = "freezing"
                /\ UNCHANGED <<job, results, done>>
      BY <1>7 DEF WriteResult, AllCollected, shell
    <2> QED BY <1>1, <2>1, ReplayWrites
  <1>8. CASE Freeze
    BY <1>1, <1>8, ReplayFreezes
  <1>9. CASE Stamp
    <2>1. /\ phase = "stamping" /\ Stop /\ UNCHANGED <<bundle, drives>>
          /\ result' = [result EXCEPT ![job.out] = ResultFile(TRUE)]
      BY <1>9 DEF Stamp
    <2> QED BY <1>1, <2>1, ReplayWrites
  <1>10. CASE Analyze \/ Tabulate
    BY <1>2, <1>10 DEF Analyze, Tabulate
  <1>11. CASE Kill
    <2>1. Stop /\ UNCHANGED drives
      BY <1>11 DEF Kill
    <2>2. \/ UNCHANGED <<result, bundle>>
          \/ result' = [result EXCEPT ![job.out] = NoFile] /\ bundle' = bundle
          \/ phase = "freezing" /\ bundle' = NoBundle /\ result' = result
      BY <1>11 DEF Kill, disk
    <2> QED BY <1>1, <2>1, <2>2, ReplayLoses
  <1>12. CASE UNCHANGED campaignVars
    BY <1>2, <1>12 DEF campaignVars, shell, disk
  <1> QED BY <1>3, <1>4, <1>5, <1>6, <1>7, <1>8, <1>9, <1>10, <1>11, <1>12
            DEF CampaignNext, Progress

\* What the bundle has for a row was said by one row of the generation.
LEMMA SaidInGeneration ==
    ASSUME NEW rows, Answered(Occurring(rows)), NEW r, r.is = "row",
           Recorded({r}, Outputs(rows))
    PROVE  \E g \in RowsThatRan(rows) : Pair(g.cell) = Pair(r.cell) /\ g.said = r.said
  <1>1. PICK b \in Agents : TRUE
    BY TeamAssumption
  <1>2. /\ \A a \in Agents : RecordKey(r.cell, a) \in DOMAIN Outputs(rows)
        /\ r.said = [a \in Agents |-> Outputs(rows)[RecordKey(r.cell, a)]]
    BY DEF Recorded
  <1>3. PICK q \in RowsThatRan(rows), d \in Agents :
            RecordKey(r.cell, b) = RecordKey(q.cell, d)
    BY <1>2 DEF Outputs
  <1>4. Pair(q.cell) = Pair(r.cell)
    BY <1>3 DEF RecordKey, Pair
  <1> DEFINE G == {x \in RowsThatRan(rows) : Pair(x.cell) = Pair(r.cell)}
             g == CHOOSE x \in G : TRUE
  <1>5. g \in RowsThatRan(rows) /\ Pair(g.cell) = Pair(r.cell)
    BY <1>3, <1>4
  <1>6. g.said \in Calls(g.cell)
    BY <1>5 DEF RowsThatRan, Answered
  <1>7. g.said = [a \in Agents |-> g.said[a]]
    BY <1>6 DEF Calls
  <1>8. \A a \in Agents : Outputs(rows)[RecordKey(r.cell, a)] = g.said[a]
    <2> SUFFICES ASSUME NEW a \in Agents
                 PROVE  Outputs(rows)[RecordKey(r.cell, a)] = g.said[a]
      OBVIOUS
    <2> DEFINE k == RecordKey(r.cell, a)
    <2>1. k[3] = a
      BY DEF RecordKey
    <2>2. RowsOf(rows, k) = G
      <3>1. ASSUME NEW x
            PROVE  (\E y \in Agents : RecordKey(x.cell, y) = k)
                       <=> Pair(x.cell) = Pair(r.cell)
        BY DEF RecordKey, Pair
      <3> QED BY <3>1 DEF RowsOf
    <2>3. k \in {RecordKey(x.cell, y) : x \in RowsThatRan(rows), y \in Agents}
      BY <1>2 DEF Outputs
    <2> HIDE DEF k, G
    <2>4. Outputs(rows)[k] = (CHOOSE x \in RowsOf(rows, k) : TRUE).said[k[3]]
      BY <2>3 DEF Outputs
    <2> QED BY <2>1, <2>2, <2>4 DEF k
  <1> HIDE DEF G, g
  <1>9. r.said = g.said
    BY <1>2, <1>7, <1>8
  <1> QED BY <1>5, <1>9

\* Whatever is killed and started again over the same files, the conditions of
\* a replay and of the benchmark meet the same proposals; a replay's are those
\* of the generation its bundle was made of, and a generation's file names a
\* bundle only when that was made of its rows (README.md:125-127,
\* run_cooperbench_frozen_replay.py:91-93).
THEOREM ReplaysSayTheSame ==
    ASSUME DistinctPairs, OneGeneration
    PROVE  CampaignSpec => []SameProposals
  <1>1. CampaignInit => ReplayInv
    BY ReplayInit
  <1>2. ReplayInv /\ [CampaignNext]_campaignVars => ReplayInv'
    BY ReplayStep
  <1>3. ReplayInv => SameProposals
    <2> SUFFICES ASSUME ReplayInv, NEW o \in Outs
                 PROVE  LET file == result[o] IN
                        /\ file.whole /\ file.stamped =>
                            bundle.whole /\ bundle.drive = file.drive
                        /\ file.whole /\ file.job.driver \in {"replay", "bench"} =>
                            /\ SaidAlike(file.rows)
                            /\ file.job.driver = "replay"
                               /\ result["generation"].drive = bundle.drive
                               /\ bundle.whole /\ bundle.drive < file.drive =>
                                   \A r \in RowsThatRan(file.rows) :
                                       \E g \in RowsThatRan(result["generation"].rows) :
                                           Pair(g.cell) = Pair(r.cell) /\ g.said = r.said
      BY DEF SameProposals
    <2> USE DEF ReplayInv
    <2>1. result[o].stamped => bundle.whole /\ bundle.drive = result[o].drive
      BY DEF Stamped
    <2>2. ASSUME result[o].whole, result[o].job.driver \in {"replay", "bench"}
          PROVE  SaidAlike(result[o].rows)
      BY <2>2 DEF Replayed, BenchInv, BenchFiles, BenchRows
    <2>3. ASSUME result[o].whole, result[o].job.driver = "replay",
                 result["generation"].drive = bundle.drive,
                 bundle.whole, bundle.drive < result[o].drive,
                 NEW r \in RowsThatRan(result[o].rows)
          PROVE  \E g \in RowsThatRan(result["generation"].rows) :
                     Pair(g.cell) = Pair(r.cell) /\ g.said = r.said
      <3> DEFINE gen == result["generation"]
      <3>1. bundle.outputs = Outputs(gen.rows)
        BY <2>3 DEF BundleIsOfFile
      <3>2. Recorded({r}, Outputs(gen.rows)) /\ r.is = "row"
        BY <2>3, <3>1 DEF Replayed, Recorded, RowsThatRan
      <3>3. Answered(Occurring(gen.rows))
        <4>1. "generation" \in Outs /\ bundle.drive \in 1..drives /\ drives \in Nat
          BY <2>3 DEF Aged
        <4>2. gen.drive # 0
          BY <2>3, <4>1
        <4>3. gen # NoFile
          BY <4>2 DEF NoFile
        <4>4. gen.whole /\ gen.job.driver = "generate"
          BY <4>1, <4>3 DEF Aged, OneGeneration
        <4> QED BY <4>1, <4>4 DEF Generated
      <3> HIDE DEF gen
      <3> QED BY <3>2, <3>3, SaidInGeneration DEF gen
    <2> QED BY <2>1, <2>2, <2>3
  <1> QED BY <1>1, <1>2, <1>3, PTL DEF CampaignSpec

-----------------------------------------------------------------------------
(* Scripts, their steps and the tables they end with. *)

\* The steps of a script from the k-th on.
Rest(s, k) == [i \in 1..(Len(s) - k + 1) |-> s[k + i - 1]]

LEMMA RestFacts ==
    ASSUME NEW s, IsList(s)
    PROVE  /\ s # <<>> => 1 \in 1..Len(s)
           /\ Rest(s, 1) = s
           /\ \A k \in 1..Len(s) : /\ Rest(s, k) # <<>>
                                   /\ Head(Rest(s, k)) = s[k]
                                   /\ Tail(Rest(s, k)) = Rest(s, k + 1)
                                   /\ Len(Rest(s, k)) = 1 <=> k = Len(s)
                                   /\ Tail(Rest(s, k)) # <<>> => k + 1 \in 1..Len(s)
                                   /\ Tail(Rest(s, k)) = <<>> => k = Len(s)
  <1> DEFINE S == Occurring(s)
             N == Len(s)
  <1>1. s \in Seq(S) /\ N \in Nat /\ DOMAIN s = 1..N
    BY ListFacts
  <1>2. \A n \in 1..N : s[n] \in S
    BY <1>1 DEF Occurring
  <1> HIDE DEF S, N
  <1>3. s # <<>> => 1 \in 1..N
    BY <1>1 DEF N
  <1>4. Rest(s, 1) = s
    <2>1. Rest(s, 1) = [i \in 1..N |-> s[i]]
      <3>1. N - 1 + 1 = N /\ \A i \in 1..N : 1 + i - 1 = i
        BY <1>1
      <3> QED BY <3>1 DEF Rest, N
    <2>2. s = [i \in 1..N |-> s[i]]
      BY <1>1
    <2> QED BY <2>1, <2>2
  <1>5. ASSUME NEW k \in 1..(N + 1)
        PROVE  /\ Rest(s, k) \in Seq(S) /\ Len(Rest(s, k)) = N - k + 1
               /\ \A i \in 1..(N - k + 1) : Rest(s, k)[i] = s[k + i - 1]
    <2>1. \A i \in 1..(N - k + 1) : s[k + i - 1] \in S
      <3>1. \A i \in 1..(N - k + 1) : k + i - 1 \in 1..N
        BY <1>1
      <3> QED BY <1>2, <3>1
    <2>2. N - k + 1 \in Nat
      BY <1>1
    <2> DEFINE t == Rest(s, k)
    <2>3. t = [i \in 1..(N - k + 1) |-> s[k + i - 1]]
      BY DEF Rest, N
    <2> HIDE DEF t
    <2>4. t \in Seq(S) /\ Len(t) = N - k + 1
      BY <2>1, <2>2, <2>3
    <2>5. \A i \in 1..(N - k + 1) : t[i] = s[k + i - 1]
      BY <2>3
    <2> QED BY <2>4, <2>5 DEF t
  <1>6. ASSUME NEW k \in 1..N
        PROVE  /\ Rest(s, k) # <<>>
               /\ Head(Rest(s, k)) = s[k]
               /\ Tail(Rest(s, k)) = Rest(s, k + 1)
               /\ Len(Rest(s, k)) = 1 <=> k = N
               /\ Tail(Rest(s, k)) # <<>> => k + 1 \in 1..N
               /\ Tail(Rest(s, k)) = <<>> => k = N
    <2> DEFINE t == Rest(s, k)
               u == Rest(s, k + 1)
    <2>1. k \in 1..(N + 1) /\ k + 1 \in 1..(N + 1) /\ k \in Nat
      BY <1>1
    <2>2. /\ t \in Seq(S) /\ Len(t) = N - k + 1
          /\ \A i \in 1..(N - k + 1) : t[i] = s[k + i - 1]
      BY <1>5, <2>1
    <2>3. /\ u \in Seq(S) /\ Len(u) = N - (k + 1) + 1
          /\ \A i \in 1..(N - (k + 1) + 1) : u[i] = s[(k + 1) + i - 1]
      BY <1>5, <2>1
    <2> HIDE DEF t, u
    <2>4. t # <<>> /\ Head(t) = t[1] /\ 1 \in 1..(N - k + 1)
      BY <1>1, <2>2
    <2>5. Head(t) = s[k]
      <3>1. k + 1 - 1 = k
        BY <2>1
      <3> QED BY <2>2, <2>4, <3>1
    <2>6. PICK v : v = Tail(t)
      OBVIOUS
    <2>7. /\ v \in Seq(S) /\ Len(v) = N - k
          /\ \A i \in 1..(N - k) : v[i] = t[i + 1]
      BY <1>1, <2>2, <2>4, <2>6
    <2>8. v = u
      <3>1. N - (k + 1) + 1 = N - k
        BY <1>1, <2>1
      <3>2. ASSUME NEW i \in 1..(N - k)
            PROVE  v[i] = u[i]
        <4>1. i + 1 \in 1..(N - k + 1) /\ k + (i + 1) - 1 = (k + 1) + i - 1
          BY <1>1, <2>1
        <4> QED BY <2>2, <2>3, <2>7, <3>1, <4>1
      <3>3. DOMAIN v = 1..(N - k) /\ DOMAIN u = 1..(N - k)
        BY <2>3, <2>7, <3>1
      <3>4. v = [i \in DOMAIN v |-> v[i]] /\ u = [i \in DOMAIN u |-> u[i]]
        BY <2>3, <2>7
      <3> QED BY <3>2, <3>3, <3>4
    <2>9. Len(t) = 1 <=> k = N
      BY <1>1, <2>1, <2>2
    <2>10. v # <<>> => k + 1 \in 1..N
      BY <1>1, <2>1, <2>7
    <2>11. v = <<>> => k = N
      BY <1>1, <2>1, <2>7
    <2> QED BY <2>4, <2>5, <2>6, <2>8, <2>9, <2>10, <2>11 DEF t, u
  <1> QED BY <1>3, <1>4, <1>6 DEF N

Filed(o) == result[o].whole /\ IsList(result[o].rows)
Reviewed(o) == Filed(o) /\ report[o] = FailedIn(result[o].rows)
Tabled(o) == Reviewed(o) /\ table[o] = TableOf(result[o].rows)

\* What the primary script has made when k - 1 of its steps are done.
Made(k) ==
    /\ k >= 2 => Filed("workspace")
    /\ k >= 3 => Reviewed("workspace")
    /\ k >= 4 => Tabled("workspace")
    /\ k >= 5 => Filed("commitment")
    /\ k >= 6 => Reviewed("commitment")
    /\ k >= 7 => Tabled("commitment")

\* Where the script that runs stands.
StandsAtStep(s, k) ==
    /\ script = Rest(s, k)
    /\ \/ PrimaryScript(s) /\ Made(k)
       \/ \E d \in DOMAIN s : OtherScript(s, d) /\ (k > d => job.out # "commitment")

ScriptInv ==
    /\ DriverInv
    /\ DOMAIN report = Outs /\ DOMAIN table = Outs
    /\ phase # "idle" => Head(script).do = "drive" /\ Head(script).job = job
    /\ script # <<>> =>
           /\ ended = "none"
           /\ \E s \in UNION Campaigns : \E k \in 1..Len(s) : StandsAtStep(s, k)
    /\ script = <<>> /\ ended = "commitment" =>
           Tabled("workspace") /\ Tabled("commitment")

\* A script that is broken off has not reached its end.
LEMMA ScriptBroken ==
    ASSUME ScriptInv, DriverInv', script # <<>>, script' = <<>>, ended' = ended,
           phase' = "idle", DOMAIN report' = Outs, DOMAIN table' = Outs
    PROVE  ScriptInv'
  BY DEF ScriptInv

\* A step of the script is done.
LEMMA ScriptGoesOn ==
    ASSUME ScriptInv, DriverInv', script # <<>>, NextStep, phase' = "idle", job' = job,
           NEW s \in UNION Campaigns, NEW k \in 1..Len(s), StandsAtStep(s, k),
           DOMAIN report' = Outs, DOMAIN table' = Outs,
           \/ PrimaryScript(s) /\ Made(k + 1)'
           \/ \E d \in DOMAIN s : OtherScript(s, d) /\ (k + 1 > d => job.out # "commitment")
    PROVE  ScriptInv'
  <1>1. IsList(s)
    BY CampaignsAssumption
  <1>2. Len(s) \in Nat /\ DOMAIN s = 1..Len(s)
    BY <1>1, ListFacts
  <1>3. script = Rest(s, k) /\ script' = Tail(script) /\ script' = Rest(s, k + 1)
    BY <1>1, RestFacts DEF StandsAtStep, NextStep
  <1>4. CASE script' # <<>>
    <2>1. k + 1 \in 1..Len(s) /\ k # Len(s)
      <3>1. Tail(Rest(s, k)) # <<>>
        BY <1>3, <1>4
      <3>2. k + 1 \in 1..Len(s)
        BY <1>1, <3>1, RestFacts
      <3>3. \A n \in Nat : \A i \in 1..n : i + 1 \in 1..n => i # n
        OBVIOUS
      <3> QED BY <1>2, <3>2, <3>3
    <2>2. ended' = "none"
      BY <1>1, <1>3, <2>1, RestFacts DEF NextStep, ScriptInv
    <2>3. StandsAtStep(s, k + 1)'
      BY <1>3 DEF StandsAtStep
    <2> QED BY <1>4, <2>1, <2>2, <2>3 DEF ScriptInv
  <1>5. CASE script' = <<>>
    <2>1. k = Len(s) /\ ended' = job.out
      BY <1>1, <1>3, <1>5, RestFacts DEF NextStep
    <2>2. CASE PrimaryScript(s) /\ Made(k + 1)'
      <3>1. k + 1 = 7
        BY <2>1, <2>2 DEF PrimaryScript
      <3>2. Tabled("workspace")' /\ Tabled("commitment")'
        BY <2>2, <3>1 DEF Made
      <3> QED BY <1>5, <3>2 DEF ScriptInv
    <2>3. CASE \E d \in DOMAIN s : OtherScript(s, d) /\ (k + 1 > d => job.out # "commitment")
      <3>1. \A d \in DOMAIN s : k + 1 > d
        BY <1>2, <2>1
      <3> QED BY <1>5, <2>1, <2>3, <3>1 DEF ScriptInv
    <2> QED BY <2>2, <2>3
  <1> QED BY <1>4, <1>5

\* A driver writes its file, and is done unless it is to freeze it.
LEMMA ScriptWrites ==
    ASSUME ScriptInv, DriverInv', phase # "idle",
           UNCHANGED <<report, table, job>>,
           NEW stamp \in BOOLEAN,
           result' = [result EXCEPT ![job.out] = ResultFile(stamp)],
           \/ phase' = "idle" /\ NextStep
           \/ phase' # "idle" /\ UNCHANGED <<script, ended>>
    PROVE  ScriptInv'
  <1>1. /\ script # <<>> /\ job \in Jobs /\ DOMAIN result = Outs /\ IsList(results)
        /\ DOMAIN report' = Outs /\ DOMAIN table' = Outs
    BY DEF ScriptInv, DriverInv, Standing
  <1>10. PICK s \in UNION Campaigns : \E k \in 1..Len(s) : StandsAtStep(s, k)
    BY <1>1 DEF ScriptInv
  <1>2. PICK k \in 1..Len(s) : StandsAtStep(s, k)
    BY <1>10
  <1>3. IsList(s)
    BY CampaignsAssumption
  <1>4. Len(s) \in Nat /\ DOMAIN s = 1..Len(s)
    BY <1>3, ListFacts
  <1>5. s[k].do = "drive" /\ s[k].job = job
    BY <1>2, <1>3, RestFacts DEF ScriptInv, StandsAtStep
  <1>6. /\ \A o \in Outs : o # job.out => result'[o] = result[o]
        /\ result'[job.out].whole /\ IsList(result'[job.out].rows)
    <2>1. ResultFile(stamp).whole /\ ResultFile(stamp).rows = results
      BY DEF ResultFile
    <2>2. job.out \in Outs
      BY <1>1, JobFacts
    <2>3. result'[job.out] = ResultFile(stamp)
      BY <1>1, <2>2
    <2> QED BY <1>1, <2>1, <2>3
  <1>7. "workspace" \in Outs /\ "commitment" \in Outs
    BY DEF Outs
  <1>8. CASE PrimaryScript(s) /\ Made(k)
    <2>1. k \in 1..6 /\ (k = 1 \/ k = 4)
      <3>1. k \in 1..6
        BY <1>8 DEF PrimaryScript
      <3>2. k # 2 /\ k # 3 /\ k # 5 /\ k # 6
        BY <1>5, <1>8 DEF PrimaryScript
      <3> QED BY <3>1, <3>2
    <2>2. Made(k)' /\ Made(k + 1)'
      <3>1. CASE k = 1
        <4>1. job.out = "workspace"
          BY <1>5, <1>8, <3>1 DEF PrimaryScript
        <4>2. Filed("workspace")'
          BY <1>6, <4>1 DEF Filed
        <4> QED BY <3>1, <4>2 DEF Made
      <3>2. CASE k = 4
        <4>1. job.out = "commitment"
          BY <1>5, <1>8, <3>2 DEF PrimaryScript
        <4>2. Filed("commitment")' /\ result'["workspace"] = result["workspace"]
          BY <1>6, <1>7, <4>1 DEF Filed
        <4>3. Tabled("workspace")
          BY <1>8, <3>2 DEF Made
        <4>4. Filed("workspace")' /\ Reviewed("workspace")' /\ Tabled("workspace")'
          BY <4>2, <4>3 DEF Tabled, Reviewed, Filed
        <4> QED BY <3>2, <4>2, <4>4 DEF Made
      <3> QED BY <2>1, <3>1, <3>2
    <2>3. CASE phase' = "idle" /\ NextStep
      BY <1>1, <1>2, <1>8, <2>2, <2>3, ScriptGoesOn
    <2>4. CASE phase' # "idle" /\ UNCHANGED <<script, ended>>
      <3>1. StandsAtStep(s, k)'
        BY <1>2, <1>8, <2>2, <2>4 DEF StandsAtStep
      <3> QED BY <1>1, <2>4, <3>1 DEF ScriptInv
    <2> QED BY <2>3, <2>4
  <1>9. ASSUME NEW d \in DOMAIN s, OtherScript(s, d), k > d => job.out # "commitment"
        PROVE  ScriptInv'
    <2>1. ~(k > d) /\ (k + 1 > d => k = d)
      BY <1>4, <1>5, <1>9 DEF OtherScript
    <2>2. k + 1 > d => job.out # "commitment"
      BY <1>5, <1>9, <2>1 DEF OtherScript
    <2>3. CASE phase' = "idle" /\ NextStep
      BY <1>1, <1>2, <1>9, <2>2, <2>3, ScriptGoesOn
    <2>4. CASE phase' # "idle" /\ UNCHANGED <<script, ended>>
      <3>1. StandsAtStep(s, k)'
        BY <1>2, <1>9, <2>4 DEF StandsAtStep
      <3> QED BY <1>1, <2>4, <3>1 DEF ScriptInv
    <2> QED BY <2>3, <2>4
  <1> QED BY <1>2, <1>8, <1>9 DEF StandsAtStep

\* The commands that read a file.
LEMMA ScriptReads ==
    ASSUME ScriptInv, DriverInv', Analyze \/ Tabulate
    PROVE  ScriptInv'
  <1>1. /\ script # <<>> /\ phase' = "idle" /\ job' = job /\ result' = result /\ NextStep
        /\ Head(script).do # "drive"
        /\ DOMAIN report' = Outs /\ DOMAIN table' = Outs
    BY DEF ScriptInv, Analyze, Tabulate, AtStep, benchVars, poolVars, inProcess
  <1>10. PICK s \in UNION Campaigns : \E k \in 1..Len(s) : StandsAtStep(s, k)
    BY <1>1 DEF ScriptInv
  <1>2. PICK k \in 1..Len(s) : StandsAtStep(s, k)
    BY <1>10
  <1>3. IsList(s)
    BY CampaignsAssumption
  <1>4. Len(s) \in Nat /\ DOMAIN s = 1..Len(s)
    BY <1>3, ListFacts
  <1>5. Head(script) = s[k]
    BY <1>2, <1>3, RestFacts DEF StandsAtStep
  <1>6. CASE PrimaryScript(s) /\ Made(k)
    <2>1. k \in 1..6 /\ k # 1 /\ k # 4
      BY <1>1, <1>5, <1>6 DEF PrimaryScript
    <2>2. ASSUME k = 2 \/ k = 5
          PROVE  Made(k + 1)'
      <3>1. Head(script).do = "analyze"
        BY <1>5, <1>6, <2>2 DEF PrimaryScript
      <3>11. PICK o : o = Head(script).out
        OBVIOUS
      <3>2. /\ report' = [report EXCEPT ![o] = FailedIn(result[o].rows)]
            /\ table' = table
        BY <3>1, <3>11 DEF Analyze, Tabulate, AtStep
      <3>3. o = IF k = 2 THEN "workspace" ELSE "commitment"
        BY <1>5, <1>6, <2>2, <3>11 DEF PrimaryScript
      <3>4. \A p \in Outs : report'[p] = IF p = o THEN FailedIn(result[o].rows)
                                         ELSE report[p]
        BY <3>2 DEF ScriptInv
      <3>5. "workspace" \in Outs /\ "commitment" \in Outs
        BY DEF Outs
      <3>6. Filed(o) => Reviewed(o)'
        BY <1>1, <3>3, <3>4, <3>5 DEF Filed, Reviewed
      <3>7. k = 5 /\ Tabled("workspace") =>
                Filed("workspace")' /\ Reviewed("workspace")' /\ Tabled("workspace")'
        BY <1>1, <3>2, <3>3, <3>4, <3>5 DEF Filed, Reviewed, Tabled
      <3>8. \A p : Reviewed(p)' => Filed(p)'
        BY DEF Reviewed
      <3>9. CASE k = 2
        BY <1>6, <3>3, <3>6, <3>8, <3>9 DEF Made
      <3>10. CASE k = 5
        BY <1>6, <3>3, <3>6, <3>7, <3>8, <3>10 DEF Made
      <3> QED BY <2>2, <3>9, <3>10
    <2>3. ASSUME k = 3 \/ k = 6
          PROVE  Made(k + 1)'
      <3>1. Head(script).do = "tabulate"
        BY <1>5, <1>6, <2>3 DEF PrimaryScript
      <3>11. PICK o : o = Head(script).out
        OBVIOUS
      <3>2. /\ table' = [table EXCEPT ![o] = TableOf(result[o].rows)]
            /\ report' = report
        BY <3>1, <3>11 DEF Analyze, Tabulate, AtStep
      <3>3. o = IF k = 3 THEN "workspace" ELSE "commitment"
        BY <1>5, <1>6, <2>3, <3>11 DEF PrimaryScript
      <3>4. \A p \in Outs : table'[p] = IF p = o THEN TableOf(result[o].rows)
                                        ELSE table[p]
        BY <3>2 DEF ScriptInv
      <3>5. "workspace" \in Outs /\ "commitment" \in Outs
        BY DEF Outs
      <3>6. \A p : /\ Reviewed(p) => Reviewed(p)' /\ Filed(p)'
                   /\ Tabled(p)' => Reviewed(p)'
        BY <1>1, <3>2 DEF Filed, Reviewed, Tabled
      <3>7. Reviewed(o) => Tabled(o)'
        BY <1>1, <3>3, <3>4, <3>5, <3>6 DEF Tabled, Reviewed, Filed
      <3>8. k = 6 /\ Tabled("workspace") => Tabled("workspace")'
        BY <1>1, <3>3, <3>4, <3>5, <3>6 DEF Tabled
      <3>9. CASE k = 3
        BY <1>6, <3>3, <3>6, <3>7, <3>9 DEF Made
      <3>10. CASE k = 6
        BY <1>6, <3>3, <3>6, <3>7, <3>8, <3>10 DEF Made
      <3> QED BY <2>3, <3>9, <3>10
    <2>4. Made(k + 1)'
      BY <2>1, <2>2, <2>3
    <2> QED BY <1>1, <1>2, <1>6, <2>4, ScriptGoesOn
  <1>7. ASSUME NEW d \in DOMAIN s, OtherScript(s, d), k > d => job.out # "commitment"
        PROVE  ScriptInv'
    <2>1. k + 1 > d => k > d \/ k = d
      BY <1>4
    <2>2. k # d
      BY <1>1, <1>5, <1>7 DEF OtherScript
    <2> QED BY <1>1, <1>2, <1>7, <2>1, <2>2, ScriptGoesOn
  <1> QED BY <1>2, <1>6, <1>7 DEF StandsAtStep

LEMMA ScriptInit == CampaignInit => ScriptInv
  <1> SUFFICES ASSUME CampaignInit
               PROVE  ScriptInv
    OBVIOUS
  <1>1. /\ phase = "idle" /\ script = <<>> /\ ended = "none"
        /\ DOMAIN report = Outs /\ DOMAIN table = Outs
    BY DEF CampaignInit
  <1> QED BY <1>1, DriverInit DEF ScriptInv

LEMMA ScriptStarts ==
    ASSUME OnePrimary, ScriptInv, DriverInv', StartScript
    PROVE  ScriptInv'
  <1>1. /\ script = <<>> /\ script' \in campaign /\ ended' = "none"
        /\ UNCHANGED <<phase, job, report, table, result>>
    BY DEF StartScript, disk, benchVars, poolVars, inProcess
  <1>2. phase = "idle" /\ script' \in UNION Campaigns
    BY <1>1 DEF ScriptInv, DriverInv, Standing
  <1>3. PICK s \in UNION Campaigns : s = script'
    BY <1>2
  <1>4. IsList(s) /\ Len(s) \in Nat /\ DOMAIN s = 1..Len(s)
    BY CampaignsAssumption, ListFacts
  <1>5. ASSUME s # <<>>
        PROVE  1 \in 1..Len(s) /\ StandsAtStep(s, 1)'
    <2>1. 1 \in 1..Len(s) /\ script' = Rest(s, 1)
      BY <1>3, <1>4, <1>5, RestFacts
    <2>2. Made(1)'
      BY DEF Made
    <2>3. \A d \in DOMAIN s : ~(1 > d)
      BY <1>4
    <2>4. PrimaryScript(s) \/ \E d \in DOMAIN s : OtherScript(s, d)
      BY DEF OnePrimary
    <2> QED BY <2>1, <2>2, <2>3, <2>4 DEF StandsAtStep
  <1> QED BY <1>1, <1>2, <1>3, <1>5 DEF ScriptInv

LEMMA ScriptStep ==
    ASSUME OnePrimary
    PROVE  ScriptInv /\ [CampaignNext]_campaignVars => ScriptInv'
  <1> SUFFICES ASSUME ScriptInv, [CampaignNext]_campaignVars
               PROVE  ScriptInv'
    OBVIOUS
  <1>1. DriverInv'
    BY DriverStep DEF ScriptInv
  <1>2. ASSUME UNCHANGED <<script, ended, job, result, report, table>>,
               phase' # "idle" => phase # "idle"
        PROVE  ScriptInv'
    <2>1. \A s : \A k : StandsAtStep(s, k) => StandsAtStep(s, k)'
      BY <1>2 DEF StandsAtStep, Made, Tabled, Reviewed, Filed
    <2>2. Tabled("workspace") /\ Tabled("commitment") =>
              Tabled("workspace")' /\ Tabled("commitment")'
      BY <1>2 DEF Tabled, Reviewed, Filed
    <2> QED BY <1>1, <1>2, <2>1, <2>2 DEF ScriptInv
  <1>3. phase # "idle" => script # <<>>
    BY DEF ScriptInv, DriverInv, Standing
  <1>4. DOMAIN report = Outs /\ DOMAIN table = Outs
    BY DEF ScriptInv
  <1>5. CASE StartScript
    BY <1>1, <1>5, ScriptStarts
  <1>6. CASE StartDriver
    <2>1. /\ script # <<>> /\ phase = "idle" /\ Head(script).do = "drive"
          /\ job' = Head(script).job
          /\ UNCHANGED <<result, report, table, ended>>
      BY <1>6 DEF StartDriver, AtStep, disk
    <2>2. CASE CannotStart(Head(script).job)
      <3>1. script' = <<>> /\ phase' = "idle"
        BY <1>6, <2>1, <2>2 DEF StartDriver, inProcess
      <3> QED BY <1>1, <1>4, <2>1, <3>1, ScriptBroken
    <2>3. CASE ~CannotStart(Head(script).job)
      <3>1. script' = script
        BY <1>6, <2>3 DEF StartDriver
      <3>2. PICK s \in UNION Campaigns : \E k \in 1..Len(s) : StandsAtStep(s, k)
        BY <2>1 DEF ScriptInv
      <3>3. PICK k \in 1..Len(s) : StandsAtStep(s, k)
        BY <3>2
      <3>4. IsList(s) /\ Len(s) \in Nat /\ DOMAIN s = 1..Len(s)
        BY CampaignsAssumption, ListFacts
      <3>5. s[k].do = "drive"
        BY <2>1, <3>3, <3>4, RestFacts DEF StandsAtStep
      <3>6. \A d \in DOMAIN s : OtherScript(s, d) => ~(k > d)
        BY <3>4, <3>5 DEF OtherScript
      <3>7. StandsAtStep(s, k)'
        BY <2>1, <3>1, <3>3, <3>6 DEF StandsAtStep, Made, Tabled, Reviewed, Filed
      <3> QED BY <1>1, <2>1, <3>1, <3>7 DEF ScriptInv
    <2> QED BY <2>2, <2>3
  <1>7. CASE UnknownCondition \/ Leave
    <2>1. /\ phase # "idle" /\ phase' = "idle" /\ script' = <<>> /\ ended' = ended
          /\ UNCHANGED <<report, table>>
      BY <1>7 DEF UnknownCondition, Leave, Stop, Process, disk
    <2> QED BY <1>1, <1>3, <1>4, <2>1, ScriptBroken
  <1>8. CASE Work
    <2>1. UNCHANGED <<script, ended, result, report, table>>
      BY <1>8 DEF Work, disk, shell
    <2>2. job' = job /\ (phase' = phase \/ (phase = "running" /\ phase' = "leaving"))
      <3>1. CASE PoolNext
        BY <3>1 DEF PoolNext, TakesCell, SeedCell, SeedRaises, FinishCell,
           CellRaises, LogError, Collect, CollectRaised
      <3>2. CASE BenchNext
        BY <3>2 DEF BenchNext, Generate, MeetCondition, PairRaises, LogPair,
           BenchRaises, InPair, poolVars, inProcess
      <3> QED BY <1>8, <3>1, <3>2 DEF Work
    <2> QED BY <1>2, <2>1, <2>2
  <1>9. CASE WriteResult
    <2>1. /\ phase = "running" /\ UNCHANGED <<report, table, job>>
          /\ result' = [result EXCEPT ![job.out] = ResultFile(FALSE)]
          /\ \/ phase' = "idle" /\ NextStep
             \/ phase' # "idle" /\ UNCHANGED <<script, ended>>
      BY <1>9 DEF WriteResult, AllCollected, shell, Stop, Process
    <2> QED BY <1>1, <2>1, ScriptWrites
  <1>10. CASE Freeze
    <2>1. phase = "freezing" /\ UNCHANGED <<script, ended, job, result, report, table>>
      BY <1>10 DEF Freeze, shell
    <2> QED BY <1>2, <2>1
  <1>11. CASE Stamp
    <2>1. /\ phase = "stamping" /\ UNCHANGED <<report, table, job>>
          /\ result' = [result EXCEPT ![job.out] = ResultFile(TRUE)]
          /\ phase' = "idle" /\ NextStep
      BY <1>11 DEF Stamp, Stop, Process
    <2> QED BY <1>1, <2>1, ScriptWrites
  <1>12. CASE Analyze \/ Tabulate
    BY <1>1, <1>12, ScriptReads
  <1>13. CASE Kill
    <2>1. /\ script # <<>> /\ script' = <<>> /\ ended' = ended /\ phase' = "idle"
          /\ DOMAIN report' = DOMAIN report /\ DOMAIN table' = DOMAIN table
      BY <1>13 DEF Kill, Stop, Process, disk
    <2> QED BY <1>1, <1>4, <2>1, ScriptBroken
  <1>14. CASE UNCHANGED campaignVars
    BY <1>2, <1>14 DEF campaignVars, shell, disk, benchVars, poolVars, inProcess
  <1> QED BY <1>5, <1>6, <1>7, <1>8, <1>9, <1>10, <1>11, <1>12, <1>13, <1>14
            DEF CampaignNext, Progress

\* In a table whose runs are all safe no row committed anything unsafe, and in
\* one that accepted nothing stale no row did.
LEMMA TableSays ==
    ASSUME NEW rows, IsList(rows)
    PROVE  /\ TableOf(rows).safe = TableOf(rows).runs =>
                  \A n \in WccuRows(rows) : ~CommitsUnsafe(rows[n])
           /\ TableOf(rows).stale = 0 =>
                  \A n \in WccuRows(rows) : ~AcceptsStale(rows[n])
  <1> DEFINE W == WccuRows(rows)
             S == {n \in W : Safe(rows[n])}
             A == {n \in W : AcceptsStale(rows[n])}
  <1>1. IsFiniteSet(W)
    <2>1. Len(rows) \in Nat /\ DOMAIN rows = 1..Len(rows)
      BY ListFacts
    <2>2. IsFiniteSet(1..Len(rows))
      BY <2>1, FS_Interval
    <2>3. W \subseteq 1..Len(rows)
      BY <2>1 DEF WccuRows
    <2> QED BY <2>2, <2>3, FS_Subset
  <1>2. /\ TableOf(rows).safe = Cardinality(S)
        /\ TableOf(rows).runs = Cardinality(W)
        /\ TableOf(rows).stale = Cardinality(A)
    BY DEF TableOf
  <1>3. S \subseteq W /\ A \subseteq W
    OBVIOUS
  <1>4. IsFiniteSet(A)
    BY <1>1, <1>3, FS_Subset
  <1>5. Cardinality(S) = Cardinality(W) => S = W
    <2> HIDE DEF W, S
    <2> QED BY <1>1, <1>3, FS_Subset
  <1>6. Cardinality(A) = 0 => A = {}
    <2> HIDE DEF A
    <2> QED BY <1>4, FS_EmptySet
  <1> QED BY <1>2, <1>5, <1>6 DEF Safe

\* When the primary script has come to its end, and no other script ends with
\* the driver of the commitment table, a readiness check without errors means
\* that no row behind the two tables failed, that no workspace row with
\* certificates committed anything unsafe and that no commitment row accepted a
\* stale proposal, whatever was killed before
\* (check_primary_run_readiness.py:118-131, 239-275).
THEOREM ReadyMeansRan ==
    ASSUME OnePrimary
    PROVE  CampaignSpec => []ReadyRowsRan
  <1>1. CampaignInit => ScriptInv
    BY ScriptInit
  <1>2. ScriptInv /\ [CampaignNext]_campaignVars => ScriptInv'
    BY ScriptStep
  <1>3. ScriptInv => ReadyRowsRan
    <2> SUFFICES ASSUME ScriptInv, ended = "commitment", script = <<>>, Ready
                 PROVE  /\ \A o \in {"workspace", "commitment"} :
                              result[o].whole /\ FailedIn(result[o].rows) = {}
                        /\ \A n \in WccuRows(result["workspace"].rows) :
                              ~CommitsUnsafe(result["workspace"].rows[n])
                        /\ \A n \in WccuRows(result["commitment"].rows) :
                              ~AcceptsStale(result["commitment"].rows[n])
      BY DEF ReadyRowsRan
    <2>1. Tabled("workspace") /\ Tabled("commitment")
      BY DEF ScriptInv
    <2>2. \A o \in {"workspace", "commitment"} :
             result[o].whole /\ IsList(result[o].rows)
      BY <2>1 DEF Tabled, Reviewed, Filed
    <2>3. \A o \in {"workspace", "commitment"} : FailedIn(result[o].rows) = {}
      BY <2>1 DEF Tabled, Reviewed, Ready, ErrorListsEmpty
    <2>4. LET rows == result["workspace"].rows
          IN  TableOf(rows).safe = TableOf(rows).runs
      BY <2>1 DEF Tabled, Ready, TablesPass
    <2>5. TableOf(result["commitment"].rows).stale = 0
      BY <2>1 DEF Tabled, Ready, TablesPass
    <2>6. \A n \in WccuRows(result["workspace"].rows) :
             ~CommitsUnsafe(result["workspace"].rows[n])
      BY <2>2, <2>4, TableSays
    <2>7. \A n \in WccuRows(result["commitment"].rows) :
             ~AcceptsStale(result["commitment"].rows[n])
      BY <2>2, <2>5, TableSays
    <2> QED BY <2>2, <2>3, <2>6, <2>7
  <1> QED BY <1>1, <1>2, <1>3, PTL DEF CampaignSpec
=============================================================================
