-------------------------- MODULE RecognitionProofs --------------------------
(***************************************************************************)
(* Proofs about Recognition, for all numbers of people, threads, frames    *)
(* and faces.  Two invariants carry them: RecInv, on types, means and      *)
(* matches, and PictureInv, on where samples stand between the frames.     *)
(*                                                                         *)
(* Recognition never uses Centroids, the domain that Library has for the   *)
(* column; the theorems assume that it has room for all vectors.           *)
(***************************************************************************)
EXTENDS Recognition, LibraryProofs

\* A factor common to both sides of a comparison can be dropped.
LEMMA Cancel ==
  ASSUME NEW a \in Nat, NEW b \in Nat, NEW k \in Nat, k > 0, a * k <= b * k
  PROVE  a <= b
<1>1. ASSUME b < a PROVE FALSE
  <2>1. PICK d \in Nat : a = b + d /\ d > 0
    <3>1. a - b \in Nat /\ a - b > 0 /\ a = b + (a - b)
      BY <1>1
    <3>2. QED
      BY <3>1
  <2>2. a * k = b * k + d * k
    BY <2>1
  <2>3. d * k > 0
    BY <2>1
  <2>4. QED
    BY <2>2, <2>3
<1>2. QED
  BY <1>1

\* A comparison of naturals can be multiplied by a natural.
LEMMA Scale ==
  ASSUME NEW a \in Nat, NEW b \in Nat, NEW k \in Nat, a <= b
  PROVE  a * k <= b * k
<1>1. PICK d \in Nat : b = a + d
  <2>1. b - a \in Nat /\ b = a + (b - a)
    OBVIOUS
  <2>2. QED
    BY <2>1
<1>2. b * k = a * k + d * k /\ d * k \in Nat /\ a * k \in Nat
  BY <1>1
<1>3. QED
  BY <1>2

\* "p/q is not above r/s" is transitive.
LEMMA RatiosChain ==
  ASSUME NEW p \in Nat, NEW q \in Nat, NEW r \in Nat, NEW s \in Nat, NEW t \in Nat, NEW u \in Nat,
         s > 0, p * s <= r * q, r * u <= t * s
  PROVE  p * u <= t * q
<1>1. (p * s) * u <= (r * q) * u
  BY Scale
<1>2. (r * u) * q <= (t * s) * q
  BY Scale
<1>3. (p * u) * s = (p * s) * u /\ (r * q) * u = (r * u) * q /\ (t * s) * q = (t * q) * s
  OBVIOUS
<1>4. (p * u) * s <= (t * q) * s
  BY <1>1, <1>2, <1>3
<1>5. QED
  BY <1>4, Cancel

(***************************************************************************)
(* Vectors.                                                                *)
(***************************************************************************)

\* A vector that has a direction.
Directed == {v \in Vectors : v[1] # 0 \/ v[2] # 0}

\* Dot products of vectors are naturals.
LEMMA DotFacts ==
  ASSUME NEW u \in Vectors, NEW v \in Vectors
  PROVE  Dot(u, v) \in Nat /\ Dot(u, v) * Dot(u, v) \in Nat
<1>1. u[1] \in Nat /\ u[2] \in Nat /\ v[1] \in Nat /\ v[2] \in Nat
  BY DEF Vectors
<1>2. u[1] * v[1] \in Nat /\ u[2] * v[2] \in Nat
  BY <1>1
<1>3. Dot(u, v) \in Nat
  BY <1>2 DEF Dot
<1>4. QED
  BY <1>3

\* A vector that has a direction has a positive length.
LEMMA DotPositive == ASSUME NEW v \in Directed PROVE Dot(v, v) \in Nat /\ Dot(v, v) > 0
<1>1. v \in Vectors /\ v[1] \in Nat /\ v[2] \in Nat /\ (v[1] > 0 \/ v[2] > 0)
  BY DEF Directed, Vectors
<1>2. /\ v[1] * v[1] \in Nat /\ v[2] * v[2] \in Nat
      /\ v[1] * v[1] > 0 \/ v[2] * v[2] > 0
  BY <1>1
<1>3. QED
  BY <1>2 DEF Dot

\* "Not closer" is transitive.
LEMMA NotCloserChain ==
  ASSUME NEW e \in Vectors, NEW u \in Directed, NEW v \in Directed, NEW w \in Directed,
         ~Closer(e, u, v), ~Closer(e, v, w)
  PROVE  ~Closer(e, u, w)
<1> DEFINE sq(x) == Dot(e, x) * Dot(e, x)
<1>1. /\ sq(u) \in Nat /\ sq(v) \in Nat /\ sq(w) \in Nat
      /\ Dot(u, u) \in Nat /\ Dot(v, v) \in Nat /\ Dot(w, w) \in Nat /\ Dot(v, v) > 0
  BY DotFacts, DotPositive DEF Directed
<1> HIDE DEF sq
<1>2. ASSUME NEW x \in {u, v, w}, NEW y \in {u, v, w}
      PROVE  ~Closer(e, x, y) <=> sq(x) * Dot(y, y) <= sq(y) * Dot(x, x)
  <2>1. /\ sq(x) * Dot(y, y) \in Nat /\ sq(y) * Dot(x, x) \in Nat
        /\ Closer(e, x, y) <=> sq(x) * Dot(y, y) > sq(y) * Dot(x, x)
    BY <1>1 DEF Closer, sq
  <2>2. QED
    BY <2>1
<1>3. sq(u) * Dot(v, v) <= sq(v) * Dot(u, u) /\ sq(v) * Dot(w, w) <= sq(w) * Dot(v, v)
  BY <1>2
<1>4. sq(u) * Dot(w, w) <= sq(w) * Dot(u, u)
  BY <1>1, <1>3, RatiosChain
<1>5. QED
  BY <1>2, <1>4

\* Of two vectors one is not closer.
LEMMA CloserOneWay ==
  ASSUME NEW e \in Vectors, NEW u \in Directed, NEW v \in Directed, Closer(e, u, v)
  PROVE  ~Closer(e, v, u)
<1> DEFINE sq(x) == Dot(e, x) * Dot(e, x)
<1>1. /\ sq(u) \in Nat /\ sq(v) \in Nat
      /\ Dot(u, u) \in Nat /\ Dot(v, v) \in Nat
  BY DotFacts DEF Directed
<1>2. /\ Closer(e, u, v) <=> sq(u) * Dot(v, v) > sq(v) * Dot(u, u)
      /\ Closer(e, v, u) <=> sq(v) * Dot(u, u) > sq(u) * Dot(v, v)
  BY DEF Closer
<1> HIDE DEF sq
<1>3. sq(u) * Dot(v, v) \in Nat /\ sq(v) * Dot(u, u) \in Nat
  BY <1>1
<1>4. QED
  BY <1>2, <1>3

\* Similar is a bound on the ratio that Closer compares.
LEMMA SimilarRatio ==
  ASSUME NEW e \in Vectors, NEW v \in Vectors, NEW tenths \in Nat
  PROVE  /\ tenths * tenths * Dot(e, e) \in Nat
         /\ 100 * (Dot(e, v) * Dot(e, v)) \in Nat
         /\ Dot(v, v) \in Nat
         /\ Similar(e, v, tenths) <=>
              (tenths * tenths * Dot(e, e)) * Dot(v, v) <= 100 * (Dot(e, v) * Dot(e, v))
<1>1. Dot(e, v) \in Nat /\ Dot(e, e) \in Nat /\ Dot(v, v) \in Nat
  BY DotFacts
<1>2. 100 * Dot(e, v) * Dot(e, v) = 100 * (Dot(e, v) * Dot(e, v)) /\ Dot(e, v) * Dot(e, v) \in Nat
  BY <1>1
<1>3. tenths * tenths * Dot(e, e) \in Nat
  <2>1. tenths * tenths \in Nat
    OBVIOUS
  <2>2. QED
    BY <1>1, <2>1
<1>4. 100 * (Dot(e, v) * Dot(e, v)) \in Nat /\ (tenths * tenths * Dot(e, e)) * Dot(v, v) \in Nat
  BY <1>1, <1>2, <1>3
<1>5. QED
  BY <1>1, <1>2, <1>3, <1>4 DEF Similar

\* What is not farther away passes the same threshold.
LEMMA SimilarNearer ==
  ASSUME NEW e \in Vectors, NEW v \in Directed, NEW w \in Directed, NEW tenths \in Nat,
         Similar(e, w, tenths), ~Closer(e, w, v)
  PROVE  Similar(e, v, tenths)
<1> DEFINE sq(x) == Dot(e, x) * Dot(e, x)
           bar   == tenths * tenths * Dot(e, e)
<1>1. /\ sq(v) \in Nat /\ sq(w) \in Nat /\ Dot(v, v) \in Nat /\ Dot(w, w) \in Nat
      /\ Dot(w, w) > 0
  BY DotFacts, DotPositive DEF Directed
<1>2. /\ bar \in Nat /\ 100 * sq(w) \in Nat /\ 100 * sq(v) \in Nat
      /\ bar * Dot(w, w) <= 100 * sq(w)
      /\ Similar(e, v, tenths) <=> bar * Dot(v, v) <= 100 * sq(v)
  BY SimilarRatio DEF Directed
<1>3. Closer(e, w, v) <=> sq(w) * Dot(v, v) > sq(v) * Dot(w, w)
  BY DEF Closer
<1> HIDE DEF sq, bar
<1>4. sq(w) * Dot(v, v) <= sq(v) * Dot(w, w)
  <2>1. sq(w) * Dot(v, v) \in Nat /\ sq(v) * Dot(w, w) \in Nat
    BY <1>1
  <2>2. QED
    BY <1>3, <2>1
<1>5. (100 * sq(w)) * Dot(v, v) <= (100 * sq(v)) * Dot(w, w)
  <2>1. /\ (100 * sq(w)) * Dot(v, v) = 100 * (sq(w) * Dot(v, v))
        /\ (100 * sq(v)) * Dot(w, w) = 100 * (sq(v) * Dot(w, w))
    BY <1>1
  <2>2. sq(w) * Dot(v, v) \in Nat /\ sq(v) * Dot(w, w) \in Nat
    BY <1>1
  <2>3. QED
    BY <1>4, <2>1, <2>2
<1>6. bar * Dot(v, v) <= (100 * sq(v)) * 1
  <2> DEFINE a == 100 * sq(w)
             b == 100 * sq(v)
  <2>1. a \in Nat /\ b \in Nat /\ bar * Dot(w, w) <= a * 1 /\ a * Dot(v, v) <= b * Dot(w, w)
    BY <1>2, <1>5
  <2> HIDE DEF a, b
  <2>2. (bar * Dot(w, w)) * Dot(v, v) <= a * Dot(v, v)
    <3>1. bar * Dot(w, w) \in Nat
      BY <1>1, <1>2
    <3>2. bar * Dot(w, w) <= a
      BY <2>1
    <3>3. QED
      BY <1>1, <2>1, <3>1, <3>2, Scale
  <2>3. (bar * Dot(v, v)) * Dot(w, w) <= b * Dot(w, w)
    <3>1. (bar * Dot(v, v)) * Dot(w, w) = (bar * Dot(w, w)) * Dot(v, v)
      BY <1>1, <1>2
    <3>2. bar * Dot(w, w) \in Nat
      BY <1>1, <1>2
    <3>3. (bar * Dot(w, w)) * Dot(v, v) \in Nat /\ a * Dot(v, v) \in Nat /\ b * Dot(w, w) \in Nat
      BY <1>1, <2>1, <3>2
    <3>4. QED
      BY <2>1, <2>2, <3>1, <3>3
  <2>4. bar * Dot(v, v) \in Nat
    BY <1>1, <1>2
  <2>5. bar * Dot(v, v) <= b
    BY <1>1, <2>1, <2>3, <2>4, Cancel
  <2>6. QED
    BY <2>1, <2>5 DEF b
<1>7. QED
  BY <1>2, <1>6

\* A lower threshold lets more pass.
LEMMA SimilarLower ==
  ASSUME NEW e \in Vectors, NEW v \in Vectors, NEW low \in Nat, NEW high \in Nat, low <= high,
         Similar(e, v, high)
  PROVE  Similar(e, v, low)
<1>1. low * low <= high * high /\ low * low \in Nat /\ high * high \in Nat
  <2>1. low * low <= high * low
    BY Scale
  <2>2. low * high <= high * high
    BY Scale
  <2>3. QED
    BY <2>1, <2>2
<1> DEFINE l == low * low
           h == high * high
           E == Dot(e, e)
           V == Dot(v, v)
           c == 100 * (Dot(e, v) * Dot(e, v))
<1>2. /\ E \in Nat /\ V \in Nat /\ c \in Nat /\ (h * E) * V <= c
      /\ Similar(e, v, low) <=> (l * E) * V <= c
  BY SimilarRatio, DotFacts
<1>3. l \in Nat /\ h \in Nat /\ l <= h
  BY <1>1
<1> HIDE DEF l, h, E, V, c
<1>4. l * E <= h * E /\ l * E \in Nat /\ h * E \in Nat
  BY <1>2, <1>3, Scale
<1>5. (l * E) * V <= (h * E) * V /\ (l * E) * V \in Nat /\ (h * E) * V \in Nat
  BY <1>2, <1>4, Scale
<1>6. QED
  BY <1>2, <1>5

(***************************************************************************)
(* The running mean.                                                       *)
(***************************************************************************)

\* What Lowest divides by.
LEMMA LowestFacts ==
  ASSUME NEW v \in Vectors
  PROVE  \E k \in Nat \ {0} :
           /\ Lowest(v) \in Vectors
           /\ v[1] = k * Lowest(v)[1] /\ v[2] = k * Lowest(v)[2] /\ v[3] = k * Lowest(v)[3]
<1> DEFINE common == {k \in 1 .. v[3] : \A i \in 1 .. 3 : v[i] % k = 0}
           most   == CHOOSE k \in common : \A j \in common : j <= k
<1>1. v[1] \in Nat /\ v[2] \in Nat /\ v[3] \in Nat \ {0}
  BY DEF Vectors
<1>2. 1 \in common
  BY <1>1
<1>3. PICK k \in common : \A j \in common : j <= k
  <2> DEFINE below == {v[3] - j : j \in common}
  <2>1. below \in SUBSET Nat /\ below # {}
    BY <1>1, <1>2
  <2>2. PICK b \in below : \A c \in below : b <= c
    BY <2>1, LeastNatural
  <2>3. PICK k \in common : b = v[3] - k
    BY <2>2
  <2>4. ASSUME NEW j \in common PROVE j <= k
    <3>1. v[3] - k <= v[3] - j
      BY <2>2, <2>3
    <3>2. QED
      BY <1>1, <3>1
  <2>5. QED
    BY <2>4
<1>4. most \in common
  BY <1>3
<1>5. Lowest(v) = [i \in 1 .. 3 |-> v[i] \div most]
  BY DEF Lowest
<1> HIDE DEF most
<1>6. most \in Nat \ {0} /\ v[1] % most = 0 /\ v[2] % most = 0 /\ v[3] % most = 0
  BY <1>1, <1>4
<1>7. ASSUME NEW n \in Nat, n % most = 0 PROVE n \div most \in Nat /\ n = most * (n \div most)
  <2> HIDE DEF common
  <2>1. n = most * (n \div most) + (n % most) /\ n \div most \in Nat
    BY <1>6
  <2>2. QED
    BY <1>7, <2>1, <1>6
<1>8. /\ v[1] = most * Lowest(v)[1] /\ v[2] = most * Lowest(v)[2] /\ v[3] = most * Lowest(v)[3]
      /\ Lowest(v)[1] \in Nat /\ Lowest(v)[2] \in Nat /\ Lowest(v)[3] \in Nat
  <2> HIDE DEF common
  <2>1. /\ Lowest(v)[1] = v[1] \div most /\ Lowest(v)[2] = v[2] \div most
        /\ Lowest(v)[3] = v[3] \div most
    BY <1>5
  <2>2. QED
    BY <1>1, <1>6, <1>7, <2>1
<1>9. Lowest(v)[3] # 0
  BY <1>1, <1>6, <1>8
<1>10. Lowest(v) = <<Lowest(v)[1], Lowest(v)[2], Lowest(v)[3]>>
  BY <1>5
<1>11. Lowest(v) \in Vectors
  BY <1>8, <1>9, <1>10 DEF Vectors
<1>12. QED
  BY <1>6, <1>8, <1>11

\* The sum of which the mean is the quotient.
Sum3(v, n, e) == <<v[1] * n + e[1] * v[3], v[2] * n + e[2] * v[3], v[3] * (n + 1)>>

\* A face added to a mean leaves it a direction.
LEMMA SumDirected ==
  ASSUME NEW v \in Directed, NEW n \in Nat, n # 0, NEW e \in Vectors
  PROVE  Sum3(v, n, e) \in Directed
<1>1. /\ v[1] \in Nat /\ v[2] \in Nat /\ v[3] \in Nat \ {0} /\ (v[1] # 0 \/ v[2] # 0)
      /\ e[1] \in Nat /\ e[2] \in Nat
  BY DEF Directed, Vectors
<1>2. /\ v[1] * n \in Nat /\ v[2] * n \in Nat /\ e[1] * v[3] \in Nat /\ e[2] * v[3] \in Nat
      /\ v[1] * n > 0 \/ v[2] * n > 0
  BY <1>1
<1>3. v[3] * (n + 1) \in Nat \ {0}
  BY <1>1
<1>4. QED
  BY <1>2, <1>3 DEF Directed, Vectors, Sum3

\* (e . v)^2 is at most |e|^2 |v|^2.
LEMMA CauchySchwarz ==
  ASSUME NEW e \in Vectors, NEW v \in Vectors
  PROVE  Dot(e, v) * Dot(e, v) <= Dot(e, e) * Dot(v, v)
<1>1. e[1] \in Nat /\ e[2] \in Nat /\ v[1] \in Nat /\ v[2] \in Nat
  BY DEF Vectors
<1> DEFINE d == e[1] * v[2] - e[2] * v[1]
<1>2. Dot(e, e) * Dot(v, v) = Dot(e, v) * Dot(e, v) + d * d
  BY <1>1 DEF Dot
<1>3. d \in Int
  BY <1>1
<1>4. d * d >= 0 /\ d * d \in Int
  <2> HIDE DEF d
  <2> QED
    BY <1>3
<1>5. Dot(e, v) * Dot(e, v) \in Nat
  BY DotFacts
<1> HIDE DEF d
<1>6. QED
  BY <1>2, <1>4, <1>5

\* Adding e turns a mean towards e.
LEMMA SumNearer ==
  ASSUME NEW v \in Directed, NEW n \in Nat, NEW e \in Vectors
  PROVE  ~Closer(e, v, Sum3(v, n, e))
<1>1. /\ v[1] \in Nat /\ v[2] \in Nat /\ v[3] \in Nat
      /\ e[1] \in Nat /\ e[2] \in Nat /\ e \in Vectors /\ v \in Vectors
  BY DEF Directed, Vectors
<1> DEFINE a == Dot(e, v)
           E == Dot(e, e)
           V == Dot(v, v)
           d == v[3]
           s == Sum3(v, n, e)
<1>2. a \in Nat /\ E \in Nat /\ V \in Nat /\ d \in Nat
  BY <1>1, DotFacts
<1>3. Dot(e, s) = n * a + d * E
  BY <1>1 DEF Dot, Sum3
<1>4. Dot(s, s) = n * n * V + 2 * n * d * a + d * d * E
  BY <1>1 DEF Dot, Sum3
<1>5. a * a <= E * V
  BY <1>1, CauchySchwarz
<1>6. Closer(e, v, s) <=> (a * a) * Dot(s, s) > Dot(e, s) * Dot(e, s) * V
  BY DEF Closer
<1> HIDE DEF a, E, V, d, s
<1>7. PICK g \in Nat : E * V = a * a + g
  <2>1. E * V \in Nat /\ a * a \in Nat
    BY <1>2
  <2>2. E * V - a * a \in Nat /\ E * V = a * a + (E * V - a * a)
    BY <1>5, <2>1
  <2>3. QED
    BY <2>2
<1>8. Dot(e, s) * Dot(e, s) * V
        = (a * a) * Dot(s, s) + (2 * n * d * a) * g + (d * d * E) * g
  <2> DEFINE m == n * n * (a * a)
             k == 2 * n * d * a
             l == d * d * E
  <2>1. m \in Nat /\ k \in Nat /\ l \in Nat
    BY <1>2
  <2>2. Dot(e, s) * Dot(e, s) = m + k * E + l * E
    BY <1>2, <1>3
  <2>3. (m + k * E + l * E) * V = m * V + k * (E * V) + l * (E * V)
    <3> HIDE DEF m, k, l
    <3> QED
      BY <1>2, <2>1
  <2>4. (a * a) * Dot(s, s) = m * V + k * (a * a) + l * (a * a)
    BY <1>2, <1>4
  <2>5. k * (a * a + g) = k * (a * a) + k * g /\ l * (a * a + g) = l * (a * a) + l * g
    <3> HIDE DEF k, l
    <3> QED
      BY <1>2, <1>7, <2>1
  <2>6. m * V + k * (E * V) + l * (E * V) = (a * a) * Dot(s, s) + k * g + l * g
    <3>1. /\ m * V \in Nat /\ k * (a * a) \in Nat /\ l * (a * a) \in Nat
          /\ k * g \in Nat /\ l * g \in Nat
      <4> HIDE DEF m, k, l
      <4> QED
        BY <1>2, <1>7, <2>1
    <3> HIDE DEF m, k, l
    <3>2. QED
      BY <1>7, <2>4, <2>5, <3>1
  <2>7. QED
    BY <2>2, <2>3, <2>6
<1>9. (2 * n * d * a) * g \in Nat /\ (d * d * E) * g \in Nat
  <2>1. 2 * n * d * a \in Nat /\ d * d * E \in Nat
    BY <1>2
  <2>2. QED
    BY <1>7, <2>1
<1>10. (a * a) * Dot(s, s) \in Nat
  BY <1>2, <1>4
<1>11. ~((a * a) * Dot(s, s) > Dot(e, s) * Dot(e, s) * V)
  BY <1>8, <1>9, <1>10
<1>12. QED
  BY <1>6, <1>11 DEF s

\* What a run or the table keeps as a centroid.
Means == {v \in Directed : Between(v)}

\* A face is a mean: that of itself.
LEMMA EmbeddingIsMean == Embeddings \subseteq Means
<1> SUFFICES ASSUME NEW e \in Embeddings PROVE e \in Directed /\ Between(e)
  BY DEF Means
<1>1. e \in Nat \X Nat \X {1} /\ e # <<0, 0, 1>>
  BY EmbeddingsAssumption
<1>2. e = <<e[1], e[2], e[3]>> /\ e[1] \in Nat /\ e[2] \in Nat /\ e[3] = 1
  BY <1>1
<1>3. e[1] # 0 \/ e[2] # 0
  BY <1>1, <1>2
<1>4. e \in Directed
  BY <1>1, <1>2, <1>3 DEF Directed, Vectors
<1>5. \A i \in 1 .. 2 : e[i] \in Nat /\ e[i] * e[3] = e[i]
  BY <1>2
<1>6. Between(e)
  BY <1>5 DEF Between
<1>7. QED
  BY <1>4, <1>6

\* The two comparisons that keep one coordinate of a mean between bounds.
LEMMA MeanBounds ==
  ASSUME NEW x \in Nat, NEW y \in Nat, NEW m \in Nat, NEW d \in Nat, NEW n \in Nat
  PROVE  /\ x <= m * d /\ y <= m => x * n + y * d <= m * (d * (n + 1))
         /\ m * d <= x /\ m <= y => m * (d * (n + 1)) <= x * n + y * d
<1>1. m * (d * (n + 1)) = (m * d) * n + m * d
  OBVIOUS
<1>2. /\ x * n \in Nat /\ y * d \in Nat /\ m * d \in Nat /\ (m * d) * n \in Nat
  <2>1. m * d \in Nat
    OBVIOUS
  <2>2. QED
    BY <2>1
<1>3. ASSUME x <= m * d, y <= m PROVE x * n <= (m * d) * n /\ y * d <= m * d
  BY <1>2, <1>3, Scale
<1>4. ASSUME m * d <= x, m <= y PROVE (m * d) * n <= x * n /\ m * d <= y * d
  BY <1>2, <1>4, Scale
<1>5. QED
  BY <1>1, <1>2, <1>3, <1>4

\* The running mean of means is one.
LEMMA MergedMean ==
  ASSUME NEW v \in Means, NEW n \in Nat, NEW e \in Embeddings
  PROVE  MergeCentroid(v, n, e) \in Means
<1>1. e \in Means /\ e \in Vectors /\ v \in Directed /\ v \in Vectors /\ e[3] = 1
  <2>1. e[3] = 1
    BY EmbeddingsAssumption
  <2>2. QED
    BY <2>1, EmbeddingIsMean DEF Means, Directed
<1>2. CASE n = 0
  BY <1>1, <1>2 DEF MergeCentroid
<1>3. CASE n # 0
  <2> DEFINE s == Sum3(v, n, e)
             w == Lowest(s)
  <2>1. MergeCentroid(v, n, e) = w
    BY <1>3 DEF MergeCentroid, Sum3
  <2>2. s \in Directed /\ s \in Vectors
    BY <1>1, <1>3, SumDirected DEF Directed
  <2>3. PICK k \in Nat \ {0} :
          w \in Vectors /\ s[1] = k * w[1] /\ s[2] = k * w[2] /\ s[3] = k * w[3]
    BY <2>2, LowestFacts
  <2>4. w[1] \in Nat /\ w[2] \in Nat /\ w[3] \in Nat
    BY <2>3 DEF Vectors
  <2>5. w \in Directed
    <3>1. s[1] # 0 \/ s[2] # 0
      BY <2>2 DEF Directed
    <3> HIDE DEF s, w
    <3>2. w[1] # 0 \/ w[2] # 0
      BY <2>3, <2>4, <3>1
    <3>3. QED
      BY <2>3, <3>2 DEF Directed
  <2>6. ASSUME NEW i \in 1 .. 2
        PROVE  /\ \E h \in Embeddings : w[i] <= h[i] * w[3]
               /\ \E l \in Embeddings : l[i] * w[3] <= w[i]
    <3>1. /\ v[i] \in Nat /\ v[3] \in Nat /\ e[i] \in Nat
          /\ \A h \in Embeddings : h[i] \in Nat
      BY <1>1, EmbeddingsAssumption DEF Vectors
    <3>2. s[i] = v[i] * n + e[i] * v[3] /\ s[3] = v[3] * (n + 1)
      BY DEF Sum3
    <3>3. s[i] = k * w[i] /\ w[i] \in Nat
      BY <2>3, <2>4
    <3> HIDE DEF s, w
    <3>4. \E h \in Embeddings : v[i] <= h[i] * v[3] /\ e[i] <= h[i]
      <4>1. PICK h \in Embeddings : v[i] <= h[i] * v[3]
        BY DEF Means, Between
      <4>2. CASE e[i] <= h[i]
        BY <4>1, <4>2
      <4>3. CASE ~(e[i] <= h[i])
        <5>1. h[i] <= e[i]
          BY <3>1, <4>3
        <5>2. h[i] * v[3] <= e[i] * v[3]
          BY <3>1, <5>1, Scale
        <5>3. v[i] <= e[i] * v[3]
          <6>1. h[i] * v[3] \in Nat /\ e[i] * v[3] \in Nat
            BY <3>1
          <6>2. QED
            BY <3>1, <4>1, <5>2, <6>1
        <5>4. QED
          BY <3>1, <5>3
      <4>4. QED
        BY <4>2, <4>3
    <3>5. \E l \in Embeddings : l[i] * v[3] <= v[i] /\ l[i] <= e[i]
      <4>1. PICK l \in Embeddings : l[i] * v[3] <= v[i]
        BY DEF Means, Between
      <4>2. CASE l[i] <= e[i]
        BY <4>1, <4>2
      <4>3. CASE ~(l[i] <= e[i])
        <5>1. e[i] <= l[i]
          BY <3>1, <4>3
        <5>2. e[i] * v[3] <= l[i] * v[3]
          BY <3>1, <5>1, Scale
        <5>3. e[i] * v[3] <= v[i]
          <6>1. l[i] * v[3] \in Nat /\ e[i] * v[3] \in Nat
            BY <3>1
          <6>2. QED
            BY <3>1, <4>1, <5>2, <6>1
        <5>4. QED
          BY <3>1, <5>3
      <4>4. QED
        BY <4>2, <4>3
    <3>6. ASSUME NEW h \in Embeddings PROVE h[i] * s[3] = (h[i] * w[3]) * k /\ s[i] = w[i] * k
      BY <2>3, <2>4, <3>1, <3>3
    <3>7. \A h \in Embeddings : h[i] * w[3] \in Nat
      BY <2>4, <3>1
    <3>8. \E h \in Embeddings : w[i] <= h[i] * w[3]
      <4>1. PICK h \in Embeddings : v[i] <= h[i] * v[3] /\ e[i] <= h[i]
        BY <3>4
      <4>2. s[i] <= h[i] * s[3]
        <5>1. v[i] * n + e[i] * v[3] <= h[i] * (v[3] * (n + 1))
          BY <3>1, <4>1, MeanBounds
        <5>2. QED
          BY <3>2, <5>1
      <4>3. w[i] <= h[i] * w[3]
        BY <2>3, <3>3, <3>6, <3>7, <4>2, Cancel
      <4>4. QED
        BY <4>3
    <3>9. \E l \in Embeddings : l[i] * w[3] <= w[i]
      <4>1. PICK l \in Embeddings : l[i] * v[3] <= v[i] /\ l[i] <= e[i]
        BY <3>5
      <4>2. l[i] * s[3] <= s[i]
        <5>1. l[i] * (v[3] * (n + 1)) <= v[i] * n + e[i] * v[3]
          BY <3>1, <4>1, MeanBounds
        <5>2. QED
          BY <3>2, <5>1
      <4>3. l[i] * w[3] <= w[i]
        BY <2>3, <3>3, <3>6, <3>7, <4>2, Cancel
      <4>4. QED
        BY <4>3
    <3>10. QED
      BY <3>8, <3>9
  <2>7. Between(w)
    BY <2>6 DEF Between
  <2>8. QED
    BY <2>1, <2>5, <2>7 DEF Means
<1>4. QED
  BY <1>2, <1>3

\* A face is similar to itself.
LEMMA SimilarSelf ==
  ASSUME NEW e \in Vectors, NEW tenths \in 0 .. 10
  PROVE  Similar(e, e, tenths)
<1> DEFINE E == Dot(e, e)
           q == tenths * tenths
<1>1. /\ E \in Nat
      /\ Similar(e, e, tenths) <=> (q * E) * E <= 100 * (E * E)
  BY SimilarRatio, DotFacts
<1>2. q \in Nat /\ q <= 100
  <2>1. tenths * tenths <= 10 * tenths
    BY Scale
  <2>2. QED
    BY <2>1
<1> HIDE DEF E, q
<1>3. E * E \in Nat /\ (q * E) * E = q * (E * E)
  BY <1>1, <1>2
<1>4. q * (E * E) <= 100 * (E * E)
  BY <1>2, <1>3, Scale
<1>5. QED
  BY <1>1, <1>3, <1>4

\* A face passes the threshold it passed also against the mean it moved.
LEMMA MergedSimilar ==
  ASSUME NEW v \in Means, NEW n \in Nat, NEW e \in Embeddings, NEW tenths \in 0 .. 10,
         Similar(e, v, tenths)
  PROVE  Similar(e, MergeCentroid(v, n, e), tenths)
<1>1. e \in Directed /\ e \in Vectors /\ v \in Directed /\ tenths \in Nat
  BY EmbeddingIsMean DEF Means, Directed
<1>2. CASE n = 0
  BY <1>1, <1>2, SimilarSelf DEF MergeCentroid
<1>3. CASE n # 0
  <2> DEFINE s == Sum3(v, n, e)
             w == Lowest(s)
  <2>1. MergeCentroid(v, n, e) = w
    BY <1>3 DEF MergeCentroid, Sum3
  <2>2. s \in Directed /\ s \in Vectors
    BY <1>1, <1>3, SumDirected DEF Directed
  <2>3. w \in Directed
    BY <2>1, MergedMean DEF Means
  <2>4. PICK k \in Nat \ {0} : s[1] = k * w[1] /\ s[2] = k * w[2]
    BY <2>2, LowestFacts
  <2>5. ~Closer(e, s, w)
    <3>1. /\ e[1] \in Nat /\ e[2] \in Nat /\ w[1] \in Nat /\ w[2] \in Nat
      BY <1>1, <2>3 DEF Directed, Vectors
    <3> HIDE DEF s, w
    <3> DEFINE a == Dot(e, w)
               b == Dot(w, w)
    <3>2. a \in Nat /\ b \in Nat
      BY <1>1, <2>3, DotFacts DEF Directed
    <3>3. Dot(e, s) = k * a /\ Dot(s, s) = k * k * b
      BY <2>4, <3>1 DEF Dot
    <3>4. Closer(e, s, w) <=> Dot(e, s) * Dot(e, s) * b > a * a * Dot(s, s)
      BY DEF Closer
    <3> HIDE DEF a, b
    <3>5. Dot(e, s) * Dot(e, s) * b = a * a * Dot(s, s) /\ a * a * Dot(s, s) \in Nat
      BY <3>2, <3>3
    <3>6. QED
      BY <3>4, <3>5
  <2>6. ~Closer(e, v, s)
    BY <1>1, SumNearer
  <2> HIDE DEF s, w
  <2>7. ~Closer(e, v, w)
    BY <1>1, <2>2, <2>3, <2>5, <2>6, NotCloserChain
  <2>8. QED
    BY <1>1, <2>1, <2>3, <2>7, SimilarNearer
<1>4. QED
  BY <1>2, <1>3

(***************************************************************************)
(* The two searches.                                                       *)
(***************************************************************************)

\* The records get_clusters_for_owner returns, as a run changes them.
Known == [id : ClusterIds, named : BOOLEAN, samples : Nat, centroid : Means]

\* One turn of the loop of match_cluster, with position i after b.
Turn(e, cs, i, b) ==
  IF Passes(e, cs[i]) /\ (b # 0 => Closer(e, cs[i].centroid, cs[b].centroid)) THEN i ELSE b

\* The loop makes its turns one after the other.
LEMMA LoopTurns ==
  ASSUME NEW e, NEW cs \in Seq(Known)
  PROVE  /\ BestSoFar(e, cs)[0] = 0
         /\ \A i \in 1 .. Len(cs) :
              BestSoFar(e, cs)[i] = Turn(e, cs, i, BestSoFar(e, cs)[i - 1])
<1> DEFINE n == Len(cs)
           IsLoop(f, k) == /\ f \in [0 .. k -> 0 .. k]
                           /\ f[0] = 0
                           /\ \A i \in 1 .. k : f[i] = Turn(e, cs, i, f[i - 1])
           bad == {k \in 0 .. n : ~\E f : IsLoop(f, k)}
<1>1. n \in Nat
  OBVIOUS
<1> HIDE DEF n
<1>2. bad = {}
  <2>1. ASSUME bad # {} PROVE FALSE
    <3>1. PICK k \in bad : \A l \in bad : k <= l
      <4>1. bad \in SUBSET Nat
        BY <1>1
      <4> HIDE DEF bad
      <4>2. QED
        BY <2>1, <4>1, LeastNatural
    <3>2. k \in Nat /\ k <= n
      BY <1>1
    <3>3. CASE k = 0
      <4>1. IsLoop([i \in 0 .. 0 |-> 0], 0)
        OBVIOUS
      <4>2. QED
        BY <3>3, <4>1
    <3>4. CASE k # 0
      <4>1. k - 1 \in 0 .. n /\ k - 1 \notin bad
        <5> HIDE DEF bad
        <5> QED
          BY <1>1, <3>1, <3>2, <3>4
      <4>2. PICK f : IsLoop(f, k - 1)
        BY <4>1
      <4> DEFINE g == [i \in 0 .. k |-> IF i = k THEN Turn(e, cs, k, f[k - 1]) ELSE f[i]]
      <4>3. g[0] = 0 /\ \A i \in 0 .. k - 1 : g[i] = f[i]
        BY <3>2, <3>4, <4>2
      <4>4. \A i \in 1 .. k - 1 : i - 1 \in 0 .. k - 1 /\ i \in 0 .. k - 1
        BY <3>2
      <4>5. g[k] = Turn(e, cs, k, g[k - 1])
        BY <3>2, <3>4, <4>3
      <4>6. \A i \in 1 .. k - 1 : g[i] = Turn(e, cs, i, g[i - 1])
        BY <4>2, <4>3, <4>4
      <4>7. \A i \in 1 .. k : g[i] = Turn(e, cs, i, g[i - 1])
        <5> HIDE DEF g
        <5>1. \A i \in 1 .. k : i \in 1 .. k - 1 \/ i = k
          BY <3>2
        <5>2. QED
          BY <4>5, <4>6, <5>1
      <4>8. g \in [0 .. k -> 0 .. k]
        <5>1. f[k - 1] \in 0 .. k /\ \A i \in 0 .. k - 1 : f[i] \in 0 .. k
          BY <3>2, <3>4, <4>2
        <5>2. Turn(e, cs, k, f[k - 1]) \in 0 .. k
          BY <3>2, <5>1 DEF Turn
        <5>3. QED
          BY <3>2, <5>1, <5>2
      <4> HIDE DEF g
      <4>9. IsLoop(g, k)
        BY <4>3, <4>7, <4>8
      <4>10. QED
        BY <4>9
    <3>5. QED
      BY <3>3, <3>4
  <2>2. QED
    BY <2>1
<1>3. PICK f : IsLoop(f, n)
  <2>1. n \in 0 .. n /\ n \notin bad
    <3> HIDE DEF bad
    <3> QED
      BY <1>1, <1>2
  <2> HIDE DEF IsLoop
  <2>2. QED
    BY <2>1
<1> DEFINE Body(h) == [i \in 0 .. n |->
                         IF i = 0 THEN 0
                         ELSE IF /\ Passes(e, cs[i])
                                 /\ h[i - 1] # 0 =>
                                      Closer(e, cs[i].centroid, cs[h[i - 1]].centroid)
                              THEN i ELSE h[i - 1]]
<1>4. f = Body(f)
  <2>1. ASSUME NEW i \in 0 .. n PROVE f[i] = Body(f)[i]
    <3>1. i = 0 \/ i \in 1 .. n
      BY <1>1
    <3>2. /\ f[0] = 0
          /\ i \in 1 .. n => f[i] = Turn(e, cs, i, f[i - 1])
      BY <1>3
    <3> HIDE DEF IsLoop
    <3>3. QED
      BY <1>1, <3>1, <3>2 DEF Turn
  <2>2. f = [i \in 0 .. n |-> f[i]]
    BY <1>3
  <2>3. QED
    BY <2>1, <2>2
<1>5. BestSoFar(e, cs) = CHOOSE h : h = Body(h)
  BY DEF BestSoFar, n
<1>6. BestSoFar(e, cs) = Body(BestSoFar(e, cs))
  <2> HIDE DEF Body
  <2> QED
    BY <1>4, <1>5
<1> DEFINE best == BestSoFar(e, cs)
<1> HIDE DEF best
<1>7. best = Body(best)
  BY <1>6 DEF best
<1>8. best[0] = 0 /\ \A i \in 1 .. n : best[i] = Turn(e, cs, i, best[i - 1])
  <2>1. \A i \in 0 .. n : best[i] = Body(best)[i]
    BY <1>7
  <2>2. QED
    BY <1>1, <2>1 DEF Turn
<1>9. QED
  BY <1>8 DEF best, n

\* Position b is the first of the most similar that pass among the first k.
IsMatch(e, cs, k, b) ==
  LET nearer(i, j) == Closer(e, cs[i].centroid, cs[j].centroid)
  IN /\ b \in 0 .. k
     /\ b = 0 => \A j \in 1 .. k : ~Passes(e, cs[j])
     /\ b # 0 => /\ Passes(e, cs[b])
                 /\ \A j \in 1 .. k : Passes(e, cs[j]) => ~nearer(j, b)
                 /\ \A j \in 1 .. b - 1 : Passes(e, cs[j]) => nearer(b, j)

\* A turn of the loop goes from the match of the first clusters to the match of one more.
LEMMA TurnMatches ==
  ASSUME NEW e \in Embeddings, NEW cs \in Seq(Known), NEW k \in 1 .. Len(cs), NEW b,
         IsMatch(e, cs, k - 1, b)
  PROVE  IsMatch(e, cs, k, Turn(e, cs, k, b))
<1> DEFINE nearer(i, j) == Closer(e, cs[i].centroid, cs[j].centroid)
           new == Turn(e, cs, k, b)
<1>1. /\ Len(cs) \in Nat /\ k \in Nat /\ b \in 0 .. k - 1
      /\ \A j \in 1 .. k - 1 : j \in 1 .. k
      /\ \A j \in 1 .. k : j \in 1 .. k - 1 \/ j = k
  BY DEF IsMatch
<1>2. e \in Vectors /\ \A j \in 1 .. k : cs[j].centroid \in Directed
  <2>1. e \in Vectors
    BY EmbeddingIsMean DEF Means, Directed
  <2>2. \A j \in 1 .. k : cs[j] \in Known
    BY <1>1
  <2>3. QED
    BY <2>1, <2>2 DEF Known, Means
<1>3. ~nearer(k, k)
  BY <1>1, <1>2, CloserOneWay
<1>4. CASE ~Passes(e, cs[k])
  <2>1. new = b
    BY <1>4 DEF Turn
  <2>2. QED
    BY <1>1, <1>4, <2>1 DEF IsMatch
<1>5. CASE Passes(e, cs[k]) /\ b = 0
  <2>1. new = k
    BY <1>5 DEF Turn
  <2>2. QED
    BY <1>1, <1>3, <1>5, <2>1 DEF IsMatch
<1>6. CASE Passes(e, cs[k]) /\ b # 0 /\ ~nearer(k, b)
  <2>1. new = b
    BY <1>6 DEF Turn
  <2>2. QED
    BY <1>1, <1>6, <2>1 DEF IsMatch
<1>7. CASE Passes(e, cs[k]) /\ b # 0 /\ nearer(k, b)
  <2>1. new = k
    BY <1>7 DEF Turn
  <2>2. ASSUME NEW j \in 1 .. k - 1, Passes(e, cs[j]) PROVE ~nearer(j, k) /\ nearer(k, j)
    <3>1. ~nearer(j, b) /\ b \in 1 .. k /\ j \in 1 .. k
      BY <1>1, <1>7, <2>2 DEF IsMatch
    <3>2. ~nearer(b, k)
      BY <1>1, <1>2, <1>7, <3>1, CloserOneWay
    <3>3. ~nearer(j, k)
      BY <1>1, <1>2, <3>1, <3>2, NotCloserChain
    <3>4. nearer(k, j)
      BY <1>1, <1>2, <1>7, <3>1, NotCloserChain
    <3>5. QED
      BY <3>3, <3>4
  <2>3. QED
    BY <1>1, <1>3, <1>7, <2>1, <2>2 DEF IsMatch
<1>8. QED
  BY <1>4, <1>5, <1>6, <1>7

\* match_cluster returns the first of the most similar that pass.
LEMMA MatchFacts ==
  ASSUME NEW e \in Embeddings, NEW cs \in Seq(Known)
  PROVE  IsMatch(e, cs, Len(cs), MatchCluster(e, cs))
<1> DEFINE best == BestSoFar(e, cs)
           bad  == {k \in 0 .. Len(cs) : ~IsMatch(e, cs, k, best[k])}
<1>1. Len(cs) \in Nat
  OBVIOUS
<1>2. bad = {}
  <2>1. ASSUME bad # {} PROVE FALSE
    <3>1. PICK k \in bad : \A l \in bad : k <= l
      <4>1. bad \in SUBSET Nat
        BY <1>1
      <4> HIDE DEF bad
      <4>2. QED
        BY <2>1, <4>1, LeastNatural
    <3>2. best[0] = 0
      BY LoopTurns
    <3>3. k # 0
      <4>1. IsMatch(e, cs, 0, 0)
        BY DEF IsMatch
      <4>2. QED
        BY <3>2, <4>1
    <3>4. k \in 1 .. Len(cs) /\ k - 1 \in 0 .. Len(cs) /\ k - 1 \notin bad
      BY <1>1, <3>1, <3>3
    <3>5. IsMatch(e, cs, k - 1, best[k - 1])
      BY <3>4
    <3>6. best[k] = Turn(e, cs, k, best[k - 1])
      BY <3>4, LoopTurns
    <3> HIDE DEF best
    <3>7. IsMatch(e, cs, k, best[k])
      BY <3>4, <3>5, <3>6, TurnMatches
    <3>8. QED
      BY <3>7
  <2>2. QED
    BY <2>1
<1>3. QED
  BY <1>1, <1>2 DEF MatchCluster

\* Some cluster of a list is the nearest, and there is a first one.
LEMMA NearestFacts ==
  ASSUME NEW e \in Embeddings, NEW cs \in Seq(Known), cs # <<>>,
         NEW nearest, nearest = {i \in DOMAIN cs : \A j \in DOMAIN cs :
                                   ~Closer(e, cs[j].centroid, cs[i].centroid)}
  PROVE  \E i \in nearest : \A j \in nearest : i <= j
<1> DEFINE nearer(i, j) == Closer(e, cs[i].centroid, cs[j].centroid)
           bad == {k \in 1 .. Len(cs) : ~\E i \in 1 .. k : \A j \in 1 .. k : ~nearer(j, i)}
<1>1. Len(cs) \in Nat /\ DOMAIN cs = 1 .. Len(cs) /\ Len(cs) # 0
  OBVIOUS
<1>2. e \in Vectors /\ \A j \in 1 .. Len(cs) : cs[j].centroid \in Directed
  <2>1. e \in Vectors
    BY EmbeddingIsMean DEF Means, Directed
  <2>2. \A j \in 1 .. Len(cs) : cs[j] \in Known
    BY <1>1
  <2>3. QED
    BY <2>1, <2>2 DEF Known, Means
<1>3. ASSUME bad # {} PROVE FALSE
  <2>1. PICK k \in bad : \A l \in bad : k <= l
    <3>1. bad \in SUBSET Nat
      BY <1>1
    <3> HIDE DEF bad
    <3>2. QED
      BY <1>3, <3>1, LeastNatural
  <2>2. k \in 1 .. Len(cs) /\ ~nearer(k, k)
    BY <1>1, <1>2, CloserOneWay
  <2>3. k # 1
    BY <1>1, <2>2
  <2>4. k - 1 \in 1 .. Len(cs) /\ k - 1 \notin bad
    <3> HIDE DEF bad
    <3> QED
      BY <1>1, <2>1, <2>2, <2>3
  <2>5. PICK i \in 1 .. k - 1 : \A j \in 1 .. k - 1 : ~nearer(j, i)
    BY <2>4
  <2>6. /\ i \in 1 .. k /\ i \in 1 .. Len(cs)
        /\ \A j \in 1 .. k : j \in 1 .. Len(cs) /\ (j \in 1 .. k - 1 \/ j = k)
    BY <1>1, <2>2, SMTT(20)
  <2>7. CASE nearer(k, i)
    <3>1. ~nearer(i, k)
      BY <1>2, <2>2, <2>6, <2>7, CloserOneWay
    <3>2. \A j \in 1 .. k : ~nearer(j, k)
      BY <1>2, <2>2, <2>5, <2>6, <3>1, NotCloserChain
    <3>3. QED
      BY <1>1, <2>2, <3>2
  <2>8. CASE ~nearer(k, i)
    BY <2>5, <2>6, <2>8
  <2>9. QED
    BY <2>7, <2>8
<1>4. Len(cs) \notin bad
  BY <1>3
<1>5. nearest \in SUBSET Nat /\ nearest # {}
  <2>1. Len(cs) \in 1 .. Len(cs)
    BY <1>1
  <2>2. PICK i \in 1 .. Len(cs) : \A j \in 1 .. Len(cs) : ~nearer(j, i)
    BY <1>4, <2>1
  <2>3. i \in nearest
    BY <1>1, <2>2
  <2>4. nearest \in SUBSET Nat
    BY <1>1
  <2>5. QED
    BY <2>3, <2>4
<1>6. QED
  BY <1>5, LeastNatural

\* The two searches of one list agree as AssistAgrees states it.
LEMMA SearchesAgree ==
  ASSUME NEW e \in Embeddings, NEW cs \in Seq(Known),
         NEW offered, offered = BestMatch(e, cs),
         NEW matched, matched = MatchCluster(e, cs)
  PROVE  /\ offered # 0 => matched = offered
         /\ matched # 0 => offered = matched \/ (offered = 0 /\ cs[matched].named)
<1> DEFINE nearer(i, j) == Closer(e, cs[i].centroid, cs[j].centroid)
           nearest == {i \in DOMAIN cs : \A j \in DOMAIN cs : ~nearer(j, i)}
           first   == CHOOSE i \in nearest : \A j \in nearest : i <= j
           floor(i) == Similar(e, cs[i].centroid, UnknownThreshold)
<1>1. Len(cs) \in Nat /\ DOMAIN cs = 1 .. Len(cs)
  OBVIOUS
<1>2. IsMatch(e, cs, Len(cs), matched)
  BY MatchFacts
<1>3. offered = IF cs # <<>> /\ floor(first) THEN first ELSE 0
  BY DEF BestMatch
<1>4. CASE cs = <<>>
  BY <1>2, <1>3, <1>4 DEF IsMatch
<1>5. CASE cs # <<>>
  <2>1. first \in nearest /\ \A j \in nearest : first <= j
    <3>1. \E i \in nearest : \A j \in nearest : i <= j
      BY <1>5, NearestFacts
    <3> HIDE DEF nearest
    <3>2. QED
      BY <3>1
  <2> HIDE DEF first
  <2>2. first \in 1 .. Len(cs) /\ \A j \in 1 .. Len(cs) : ~nearer(j, first)
    BY <1>1, <2>1
  <2>3. e \in Vectors
    BY EmbeddingIsMean DEF Means, Directed
  <2>4. \A j \in 1 .. Len(cs) : /\ cs[j].centroid \in Directed
                                /\ cs[j].centroid \in Vectors
                                /\ cs[j].named \in BOOLEAN
    <3>1. \A j \in 1 .. Len(cs) : cs[j] \in Known
      BY <1>1
    <3>2. QED
      BY <3>1 DEF Known, Means, Directed
  <2>5. /\ MatchThreshold \in Nat /\ UnknownThreshold \in Nat
        /\ MatchThreshold <= UnknownThreshold
    BY ThresholdAssumption
  <2>6. \A j \in 1 .. Len(cs) : floor(j) => Passes(e, cs[j])
    BY <2>3, <2>4, <2>5, SimilarLower DEF Passes
  <2>7. ASSUME floor(first) PROVE matched = first
    <3>1. Passes(e, cs[first])
      BY <2>2, <2>6, <2>7
    <3>2. /\ matched \in 1 .. Len(cs)
          /\ ~nearer(first, matched)
          /\ \A j \in 1 .. matched - 1 : Passes(e, cs[j]) => nearer(matched, j)
      BY <1>1, <1>2, <2>2, <3>1 DEF IsMatch
    <3>3. \A j \in 1 .. Len(cs) : ~nearer(j, matched)
      BY <2>2, <2>3, <2>4, <3>2, NotCloserChain
    <3>4. first <= matched
      BY <1>1, <2>1, <3>2, <3>3
    <3>5. ~(first \in 1 .. matched - 1)
      BY <2>2, <3>1, <3>2
    <3>6. QED
      BY <1>1, <2>2, <3>2, <3>4, <3>5
  <2>8. ASSUME ~floor(first), matched # 0 PROVE cs[matched].named
    <3>1. matched \in 1 .. Len(cs) /\ Passes(e, cs[matched])
      BY <1>1, <1>2, <2>8 DEF IsMatch
    <3>2. ~floor(matched)
      BY <2>2, <2>3, <2>4, <2>5, <2>8, <3>1, SimilarNearer
    <3>3. QED
      BY <3>1, <3>2 DEF Passes
  <2>9. first # 0
    BY <1>1, <2>2
  <2>10. CASE floor(first)
    BY <1>3, <1>5, <2>7, <2>9, <2>10
  <2>11. CASE ~floor(first)
    BY <1>3, <1>5, <2>8, <2>11
  <2>12. QED
    BY <2>10, <2>11
<1>6. QED
  BY <1>4, <1>5

(***************************************************************************)
(* The list of an owner's clusters.                                        *)
(***************************************************************************)

\* The order of get_clusters_for_owner.
Before(c, k) == IF IsNamed(c) = IsNamed(k) THEN c < k ELSE IsNamed(c)

Sorted(s, n) == \A i, j \in 1 .. n : i < j => Before(s[i], s[j])

\* Finitely many clusters can be listed in that order.
LEMMA SortedExists ==
  ASSUME NEW S \in SUBSET Nat, IsFiniteSet(S)
  PROVE  \E s \in [1 .. Cardinality(S) -> S] : Sorted(s, Cardinality(S))
<1> DEFINE Listed(R) == \E s \in [1 .. Cardinality(R) -> R] : Sorted(s, Cardinality(R))
           sizes == {Cardinality(R) : R \in {Q \in SUBSET S : ~Listed(Q)}}
<1>1. \A R \in SUBSET S : IsFiniteSet(R) /\ Cardinality(R) \in Nat
  BY FS_Subset, FS_CardinalityType
<1>2. ASSUME sizes # {} PROVE FALSE
  <2>1. PICK n \in sizes : \A m \in sizes : n <= m
    <3>1. sizes \in SUBSET Nat
      BY <1>1
    <3> HIDE DEF sizes
    <3>2. QED
      BY <1>2, <3>1, LeastNatural
  <2>2. PICK R \in SUBSET S : ~Listed(R) /\ n = Cardinality(R)
    BY <2>1
  <2>3. n \in Nat /\ IsFiniteSet(R)
    BY <1>1, <2>2
  <2>4. R # {}
    <3>1. ASSUME R = {} PROVE FALSE
      <4>1. Cardinality(R) = 0
        BY <3>1, FS_EmptySet
      <4>2. [i \in 1 .. 0 |-> 0] \in [1 .. 0 -> R] /\ Sorted([i \in 1 .. 0 |-> 0], 0)
        BY DEF Sorted
      <4>3. QED
        BY <2>2, <4>1, <4>2
    <3>2. QED
      BY <3>1
  <2>5. PICK a \in R : \A k \in R \ {a} : Before(a, k)
    <3>1. CASE \E k \in R : IsNamed(k)
      <4> DEFINE T == {k \in R : IsNamed(k)}
      <4>1. T \in SUBSET Nat /\ T # {}
        BY <3>1
      <4>2. PICK a \in T : \A k \in T : a <= k
        BY <4>1, LeastNatural
      <4>3. QED
        BY <4>1, <4>2 DEF Before
    <3>2. CASE ~\E k \in R : IsNamed(k)
      <4>1. PICK a \in R : \A k \in R : a <= k
        BY <2>4, LeastNatural
      <4>2. \A k \in R : IsNamed(a) = IsNamed(k)
        BY <3>2 DEF IsNamed
      <4>3. QED
        BY <4>1, <4>2 DEF Before
    <3>3. QED
      BY <3>1, <3>2
  <2> DEFINE Q == R \ {a}
  <2>6. Cardinality(Q) = n - 1 /\ n - 1 \in Nat
    <3>1. Cardinality(Q) = n - 1
      BY <2>2, <2>3, <2>5, FS_RemoveElement
    <3>2. QED
      BY <1>1, <3>1
  <2>7. Listed(Q)
    <3>1. Cardinality(Q) \notin sizes
      <4> HIDE DEF sizes
      <4> QED
        BY <2>1, <2>3, <2>6
    <3>2. Q \in SUBSET S
      OBVIOUS
    <3> HIDE DEF Listed, Q
    <3>3. QED
      BY <3>1, <3>2
  <2>8. PICK s \in [1 .. n - 1 -> Q] : Sorted(s, n - 1)
    BY <2>6, <2>7
  <2> DEFINE r == [i \in 1 .. n |-> IF i = 1 THEN a ELSE s[i - 1]]
  <2>9. \A i \in 1 .. n : i # 1 => i - 1 \in 1 .. n - 1
    BY <2>3
  <2>10. r \in [1 .. n -> R]
    BY <2>5, <2>8, <2>9
  <2>11. ASSUME NEW i \in 1 .. n, NEW j \in 1 .. n, i < j PROVE Before(r[i], r[j])
    <3>1. j # 1 /\ j - 1 \in 1 .. n - 1 /\ r[j] = s[j - 1] /\ s[j - 1] \in R \ {a}
      BY <2>3, <2>8, <2>9, <2>11
    <3>2. CASE i = 1
      BY <2>5, <3>1, <3>2
    <3>3. CASE i # 1
      <4>1. r[i] = s[i - 1] /\ i - 1 \in 1 .. n - 1 /\ i - 1 < j - 1
        BY <2>3, <2>9, <2>11, <3>1, <3>3
      <4> HIDE DEF r
      <4>2. QED
        BY <2>8, <3>1, <4>1 DEF Sorted
    <3>4. QED
      BY <3>2, <3>3
  <2>12. Listed(R)
    <3> HIDE DEF r
    <3> QED
      BY <2>2, <2>10, <2>11 DEF Sorted
  <2>13. QED
    BY <2>2, <2>12
<1>3. S \in SUBSET S /\ sizes = {}
  BY <1>2
<1>4. QED
  BY <1>3

\* The rows hold means, as columns and as centroids.
RowsTyped == /\ rows \in [Live -> Row]
             /\ Live \subseteq ClusterIds
             /\ \A c \in Live : rows[c].centroid \in Means

\* get_clusters_for_owner returns live clusters of the owner.
LEMMA ListTyped ==
  ASSUME RowsTyped, NEW o \in Owners
  PROVE  /\ ClustersOf(o) \in Seq(Known)
         /\ \A i \in DOMAIN ClustersOf(o) : Owned(ClustersOf(o)[i].id, o)
<1> DEFINE mine == {c \in Live : rows[c].owner = o}
           n    == Cardinality(mine)
           ids  == CHOOSE s \in [1 .. n -> mine] :
                     \A i, j \in 1 .. n : i < j => Before(s[i], s[j])
           Entry(c) == [id |-> c, named |-> IsNamed(c), samples |-> rows[c].samples,
                        centroid |-> rows[c].centroid]
<1>1. mine \in SUBSET Nat /\ IsFiniteSet(mine)
  BY IdsAssumption, FiniteAssumption, FS_Subset DEF RowsTyped
<1>2. n \in Nat
  BY <1>1, FS_CardinalityType
<1>3. ids \in [1 .. n -> mine]
  <2> HIDE DEF mine
  <2>1. \E s \in [1 .. n -> mine] : \A i, j \in 1 .. n : i < j => Before(s[i], s[j])
    BY <1>1, SortedExists DEF Sorted
  <2>2. QED
    BY <2>1
<1>4. ClustersOf(o) = [i \in 1 .. n |-> Entry(ids[i])]
  BY DEF ClustersOf, Before
<1> HIDE DEF ids, n
<1>5. \A c \in mine : Entry(c) \in Known
  BY DEF RowsTyped, Known, Row, IsNamed
<1>6. ClustersOf(o) \in [1 .. n -> Known]
  <2> HIDE DEF Entry, mine
  <2> QED
    BY <1>3, <1>4, <1>5
<1>7. ClustersOf(o) \in Seq(Known) /\ DOMAIN ClustersOf(o) = 1 .. n
  BY <1>2, <1>6
<1>8. \A i \in 1 .. n : ClustersOf(o)[i].id = ids[i] /\ ids[i] \in mine
  BY <1>3, <1>4
<1>9. QED
  BY <1>7, <1>8 DEF Owned

(***************************************************************************)
(* Frames.                                                                 *)
(***************************************************************************)

\* frame_indices picks at least one frame, and only frames the worker uploaded.
LEMMA FrameFacts ==
  /\ Len(FrameIndices) \in Nat \ {0} /\ DOMAIN FrameIndices = 1 .. Len(FrameIndices)
  /\ \A k \in DOMAIN FrameIndices : FrameIndices[k] \in 0 .. Count - 1
<1> DEFINE n == (Count + Stride - 1) \div Stride
<1>1. Stride \in Nat \ {0} /\ Count \in Nat \ {0}
  <2>1. CASE MaxFrames = 0 \/ Count <= MaxFrames
    BY <2>1, SamplingAssumption DEF Stride
  <2>2. CASE ~(MaxFrames = 0 \/ Count <= MaxFrames)
    <3>1. MaxFrames \in Nat \ {0} /\ Count \in Nat /\ Count > MaxFrames
      BY <2>2, SamplingAssumption
    <3>2. Count + MaxFrames - 1 \in Nat /\ Count + MaxFrames - 1 >= MaxFrames
      BY <3>1
    <3>3. (Count + MaxFrames - 1) \div MaxFrames \in Nat \ {0}
      BY <3>1, <3>2
    <3>4. QED
      BY <2>2, <3>3, SamplingAssumption DEF Stride
  <2>3. QED
    BY <2>1, <2>2
<1>2. n \in Nat \ {0} /\ n * Stride <= Count + Stride - 1
  <2>1. Count + Stride - 1 \in Nat /\ Count + Stride - 1 >= Stride
    BY <1>1
  <2>2. QED
    BY <1>1, <2>1
<1>3. FrameIndices = [k \in 1 .. n |-> (k - 1) * Stride]
  BY DEF FrameIndices
<1> HIDE DEF n
<1>4. ASSUME NEW k \in 1 .. n PROVE (k - 1) * Stride \in 0 .. Count - 1
  <2>1. k - 1 \in Nat /\ (k - 1) * Stride \in Nat
    BY <1>1, <1>2
  <2>2. k * Stride <= n * Stride
    BY <1>1, <1>2, Scale
  <2>3. k * Stride = (k - 1) * Stride + Stride /\ k * Stride \in Nat /\ n * Stride \in Nat
    BY <1>1, <1>2
  <2>4. QED
    BY <1>1, <1>2, <2>1, <2>2, <2>3
<1>5. FrameIndices \in [1 .. n -> Nat]
  BY <1>3, <1>4
<1>6. Len(FrameIndices) = n /\ DOMAIN FrameIndices = 1 .. n
  BY <1>2, <1>5
<1>7. QED
  BY <1>2, <1>3, <1>4, <1>6

(***************************************************************************)
(* The invariant.                                                          *)
(***************************************************************************)

\* A sample to append.
Item == [cluster : ClusterIds, t : SampleTimes, embedding : Embeddings]

\* The types of the locals.
TaskRecord == [pc : {"idle", "frame", "append", "drift"},
               owner : Owners \cup {None}, stream : Streams \cup {None},
               clusters : Seq(Known), at : Nat, face : Nat,
               items : Seq(Item), drift : Seq(ClusterIds \X Means)]

\* Somebody in the list passes for the face.
PassedBy(e, cs) == \E i \in DOMAIN cs : Passes(e, cs[i])

\* The locals of a run are well typed, name only ids that were handed out, and the
\* face that was assigned last passes for somebody in the list.
TaskOK(me, ids) ==
  /\ me \in TaskRecord
  /\ me.pc # "idle" => me.owner \in Owners
  /\ me.pc \in {"frame", "append"} => me.stream \in Streams
  /\ me.pc = "frame" => me.at \in DOMAIN FrameIndices
  /\ me.pc = "drift" => me.drift # <<>>
  /\ \A i \in DOMAIN me.clusters : me.clusters[i].id \in ids
  /\ \A i \in DOMAIN me.drift : me.drift[i][1] \in ids
  /\ me.pc = "frame" /\ me.items # <<>> => PassedBy(Last(me.items).embedding, me.clusters)

TasksOK == task \in [Workers -> TaskRecord] /\ \A w \in Workers : TaskOK(task[w], minted)

VideoOK == video \in [Streams \X (0 .. Count - 1) -> Seq(Embeddings)]

CentroidsOK == \A c \in Live : rows[c].centroid \in Means

EmbeddingOK == embedding \in [occ -> Embeddings]

\* The invariant: of the library, the stored and the remembered means, the
\* embeddings, the frames and the runs.
RecInv == LibraryInv /\ CentroidsOK /\ EmbeddingOK /\ VideoOK /\ TasksOK

\* An id that was handed out, of a cluster that is owner o's if it is there.
OwnedIn(ids, rs, c, o) == c \in ids /\ (c \in DOMAIN rs => rs[c].owner = o)

\* The people a run matches with and the people it will append samples of are
\* its owner's: append_stream_occurrences does not ask.
RunOwns(me, ids, rs) ==
  /\ \A i \in DOMAIN me.clusters : OwnedIn(ids, rs, me.clusters[i].id, me.owner)
  /\ \A i \in DOMAIN me.items : OwnedIn(ids, rs, me.items[i].cluster, me.owner)

RunsOwn == \A w \in Workers : RunOwns(task[w], minted, rows)

\* Ids that are added take nothing from what a run knows.
LEMMA TaskGrows ==
  ASSUME NEW me, NEW a, NEW b, a \subseteq b, TaskOK(me, a)
  PROVE  TaskOK(me, b)
BY DEF TaskOK

\* A thread without a request is well typed.
LEMMA IdleOK == \A ids : TaskOK(Idle, ids)
BY DEF TaskOK, Idle, TaskRecord

\* Only one run takes a step.
LEMMA OneRun ==
  ASSUME TasksOK, minted \subseteq minted', NEW w \in Workers, NEW tk,
         task' = [task EXCEPT ![w] = tk], TaskOK(tk, minted')
  PROVE  TasksOK'
<1>1. task' \in [Workers -> TaskRecord]
  BY DEF TasksOK, TaskOK
<1>2. ASSUME NEW q \in Workers PROVE TaskOK(task'[q], minted')
  <2>1. CASE q = w
    BY <2>1 DEF TasksOK
  <2>2. CASE q # w
    <3>1. task'[q] = task[q] /\ TaskOK(task[q], minted)
      BY <2>2 DEF TasksOK
    <3>2. QED
      BY <3>1, TaskGrows
  <2>3. QED
    BY <2>1, <2>2
<1>3. QED
  BY <1>1, <1>2 DEF TasksOK

\* Steps that leave the runs alone.
LEMMA NoRun ==
  ASSUME TasksOK, minted \subseteq minted', task' = task
  PROVE  TasksOK'
BY TaskGrows DEF TasksOK

\* The face that a run looks at is one of the frame's.
LEMMA ShownFacts ==
  ASSUME VideoOK, NEW me, NEW ids, TaskOK(me, ids), me.pc = "frame"
  PROVE  /\ Shown(me) \in Seq(Embeddings)
         /\ me.face < Len(Shown(me)) => Shown(me)[me.face + 1] \in Embeddings
         /\ FrameTime(FrameIndices[me.at]) \in SampleTimes
<1>1. /\ me.at \in DOMAIN FrameIndices /\ me.stream \in Streams /\ me.face \in Nat
  BY DEF TaskOK, TaskRecord
<1>2. FrameIndices[me.at] \in 0 .. Count - 1
  BY <1>1, FrameFacts
<1>3. Shown(me) \in Seq(Embeddings)
  BY <1>1, <1>2 DEF VideoOK, Shown
<1>4. FrameTime(FrameIndices[me.at]) \in SampleTimes
  BY <1>1, RecordedAssumption
<1>5. QED
  BY <1>1, <1>3, <1>4

\* A face that was matched, or made a new person.
LEMMA AssignedOK ==
  ASSUME VideoOK, NEW me, NEW old, NEW ids, old \subseteq ids, TaskOK(me, old), me.pc = "frame",
         NEW c \in ClusterIds \cap ids, NEW known \in Seq(Known),
         \A i \in DOMAIN known : known[i].id \in ids,
         NEW v \in Means, NEW e \in Embeddings, PassedBy(e, known)
  PROVE  TaskOK(Assigned(me, c, known, v, e), ids)
<1> DEFINE new == Assigned(me, c, known, v, e)
           item == [cluster |-> c, t |-> FrameTime(FrameIndices[me.at]), embedding |-> e]
           moved == IF \E i \in DOMAIN me.drift : me.drift[i][1] = c
                    THEN [i \in DOMAIN me.drift |->
                            IF me.drift[i][1] = c THEN <<c, v>> ELSE me.drift[i]]
                    ELSE Append(me.drift, <<c, v>>)
<1>1. me \in TaskRecord
  BY DEF TaskOK
<1>2. new = [me EXCEPT !.face = me.face + 1, !.clusters = known,
                       !.items = Append(me.items, item), !.drift = moved]
  BY DEF Assigned
<1>3. item \in Item
  BY ShownFacts DEF Item
<1>4. moved \in Seq(ClusterIds \X Means)
  <2>1. me.drift \in Seq(ClusterIds \X Means)
    BY <1>1 DEF TaskRecord
  <2>2. <<c, v>> \in ClusterIds \X Means
    OBVIOUS
  <2>3. CASE \E i \in DOMAIN me.drift : me.drift[i][1] = c
    <3>1. moved = [i \in 1 .. Len(me.drift) |->
                     IF me.drift[i][1] = c THEN <<c, v>> ELSE me.drift[i]]
      <4>1. moved = [i \in DOMAIN me.drift |->
                       IF me.drift[i][1] = c THEN <<c, v>> ELSE me.drift[i]]
        BY <2>3, Zenon
      <4>2. DOMAIN me.drift = 1 .. Len(me.drift)
        BY <2>1
      <4> HIDE DEF moved
      <4>3. QED
        BY <4>1, <4>2, Zenon
    <3>2. moved \in [1 .. Len(me.drift) -> ClusterIds \X Means] /\ Len(me.drift) \in Nat
      BY <2>1, <2>2, <3>1
    <3> HIDE DEF moved
    <3>3. QED
      BY <3>2
  <2>4. CASE ~\E i \in DOMAIN me.drift : me.drift[i][1] = c
    <3>1. moved = Append(me.drift, <<c, v>>)
      BY <2>4
    <3> HIDE DEF moved
    <3>2. QED
      BY <2>1, <2>2, <3>1
  <2>5. QED
    BY <2>3, <2>4
<1>5. \A i \in DOMAIN moved : moved[i][1] \in ids
  <2>1. me.drift \in Seq(ClusterIds \X Means) /\ \A i \in DOMAIN me.drift : me.drift[i][1] \in ids
    BY <1>1 DEF TaskRecord, TaskOK
  <2>2. CASE \E i \in DOMAIN me.drift : me.drift[i][1] = c
    BY <2>1, <2>2
  <2>3. CASE ~\E i \in DOMAIN me.drift : me.drift[i][1] = c
    <3>1. moved = Append(me.drift, <<c, v>>)
      BY <2>3
    <3>2. \A i \in DOMAIN moved : \/ i \in DOMAIN me.drift /\ moved[i] = me.drift[i]
                                 \/ moved[i] = <<c, v>>
      BY <2>1, <3>1
    <3>3. QED
      BY <2>1, <3>2
  <2>4. QED
    BY <2>2, <2>3
<1> HIDE DEF item, moved
<1>6. new.items \in Seq(Item) /\ Last(new.items) = item
  <2>1. me.items \in Seq(Item) /\ new.items = Append(me.items, item)
    BY <1>1, <1>2 DEF TaskRecord
  <2>2. QED
    BY <1>3, <2>1 DEF Last
<1>7. new \in TaskRecord
  <2>1. /\ me.face + 1 \in Nat
        /\ Append(me.items, item) \in Seq(Item)
    BY <1>1, <1>3 DEF TaskRecord
  <2>2. QED
    BY <1>1, <1>2, <1>4, <2>1 DEF TaskRecord
<1>8. item.embedding = e
  BY DEF item
<1>9. /\ new.pc = me.pc /\ new.owner = me.owner /\ new.stream = me.stream /\ new.at = me.at
      /\ new.clusters = known /\ new.drift = moved
  BY <1>1, <1>2 DEF TaskRecord
<1> HIDE DEF new
<1>10. QED
  <2>1. TaskOK(new, ids)
    BY <1>5, <1>6, <1>7, <1>8, <1>9 DEF TaskOK
  <2>2. QED
    BY <2>1 DEF new

(***************************************************************************)
(* The transactions.                                                       *)
(***************************************************************************)

\* The part of it on the tables.
TablesOK == LibraryInv /\ CentroidsOK

\* What the tables promise, in parts.
LEMMA TablesFacts ==
  ASSUME TablesOK
  PROVE  /\ RowsTyped /\ rows \in [Live -> Row]
         /\ Live \subseteq minted /\ minted \subseteq ClusterIds
         /\ occ \subseteq Sample
BY DEF TablesOK, LibraryInv, TypeInv, TypeOK, RowsTyped, CentroidsOK

\* The other columns keep the vectors.
LEMMA CountKeepsCentroid ==
  ASSUME rows \in [Live -> Row], NEW os, NEW C, NEW c \in Live
  PROVE  Recount(rows, os, C)[c].centroid = rows[c].centroid
BY DEF Recount, Row

\* upsert_cluster keeps the tables.
LEMMA UpsertKeeps ==
  ASSUME Vectors \subseteq Centroids, TablesOK, NEW o \in Owners, NEW e \in Embeddings, NEW id,
         Upsert(o, e, id)
  PROVE  TablesOK' /\ occ' = occ /\ minted' = minted \cup {id} /\ id \in ClusterIds
<1>1. id \in ClusterIds \ minted /\ e \in Means /\ e \in Centroids
  BY EmbeddingIsMean DEF Upsert, Means, Directed
<1>2. UpsertAny
  BY <1>1 DEF UpsertAny
<1>3. LibraryInv'
  BY <1>2, LibraryInvStep DEF LibraryNext, TablesOK
<1>4. id \notin Live
  BY <1>1, TablesFacts
<1>5. Live' = Live \cup {id}
  BY DEF Upsert, Live
<1>6. \A c \in Live' : rows'[c].centroid \in Means
  BY <1>1, <1>4, <1>5 DEF Upsert, TablesOK, CentroidsOK
<1>7. QED
  BY <1>1, <1>3, <1>6 DEF TablesOK, CentroidsOK, Upsert

\* append_stream_occurrences keeps the tables.
LEMMA AppendKeepsTables ==
  ASSUME TablesOK, NEW o \in Owners, NEW s \in Streams,
         NEW items \in SUBSET (ClusterIds \X SampleTimes), AppendSamples(o, s, items),
         \A n \in items : Owned(n[1], o)
  PROVE  TablesOK' /\ minted' = minted /\ occ' = occ \cup Fresh(o, s, items)
<1>1. AppendAny
  BY DEF AppendAny
<1>2. LibraryInv'
  BY <1>1, LibraryInvStep DEF LibraryNext, TablesOK
<1>3. \E C : rows' = Recount(rows, occ', C)
  BY DEF AppendSamples
<1>4. Live' = Live
  BY <1>3 DEF Recount, Live
<1>5. CentroidsOK'
  BY <1>3, <1>4, CountKeepsCentroid, TablesFacts DEF TablesOK, CentroidsOK
<1>6. QED
  BY <1>2, <1>5 DEF TablesOK, AppendSamples

\* update_cluster_centroid keeps the tables when it writes a mean.
LEMMA CentroidKeeps ==
  ASSUME Vectors \subseteq Centroids, TablesOK, NEW c \in ClusterIds, NEW o \in Owners,
         NEW v \in Means, UpdateCentroid(c, o, v)
  PROVE  TablesOK' /\ minted' = minted /\ occ' = occ
<1>1. v \in Centroids
  BY DEF Means, Directed
<1>2. CentroidAny
  BY <1>1 DEF CentroidAny
<1>3. LibraryInv'
  BY <1>2, LibraryInvStep DEF LibraryNext, TablesOK
<1>4. rows \in [Live -> Row]
  BY TablesFacts
<1>5. Live' = Live /\ \A k \in Live : rows'[k] = rows[k] \/ rows'[k].centroid = v
  BY <1>4 DEF UpdateCentroid, Live, Row
<1>6. CentroidsOK'
  BY <1>5 DEF TablesOK, CentroidsOK
<1>7. QED
  BY <1>3, <1>6 DEF TablesOK, UpdateCentroid

\* rename_cluster keeps the tables.
LEMMA RenameKeeps ==
  ASSUME TablesOK, NEW c \in ClusterIds, NEW o \in Owners, NEW n \in Names \cup {NoName},
         Rename(c, o, n)
  PROVE  TablesOK' /\ minted' = minted /\ occ' = occ
<1>1. RenameAny
  BY DEF RenameAny
<1>2. LibraryInv'
  BY <1>1, LibraryInvStep DEF LibraryNext, TablesOK
<1>3. rows \in [Live -> Row]
  BY TablesFacts
<1>4. Live' = Live /\ \A k \in Live : rows'[k].centroid = rows[k].centroid
  BY <1>3 DEF Rename, Live, Row
<1>5. CentroidsOK'
  BY <1>4 DEF TablesOK, CentroidsOK
<1>6. QED
  BY <1>2, <1>5 DEF TablesOK, Rename

\* delete_cluster keeps the tables.
LEMMA DeleteKeeps ==
  ASSUME TablesOK, NEW c \in ClusterIds, NEW o \in Owners, Delete(c, o)
  PROVE  TablesOK' /\ minted' = minted /\ occ' \subseteq occ
<1>1. DeleteAny
  BY DEF DeleteAny
<1>2. LibraryInv'
  BY <1>1, LibraryInvStep DEF LibraryNext, TablesOK
<1>3. Live' \subseteq Live /\ \A k \in Live' : rows'[k] = rows[k]
  BY DEF Delete, Without, Live
<1>4. CentroidsOK'
  BY <1>3 DEF TablesOK, CentroidsOK
<1>5. QED
  BY <1>2, <1>4 DEF TablesOK, Delete, Referenced

\* merge_clusters keeps the tables.
LEMMA MergeKeeps ==
  ASSUME TablesOK, NEW o \in Owners, NEW target \in ClusterIds, NEW sources \in SUBSET ClusterIds,
         Merge(o, target, sources)
  PROVE  TablesOK' /\ minted' = minted
<1>1. MergeAny
  BY DEF MergeAny
<1>2. LibraryInv'
  BY <1>1, LibraryInvStep DEF LibraryNext, TablesOK
<1>3. rows \in [Live -> Row]
  BY TablesFacts
<1>4. PICK os : rows' = Without(Recount(rows, os, {target}), sources)
  BY DEF Merge
<1>5. Live' \subseteq Live /\ \A k \in Live' : rows'[k] = Recount(rows, os, {target})[k]
  BY <1>4 DEF Without, Recount, Live
<1>6. CentroidsOK'
  BY <1>3, <1>5, CountKeepsCentroid DEF TablesOK, CentroidsOK
<1>7. QED
  BY <1>2, <1>6 DEF TablesOK, Merge

(***************************************************************************)
(* The steps of a run.                                                     *)
(***************************************************************************)

\* A table that stays keeps what is known of it.
LEMMA TablesStay ==
  ASSUME TablesOK, UNCHANGED libvars
  PROVE  TablesOK' /\ minted' = minted /\ occ' = occ
<1>1. LibraryInv'
  BY LibraryInvStep DEF TablesOK
<1>2. QED
  BY <1>1 DEF TablesOK, CentroidsOK, Live, libvars

\* The invariant by the variables its parts are about.
LEMMA RecInvParts ==
  /\ RecInv <=> TablesOK /\ EmbeddingOK /\ VideoOK /\ TasksOK
  /\ RecInv' <=> TablesOK' /\ EmbeddingOK' /\ VideoOK' /\ TasksOK'
BY DEF RecInv, TablesOK

\* The frames in the object store are not written.
LEMMA VideoStays == ASSUME VideoOK, video' = video PROVE VideoOK'
BY DEF VideoOK

\* Samples that stay keep their embedding.
LEMMA EmbeddingStays == ASSUME EmbeddingOK, embedding' = embedding, occ' = occ PROVE EmbeddingOK'
BY DEF EmbeddingOK

\* A request reads the clusters of its owner.
LEMMA StartInferKeeps ==
  ASSUME RecInv, NEW w \in Workers, NEW o \in Owners, NEW s \in Streams, StartInfer(w, o, s)
  PROVE  RecInv'
<1> DEFINE new == [Idle EXCEPT !.pc = "frame", !.owner = o, !.stream = s,
                               !.clusters = ClustersOf(o)]
<1>1. TablesOK /\ EmbeddingOK /\ VideoOK /\ TasksOK
  BY RecInvParts
<1>2. /\ UNCHANGED libvars /\ video' = video /\ embedding' = embedding
      /\ task' = [task EXCEPT ![w] = new]
  BY DEF StartInfer, Become
<1>3. TablesOK' /\ minted' = minted /\ occ' = occ
  BY <1>1, <1>2, TablesStay
<1>4. /\ ClustersOf(o) \in Seq(Known)
      /\ \A i \in DOMAIN ClustersOf(o) : ClustersOf(o)[i].id \in minted
  BY <1>1, ListTyped, TablesFacts DEF Owned
<1>5. TaskOK(new, minted)
  <2>1. new \in TaskRecord /\ new.pc = "frame" /\ new.owner = o /\ new.stream = s /\ new.at = 1
        /\ new.clusters = ClustersOf(o) /\ new.items = <<>> /\ new.drift = <<>>
    <3>1. Idle \in TaskRecord /\ Idle.at = 1 /\ Idle.items = <<>> /\ Idle.drift = <<>>
      BY IdleOK DEF TaskOK, Idle
    <3>2. "frame" \in {"idle", "frame", "append", "drift"} /\ o \in Owners \cup {None}
          /\ s \in Streams \cup {None} /\ ClustersOf(o) \in Seq(Known)
      BY <1>4
    <3>3. QED
      BY <3>1, <3>2 DEF TaskRecord
  <2>2. 1 \in DOMAIN FrameIndices
    BY FrameFacts
  <2> HIDE DEF new
  <2>3. QED
    BY <1>4, <2>1, <2>2 DEF TaskOK
<1> HIDE DEF new
<1>6. TasksOK'
  BY <1>1, <1>2, <1>3, <1>5, OneRun
<1>7. QED
  BY <1>1, <1>2, <1>3, <1>6, RecInvParts, VideoStays, EmbeddingStays

\* A match moves the mean that the run remembers, and the mean still passes for the face.
LEMMA FaceKnownKeeps ==
  ASSUME RecInv, NEW w \in Workers, FaceKnown(w)
  PROVE  RecInv'
<1> DEFINE me == task[w]
           e  == Shown(me)[me.face + 1]
           b  == MatchCluster(e, me.clusters)
           c  == me.clusters[b]
           v  == MergeCentroid(c.centroid, c.samples, e)
           known == [i \in DOMAIN me.clusters |->
                       IF me.clusters[i].id = c.id
                       THEN [c EXCEPT !.centroid = v, !.samples = @ + 1]
                       ELSE me.clusters[i]]
<1>1. TablesOK /\ EmbeddingOK /\ VideoOK /\ TasksOK
  BY RecInvParts
<1>2. /\ me.pc = "frame" /\ me.face < Len(Shown(me)) /\ b # 0
      /\ task' = [task EXCEPT ![w] = Assigned(me, c.id, known, v, e)]
      /\ UNCHANGED libvars /\ video' = video /\ embedding' = embedding
  BY DEF FaceKnown, Become
<1>3. TablesOK' /\ minted' = minted /\ occ' = occ
  BY <1>1, <1>2, TablesStay
<1>4. TaskOK(me, minted) /\ me.clusters \in Seq(Known)
  BY <1>1 DEF TasksOK, TaskOK, TaskRecord
<1>5. e \in Embeddings
  BY <1>1, <1>2, <1>4, ShownFacts
<1> HIDE DEF me, e
<1>6. b \in 1 .. Len(me.clusters) /\ Passes(e, c)
  <2>1. IsMatch(e, me.clusters, Len(me.clusters), b) /\ Len(me.clusters) \in Nat
    BY <1>4, <1>5, MatchFacts
  <2>2. QED
    BY <1>2, <2>1 DEF IsMatch
<1> HIDE DEF b
<1>7. c \in Known /\ c.id \in minted
  <2>1. DOMAIN me.clusters = 1 .. Len(me.clusters)
    BY <1>4
  <2>2. QED
    BY <1>4, <1>6, <2>1 DEF TaskOK
<1> HIDE DEF c
<1>8. v \in Means /\ c.samples \in Nat /\ c.centroid \in Means
  BY <1>5, <1>7, MergedMean DEF Known
<1>9. /\ [c EXCEPT !.centroid = v, !.samples = @ + 1] \in Known
      /\ [c EXCEPT !.centroid = v, !.samples = @ + 1].id = c.id
      /\ Passes(e, [c EXCEPT !.centroid = v, !.samples = @ + 1])
  <2> DEFINE d == [c EXCEPT !.centroid = v, !.samples = @ + 1]
             bar == IF c.named THEN MatchThreshold ELSE UnknownThreshold
  <2> HIDE DEF v
  <2>1. d \in Known /\ d.id = c.id /\ d.named = c.named /\ d.centroid = v
    <3>1. c.samples + 1 \in Nat
      BY <1>8
    <3>2. d = [c EXCEPT !.centroid = v, !.samples = c.samples + 1]
      OBVIOUS
    <3>3. QED
      BY <1>7, <1>8, <3>1, <3>2 DEF Known
  <2>2. bar \in 0 .. 10 /\ Similar(e, c.centroid, bar)
    BY <1>6, ThresholdAssumption DEF Passes
  <2>3. Similar(e, v, bar)
    BY <1>5, <1>8, <2>2, MergedSimilar DEF v
  <2> HIDE DEF d
  <2>4. Passes(e, d)
    BY <2>1, <2>3 DEF Passes
  <2>5. QED
    BY <2>1, <2>4 DEF d
<1> HIDE DEF v
<1> DEFINE d == [c EXCEPT !.centroid = v, !.samples = @ + 1]
<1>10. /\ known = [i \in 1 .. Len(me.clusters) |->
                     IF me.clusters[i].id = c.id THEN d ELSE me.clusters[i]]
       /\ Len(me.clusters) \in Nat
  <2>1. DOMAIN me.clusters = 1 .. Len(me.clusters) /\ Len(me.clusters) \in Nat
    BY <1>4
  <2>2. QED
    BY <2>1, Zenon
<1>11. /\ d \in Known /\ d.id = c.id /\ Passes(e, d)
  BY <1>9
<1> HIDE DEF known, d
<1>12. known \in Seq(Known) /\ DOMAIN known = 1 .. Len(me.clusters)
  <2>1. \A i \in 1 .. Len(me.clusters) : me.clusters[i] \in Known
    BY <1>4
  <2>2. known \in [1 .. Len(me.clusters) -> Known]
    BY <1>10, <1>11, <2>1
  <2>3. QED
    BY <1>10, <2>2
<1>13. \A i \in DOMAIN known : known[i].id \in minted
  <2>1. \A i \in 1 .. Len(me.clusters) : me.clusters[i].id \in minted
    BY <1>4 DEF TaskOK
  <2>2. QED
    BY <1>7, <1>10, <1>11, <1>12, <2>1
<1>14. PassedBy(e, known)
  <2>1. b \in DOMAIN known /\ known[b] = d
    BY <1>6, <1>10, <1>12 DEF c
  <2>2. QED
    BY <1>11, <2>1 DEF PassedBy
<1>15. c.id \in ClusterIds \cap minted
  BY <1>7 DEF Known
<1>16. TaskOK(Assigned(me, c.id, known, v, e), minted)
  BY <1>1, <1>2, <1>4, <1>5, <1>8, <1>12, <1>13, <1>14, <1>15, AssignedOK
<1>17. TasksOK'
  BY <1>1, <1>2, <1>3, <1>16, OneRun
<1>18. QED
  BY <1>1, <1>2, <1>3, <1>17, RecInvParts, VideoStays, EmbeddingStays

\* A face without a match becomes a person, who passes for it.
LEMMA FaceUnknownKeeps ==
  ASSUME Vectors \subseteq Centroids, RecInv, NEW w \in Workers, FaceUnknown(w)
  PROVE  RecInv'
<1> DEFINE me == task[w]
           e  == Shown(me)[me.face + 1]
           id == Cardinality(minted) + 1
           row == [id |-> id, named |-> FALSE, samples |-> 0, centroid |-> e]
           known == Append(me.clusters, row)
<1>1. TablesOK /\ EmbeddingOK /\ VideoOK /\ TasksOK
  BY RecInvParts
<1>2. /\ me.pc = "frame" /\ me.face < Len(Shown(me))
      /\ Upsert(me.owner, e, id)
      /\ task' = [task EXCEPT ![w] = Assigned(me, id, known, e, e)]
      /\ video' = video /\ embedding' = embedding
  BY DEF FaceUnknown, Become
<1>3. TaskOK(me, minted) /\ me.clusters \in Seq(Known) /\ me.owner \in Owners
  BY <1>1, <1>2 DEF TasksOK, TaskOK, TaskRecord
<1>4. e \in Embeddings
  BY <1>1, <1>2, <1>3, ShownFacts
<1> HIDE DEF me, e, id
<1>5. TablesOK' /\ occ' = occ /\ minted' = minted \cup {id} /\ id \in ClusterIds
  BY <1>1, <1>2, <1>3, <1>4, UpsertKeeps
<1>6. row \in Known /\ e \in Means
  BY <1>5, <1>4, EmbeddingIsMean DEF Known
<1>7. row.id = id /\ Passes(e, row)
  <2>1. Similar(e, e, UnknownThreshold)
    BY <1>6, SimilarSelf, ThresholdAssumption DEF Means, Directed
  <2>2. QED
    BY <2>1 DEF Passes
<1> HIDE DEF row
<1>8. /\ known \in Seq(Known) /\ Len(known) \in DOMAIN known /\ known[Len(known)] = row
      /\ \A i \in DOMAIN known : (i \in DOMAIN me.clusters /\ known[i] = me.clusters[i])
                                 \/ known[i] = row
  BY <1>3, <1>6
<1> HIDE DEF known
<1>9. \A i \in DOMAIN known : known[i].id \in minted'
  BY <1>5, <1>3, <1>7, <1>8 DEF TaskOK
<1>10. PassedBy(e, known)
  BY <1>7, <1>8 DEF PassedBy
<1>11. TaskOK(Assigned(me, id, known, e, e), minted')
  BY <1>1, <1>2, <1>5, <1>3, <1>4, <1>6, <1>8, <1>9, <1>10, AssignedOK
<1>12. TasksOK'
  BY <1>1, <1>2, <1>5, <1>11, OneRun DEF me
<1>13. QED
  BY <1>1, <1>2, <1>5, <1>12, RecInvParts, VideoStays, EmbeddingStays

\* A run goes to the next frame, or to its append.
LEMMA NextFrameKeeps ==
  ASSUME RecInv, NEW w \in Workers, NextFrame(w)
  PROVE  RecInv'
<1> DEFINE me == task[w]
           new == IF me.at = Len(FrameIndices) THEN [me EXCEPT !.pc = "append", !.clusters = <<>>]
                  ELSE [me EXCEPT !.at = @ + 1, !.face = 0]
<1>1. TablesOK /\ EmbeddingOK /\ VideoOK /\ TasksOK
  BY RecInvParts
<1>2. /\ me.pc = "frame" /\ task' = [task EXCEPT ![w] = new]
      /\ UNCHANGED libvars /\ video' = video /\ embedding' = embedding
  BY DEF NextFrame, Become
<1>3. TablesOK' /\ minted' = minted /\ occ' = occ
  BY <1>1, <1>2, TablesStay
<1>4. TaskOK(me, minted) /\ me \in TaskRecord
  BY <1>1 DEF TasksOK, TaskOK
<1> HIDE DEF me
<1>5. TaskOK(new, minted)
  <2>1. CASE me.at = Len(FrameIndices)
    <3>1. <<>> \in Seq(Known)
      OBVIOUS
    <3>2. /\ new \in TaskRecord /\ new.pc = "append" /\ new.clusters = <<>>
          /\ new.owner = me.owner /\ new.stream = me.stream /\ new.drift = me.drift
      BY <1>4, <2>1, <3>1 DEF TaskRecord
    <3> HIDE DEF new
    <3>3. QED
      BY <1>2, <1>4, <3>2 DEF TaskOK
  <2>2. CASE me.at # Len(FrameIndices)
    <3>1. /\ new \in TaskRecord /\ new.pc = me.pc /\ new.clusters = me.clusters
          /\ new.owner = me.owner /\ new.stream = me.stream /\ new.drift = me.drift
          /\ new.items = me.items /\ new.at = me.at + 1
      <4>1. me.at + 1 \in Nat
        BY <1>4 DEF TaskRecord
      <4>2. new = [me EXCEPT !.at = me.at + 1, !.face = 0]
        BY <2>2
      <4> HIDE DEF new
      <4>3. QED
        BY <1>4, <4>1, <4>2 DEF TaskRecord
    <3>2. new.at \in DOMAIN FrameIndices
      BY <1>2, <1>4, <2>2, <3>1, FrameFacts DEF TaskOK
    <3> HIDE DEF new
    <3>3. QED
      BY <1>2, <1>4, <3>1, <3>2 DEF TaskOK
  <2>3. QED
    BY <2>1, <2>2
<1> HIDE DEF new
<1>6. TasksOK'
  BY <1>1, <1>2, <1>3, <1>5, OneRun DEF me
<1>7. QED
  BY <1>1, <1>2, <1>3, <1>6, RecInvParts, VideoStays, EmbeddingStays

\* The item that a new sample comes from: the first of its cluster and tick.
FirstOf(its, x) ==
  its[CHOOSE i \in DOMAIN its :
        /\ <<its[i].cluster, its[i].t>> = <<x.cluster, x.t>>
        /\ \A j \in 1 .. i - 1 : <<its[j].cluster, its[j].t>> # <<x.cluster, x.t>>]

\* It is one of the items, and has the tick of the sample.
LEMMA FirstItem ==
  ASSUME NEW its \in Seq(Item), NEW o, NEW s,
         NEW x \in Fresh(o, s, {<<its[i].cluster, its[i].t>> : i \in DOMAIN its})
  PROVE  \E k \in DOMAIN its : FirstOf(its, x) = its[k] /\ its[k].t = x.t
<1> DEFINE key(i) == <<its[i].cluster, its[i].t>>
           same == {i \in DOMAIN its : key(i) = <<x.cluster, x.t>>}
<1>1. Len(its) \in Nat /\ DOMAIN its = 1 .. Len(its)
  OBVIOUS
<1>2. PICK k \in DOMAIN its : x.cluster = key(k)[1] /\ x.t = key(k)[2]
  BY DEF Fresh
<1>3. PICK i \in same : \A j \in same : i <= j
  <2>1. key(k) = <<x.cluster, x.t>>
    BY <1>2
  <2>2. same \in SUBSET Nat /\ same # {}
    BY <1>1, <2>1
  <2> HIDE DEF same
  <2>3. QED
    BY <2>2, LeastNatural
<1>4. i \in DOMAIN its /\ key(i) = <<x.cluster, x.t>>
  OBVIOUS
<1>5. ASSUME NEW j \in 1 .. i - 1 PROVE key(j) # <<x.cluster, x.t>>
  <2>1. j \in DOMAIN its /\ i \in Nat /\ j \in Nat /\ ~(i <= j)
    BY <1>1, <1>4
  <2>2. QED
    BY <1>3, <2>1
<1>6. \E h \in DOMAIN its : key(h) = <<x.cluster, x.t>>
                            /\ \A j \in 1 .. h - 1 : key(j) # <<x.cluster, x.t>>
  BY <1>4, <1>5
<1> DEFINE first == CHOOSE h \in DOMAIN its :
                      /\ key(h) = <<x.cluster, x.t>>
                      /\ \A j \in 1 .. h - 1 : key(j) # <<x.cluster, x.t>>
<1>7. first \in DOMAIN its /\ key(first) = <<x.cluster, x.t>>
  <2> HIDE DEF key
  <2> QED
    BY <1>6
<1>8. FirstOf(its, x) = its[first]
  BY DEF FirstOf
<1> HIDE DEF first
<1>9. first \in DOMAIN its /\ its[first].t = x.t
  BY <1>7
<1>10. QED
  BY <1>9, <1>8

\* What a run appends, it appends to its owner's people.
LEMMA AppendsToItsOwn ==
  ASSUME RunsOwn, NEW w \in Workers, NEW s,
         AppendSamples(task[w].owner, s,
           {<<task[w].items[i].cluster, task[w].items[i].t>> : i \in DOMAIN task[w].items})
  PROVE  \A n \in {<<task[w].items[i].cluster, task[w].items[i].t>> : i \in DOMAIN task[w].items} :
           Owned(n[1], task[w].owner)
<1> DEFINE me    == task[w]
           items == {<<me.items[i].cluster, me.items[i].t>> : i \in DOMAIN me.items}
<1>1. RunOwns(me, minted, rows)
  BY DEF RunsOwn
<1>2. \A n \in items : n[1] \in Live
  BY DEF AppendSamples
<1>3. ASSUME NEW i \in DOMAIN me.items PROVE Owned(me.items[i].cluster, me.owner)
  <2>1. <<me.items[i].cluster, me.items[i].t>> \in items
    OBVIOUS
  <2>2. me.items[i].cluster \in Live
    BY <1>2, <2>1
  <2>3. QED
    BY <1>1, <2>2 DEF RunOwns, OwnedIn, Owned, Live
<1>4. QED
  BY <1>3

\* Each appended sample has the embedding of an item.
LEMMA AppendRunKeeps ==
  ASSUME RecInv, RunsOwn, NEW w \in Workers, AppendRun(w)
  PROVE  RecInv'
<1> DEFINE me == task[w]
           items == {<<me.items[i].cluster, me.items[i].t>> : i \in DOMAIN me.items}
           new == IF me.drift = <<>> THEN Idle
                  ELSE [Idle EXCEPT !.pc = "drift", !.owner = me.owner, !.drift = me.drift]
<1>1. TablesOK /\ EmbeddingOK /\ VideoOK /\ TasksOK
  BY RecInvParts
<1>2. me.pc = "append" /\ video' = video
  BY DEF AppendRun
<1>3. /\ TaskOK(me, minted) /\ me \in TaskRecord /\ me.owner \in Owners /\ me.stream \in Streams
      /\ me.items \in Seq(Item) /\ me.drift \in Seq(ClusterIds \X Means)
  BY <1>1, <1>2 DEF TasksOK, TaskOK, TaskRecord
<1>4. items \in SUBSET (ClusterIds \X SampleTimes)
  <2>1. \A i \in DOMAIN me.items : me.items[i] \in Item
    BY <1>3
  <2>2. QED
    BY <2>1 DEF Item
<1>5. CASE /\ AppendSamples(me.owner, me.stream, items)
           /\ embedding' = [x \in occ' |-> IF x \in occ THEN embedding[x]
                                          ELSE FirstOf(me.items, x).embedding]
           /\ task' = [task EXCEPT ![w] = new]
  <2>1. TablesOK' /\ minted' = minted /\ occ' = occ \cup Fresh(me.owner, me.stream, items)
    BY <1>1, <1>3, <1>4, <1>5, AppendsToItsOwn, AppendKeepsTables
  <2>2. EmbeddingOK'
    <3>1. \A x \in occ : embedding[x] \in Embeddings
      BY <1>1 DEF EmbeddingOK
    <3>2. \A x \in Fresh(me.owner, me.stream, items) : FirstOf(me.items, x).embedding \in Embeddings
      <4> SUFFICES ASSUME NEW x \in Fresh(me.owner, me.stream, items)
                   PROVE  FirstOf(me.items, x).embedding \in Embeddings
        OBVIOUS
      <4>1. PICK k \in DOMAIN me.items : FirstOf(me.items, x) = me.items[k]
        BY <1>3, FirstItem
      <4>2. me.items[k] \in Item
        BY <1>3
      <4> HIDE DEF me
      <4>3. QED
        BY <4>1, <4>2 DEF Item
    <3> HIDE DEF items
    <3>3. QED
      BY <1>5, <2>1, <3>1, <3>2 DEF EmbeddingOK
  <2>3. TaskOK(new, minted)
    <3>1. CASE me.drift = <<>>
      BY <3>1, IdleOK
    <3>2. CASE me.drift # <<>>
      <4>1. /\ Idle \in TaskRecord /\ Idle.clusters = <<>>
            /\ "drift" \in {"idle", "frame", "append", "drift"} /\ me.owner \in Owners \cup {None}
        BY <1>3, IdleOK DEF TaskOK, Idle
      <4>2. new = [Idle EXCEPT !.pc = "drift", !.owner = me.owner, !.drift = me.drift]
        BY <3>2
      <4> HIDE DEF new
      <4>3. /\ new \in TaskRecord /\ new.pc = "drift" /\ new.owner = me.owner
            /\ new.drift = me.drift /\ new.clusters = <<>>
        BY <1>3, <4>1, <4>2 DEF TaskRecord
      <4>4. QED
        BY <1>3, <3>2, <4>3 DEF TaskOK
    <3>3. QED
      BY <3>1, <3>2
  <2> HIDE DEF new, items
  <2>4. TasksOK'
    BY <1>1, <1>5, <2>1, <2>3, OneRun
  <2>5. QED
    BY <1>1, <1>2, <2>1, <2>2, <2>4, RecInvParts, VideoStays
<1>6. CASE task' = [task EXCEPT ![w] = Idle] /\ UNCHANGED <<libvars, embedding>>
  <2>1. TablesOK' /\ minted' = minted /\ occ' = occ
    BY <1>1, <1>6, TablesStay
  <2>2. TasksOK'
    BY <1>1, <1>6, <2>1, IdleOK, OneRun
  <2>3. QED
    BY <1>1, <1>2, <1>6, <2>1, <2>2, RecInvParts, VideoStays, EmbeddingStays
<1>7. QED
  BY <1>5, <1>6 DEF AppendRun, Become, FirstOf

\* A run writes the mean it remembers.
LEMMA UpdateDriftKeeps ==
  ASSUME Vectors \subseteq Centroids, RecInv, NEW w \in Workers, UpdateDrift(w)
  PROVE  RecInv'
<1> DEFINE me == task[w]
           new == IF Len(me.drift) = 1 THEN Idle ELSE [me EXCEPT !.drift = Tail(@)]
<1>1. TablesOK /\ EmbeddingOK /\ VideoOK /\ TasksOK
  BY RecInvParts
<1>2. /\ me.pc = "drift" /\ video' = video /\ embedding' = embedding
      /\ UpdateCentroid(Head(me.drift)[1], me.owner, Head(me.drift)[2])
      /\ task' = [task EXCEPT ![w] = new]
  BY DEF UpdateDrift, Become
<1>3. /\ TaskOK(me, minted) /\ me \in TaskRecord /\ me.owner \in Owners
      /\ me.drift \in Seq(ClusterIds \X Means) /\ me.drift # <<>>
  BY <1>1, <1>2 DEF TasksOK, TaskOK, TaskRecord
<1> HIDE DEF me
<1>4. Head(me.drift)[1] \in ClusterIds /\ Head(me.drift)[2] \in Means
  <2>1. Head(me.drift) \in ClusterIds \X Means
    BY <1>3
  <2>2. QED
    BY <2>1
<1>5. TablesOK' /\ minted' = minted /\ occ' = occ
  BY <1>1, <1>2, <1>3, <1>4, CentroidKeeps
<1>6. TaskOK(new, minted)
  <2>1. CASE Len(me.drift) = 1
    BY <2>1, IdleOK
  <2>2. CASE Len(me.drift) # 1
    <3>1. /\ Tail(me.drift) \in Seq(ClusterIds \X Means) /\ Tail(me.drift) # <<>>
          /\ \A i \in DOMAIN Tail(me.drift) :
               i + 1 \in DOMAIN me.drift /\ Tail(me.drift)[i] = me.drift[i + 1]
      <4> DEFINE d == me.drift
                 L == Len(d)
      <4>1. d \in Seq(ClusterIds \X Means) /\ L \in Nat /\ L # 0 /\ L # 1 /\ DOMAIN d = 1 .. L
        BY <1>3, <2>2
      <4> HIDE DEF d
      <4>2. Tail(d) \in Seq(ClusterIds \X Means) /\ Len(Tail(d)) = L - 1
        BY <4>1
      <4>3. \A i \in DOMAIN Tail(d) : i + 1 \in DOMAIN d /\ Tail(d)[i] = d[i + 1]
        BY <4>1
      <4>4. Tail(d) # <<>>
        <5>1. L - 1 # 0
          BY <4>1
        <5>2. QED
          BY <4>2, <5>1
      <4>5. QED
        BY <4>2, <4>3, <4>4 DEF d
    <3>2. new = [me EXCEPT !.drift = Tail(me.drift)]
      BY <2>2
    <3> HIDE DEF new
    <3>3. /\ new \in TaskRecord /\ new.pc = "drift" /\ new.owner = me.owner
          /\ new.drift = Tail(me.drift) /\ new.clusters = me.clusters
      BY <1>2, <1>3, <3>1, <3>2 DEF TaskRecord
    <3>4. \A i \in DOMAIN new.drift : new.drift[i][1] \in minted
      BY <1>3, <3>1, <3>3 DEF TaskOK
    <3>5. QED
      BY <1>3, <3>1, <3>3, <3>4 DEF TaskOK
  <2>3. QED
    BY <2>1, <2>2
<1> HIDE DEF new
<1>7. TasksOK'
  BY <1>1, <1>2, <1>5, <1>6, OneRun DEF me
<1>8. QED
  BY <1>1, <1>2, <1>5, <1>7, RecInvParts, VideoStays, EmbeddingStays

(***************************************************************************)
(* Curation, and the whole.                                                *)
(***************************************************************************)

\* A rename touches no vector.
LEMMA RenameFaceKeeps ==
  ASSUME RecInv, NEW c \in ClusterIds, NEW n \in Names \cup {NoName}, RenameFace(c, n)
  PROVE  RecInv'
<1>1. TablesOK /\ EmbeddingOK /\ VideoOK /\ TasksOK
  BY RecInvParts
<1>2. /\ video' = video /\ embedding' = embedding /\ task' = task
      /\ \E o \in Owners : Rename(c, o, n)
  BY DEF RenameFace
<1>3. TablesOK' /\ minted' = minted /\ occ' = occ
  BY <1>1, <1>2, RenameKeeps
<1>4. QED
  BY <1>1, <1>2, <1>3, NoRun, RecInvParts, VideoStays, EmbeddingStays

\* A deletion takes the embeddings of the samples it takes.
LEMMA DeleteFaceKeeps ==
  ASSUME RecInv, NEW c \in ClusterIds, DeleteFace(c)
  PROVE  RecInv'
<1>1. TablesOK /\ EmbeddingOK /\ VideoOK /\ TasksOK
  BY RecInvParts
<1>2. /\ video' = video /\ embedding' = [x \in occ' |-> embedding[x]] /\ task' = task
      /\ \E o \in Owners : Delete(c, o)
  BY DEF DeleteFace
<1>3. TablesOK' /\ minted' = minted /\ occ' \subseteq occ
  BY <1>1, <1>2, DeleteKeeps
<1>4. EmbeddingOK'
  BY <1>1, <1>2, <1>3 DEF EmbeddingOK
<1>5. QED
  BY <1>1, <1>2, <1>3, <1>4, NoRun, RecInvParts, VideoStays

\* A moved sample has the embedding of one that a merge moved.
LEMMA MergeFacesKeeps ==
  ASSUME RecInv, NEW target \in ClusterIds, NEW sources \in SUBSET ClusterIds,
         MergeFaces(target, sources)
  PROVE  RecInv'
<1> DEFINE moved  == {x \in occ : x.cluster \in sources}
           landed == occ' \ (occ \ moved)
<1>1. TablesOK /\ EmbeddingOK /\ VideoOK /\ TasksOK
  BY RecInvParts
<1>2. /\ video' = video /\ task' = task
      /\ \E o \in Owners : Merge(o, target, sources)
  BY DEF MergeFaces
<1>3. PICK f \in [moved -> {y.t : y \in landed}] :
        /\ \A y \in landed : \E x \in moved : x.stream = y.stream /\ f[x] = y.t
        /\ embedding' = [y \in occ' |->
             IF y \notin landed THEN embedding[y]
             ELSE embedding[CHOOSE x \in moved : x.stream = y.stream /\ f[x] = y.t]]
  BY DEF MergeFaces
<1>4. TablesOK' /\ minted' = minted
  BY <1>1, <1>2, MergeKeeps
<1>5. \A x \in occ : embedding[x] \in Embeddings
  BY <1>1 DEF EmbeddingOK
<1>6. ASSUME NEW y \in occ'
      PROVE  (IF y \notin landed THEN embedding[y]
              ELSE embedding[CHOOSE x \in moved : x.stream = y.stream /\ f[x] = y.t])
               \in Embeddings
  <2>1. CASE y \notin landed
    BY <1>5, <2>1
  <2>2. CASE y \in landed
    <3> DEFINE from == CHOOSE x \in moved : x.stream = y.stream /\ f[x] = y.t
    <3>1. from \in moved
      BY <1>3, <2>2
    <3>2. from \in occ
      BY <3>1
    <3> HIDE DEF from
    <3>3. embedding[from] \in Embeddings
      BY <1>5, <3>2
    <3>4. QED
      BY <2>2, <3>3 DEF from
  <2>3. QED
    BY <2>1, <2>2
<1> HIDE DEF landed, moved
<1>7. EmbeddingOK'
  BY <1>3, <1>6 DEF EmbeddingOK
<1>8. QED
  BY <1>1, <1>2, <1>4, <1>7, NoRun, RecInvParts, VideoStays

\* The invariant holds of the empty library.
LEMMA RecInvInit == Init => RecInv
<1> SUFFICES ASSUME Init PROVE RecInv
  OBVIOUS
<1> USE DEF Init
<1>1. LibraryInv
  BY LibraryInvInit
<1>2. Live = {} /\ occ = {}
  BY DEF LibraryInit, Live
<1>3. CentroidsOK
  BY <1>2 DEF CentroidsOK
<1>4. EmbeddingOK
  BY <1>2 DEF EmbeddingOK
<1>5. VideoOK
  <2>1. BoundedSeq(Embeddings, MaxFaces) \subseteq Seq(Embeddings)
    BY DEF BoundedSeq, SeqOf
  <2>2. QED
    BY <2>1 DEF VideoOK
<1>6. TasksOK
  BY IdleOK DEF TasksOK, TaskOK
<1>7. QED
  BY <1>1, <1>3, <1>4, <1>5, <1>6 DEF RecInv

\* Every step keeps the invariant.
LEMMA RecInvStep == Vectors \subseteq Centroids /\ RecInv /\ RunsOwn /\ [Next]_vars => RecInv'
<1> SUFFICES ASSUME Vectors \subseteq Centroids, RecInv, RunsOwn, [Next]_vars PROVE RecInv'
  OBVIOUS
<1>1. ASSUME NEW w \in Workers, NEW o \in Owners, NEW s \in Streams, StartInfer(w, o, s)
      PROVE  RecInv'
  BY <1>1, StartInferKeeps
<1>2. ASSUME NEW w \in Workers, FaceKnown(w) PROVE RecInv'
  BY <1>2, FaceKnownKeeps
<1>3. ASSUME NEW w \in Workers, FaceUnknown(w) PROVE RecInv'
  BY <1>3, FaceUnknownKeeps
<1>4. ASSUME NEW w \in Workers, NextFrame(w) PROVE RecInv'
  BY <1>4, NextFrameKeeps
<1>5. ASSUME NEW w \in Workers, AppendRun(w) PROVE RecInv'
  BY <1>5, AppendRunKeeps
<1>6. ASSUME NEW w \in Workers, UpdateDrift(w) PROVE RecInv'
  BY <1>6, UpdateDriftKeeps
<1>7. ASSUME NEW c \in ClusterIds, NEW n \in Names \cup {NoName}, RenameFace(c, n) PROVE RecInv'
  BY <1>7, RenameFaceKeeps
<1>8. ASSUME NEW c \in ClusterIds, DeleteFace(c) PROVE RecInv'
  BY <1>8, DeleteFaceKeeps
<1>9. ASSUME NEW target \in ClusterIds, NEW sources \in SUBSET ClusterIds,
             MergeFaces(target, sources)
      PROVE  RecInv'
  BY <1>9, MergeFacesKeeps
<1>10. CASE UNCHANGED vars
  <2>1. TablesOK /\ EmbeddingOK /\ VideoOK /\ TasksOK
    BY RecInvParts
  <2>2. UNCHANGED libvars /\ video' = video /\ embedding' = embedding /\ task' = task
    BY <1>10 DEF vars, libvars
  <2>3. TablesOK' /\ minted' = minted /\ occ' = occ
    BY <2>1, <2>2, TablesStay
  <2>4. QED
    BY <2>1, <2>2, <2>3, NoRun, RecInvParts, VideoStays, EmbeddingStays
<1>11. QED
  BY <1>1, <1>2, <1>3, <1>4, <1>5, <1>6, <1>7, <1>8, <1>9, <1>10 DEF Next

\* What a run or a curator does to the tables is a transaction of the library.
LEMMA RecognitionStepIsLibraryStep ==
  Vectors \subseteq Centroids /\ RecInv /\ RunsOwn /\ [Next]_vars => [LibraryNext]_libvars
<1> SUFFICES ASSUME Vectors \subseteq Centroids, RecInv, RunsOwn, [Next]_vars,
                    ~UNCHANGED libvars
             PROVE  LibraryNext
  OBVIOUS
<1>1. TasksOK /\ VideoOK
  BY RecInvParts
<1>2. ASSUME NEW w \in Workers, FaceUnknown(w) PROVE UpsertAny
  <2> DEFINE me == task[w]
             e  == Shown(me)[me.face + 1]
  <2>1. /\ me.pc = "frame" /\ me.face < Len(Shown(me))
        /\ Upsert(me.owner, e, Cardinality(minted) + 1)
    BY <1>2 DEF FaceUnknown
  <2>2. TaskOK(me, minted) /\ me.owner \in Owners
    BY <1>1, <2>1 DEF TasksOK, TaskOK
  <2> HIDE DEF me
  <2>3. e \in Embeddings
    BY <1>1, <2>1, <2>2, ShownFacts
  <2>4. e \in Centroids
    BY <2>3, EmbeddingIsMean DEF Means, Directed
  <2> HIDE DEF e
  <2>5. Cardinality(minted) + 1 \in ClusterIds
    BY <2>1 DEF Upsert
  <2>6. QED
    BY <2>1, <2>2, <2>4, <2>5 DEF UpsertAny
<1>3. ASSUME NEW w \in Workers, AppendRun(w) PROVE AppendAny
  <2> DEFINE me    == task[w]
             items == {<<me.items[i].cluster, me.items[i].t>> : i \in DOMAIN me.items}
  <2>1. me.pc = "append" /\ AppendSamples(me.owner, me.stream, items)
    BY <1>3 DEF AppendRun
  <2>2. me.owner \in Owners /\ me.stream \in Streams /\ me.items \in Seq(Item)
    BY <1>1, <2>1 DEF TasksOK, TaskOK, TaskRecord
  <2>3. \A n \in items : Owned(n[1], me.owner)
    BY <2>1, AppendsToItsOwn
  <2> HIDE DEF me
  <2>4. items \in SUBSET (ClusterIds \X SampleTimes)
    <3>1. \A i \in DOMAIN me.items : me.items[i] \in Item
      BY <2>2
    <3>2. QED
      BY <3>1 DEF Item
  <2> HIDE DEF items
  <2>5. QED
    BY <2>1, <2>2, <2>4, <2>3 DEF AppendAny
<1>4. ASSUME NEW w \in Workers, UpdateDrift(w) PROVE CentroidAny
  <2> DEFINE me == task[w]
  <2>1. me.pc = "drift" /\ UpdateCentroid(Head(me.drift)[1], me.owner, Head(me.drift)[2])
    BY <1>4 DEF UpdateDrift
  <2>2. me.owner \in Owners /\ me.drift \in Seq(ClusterIds \X Means) /\ me.drift # <<>>
    BY <1>1, <2>1 DEF TasksOK, TaskOK, TaskRecord
  <2> HIDE DEF me
  <2>3. Head(me.drift) \in ClusterIds \X Means
    BY <2>2
  <2>4. Head(me.drift)[1] \in ClusterIds /\ Head(me.drift)[2] \in Centroids
    BY <2>3 DEF Means, Directed
  <2>5. QED
    BY <2>1, <2>2, <2>4 DEF CentroidAny
<1>5. ASSUME NEW c \in ClusterIds, NEW n \in Names \cup {NoName}, RenameFace(c, n) PROVE RenameAny
  BY <1>5 DEF RenameFace, RenameAny
<1>6. ASSUME NEW c \in ClusterIds, DeleteFace(c) PROVE DeleteAny
  BY <1>6 DEF DeleteFace, DeleteAny
<1>7. ASSUME NEW target \in ClusterIds, NEW sources \in SUBSET ClusterIds,
             MergeFaces(target, sources)
      PROVE  MergeAny
  BY <1>7 DEF MergeFaces, MergeAny
<1>8. ASSUME NEW w \in Workers,
             \/ \E o \in Owners, s \in Streams : StartInfer(w, o, s)
             \/ FaceKnown(w) \/ NextFrame(w)
      PROVE  FALSE
  BY <1>8 DEF StartInfer, FaceKnown, NextFrame
<1>9. ~UNCHANGED vars
  BY DEF vars, libvars
<1>10. QED
  BY <1>2, <1>3, <1>4, <1>5, <1>6, <1>7, <1>8, <1>9 DEF Next, LibraryNext

\* There is no run at first.
LEMMA RunsOwnInit == Init => RunsOwn
BY DEF Init, RunsOwn, RunOwns, Idle

\* A cluster that was its owner's stays its owner's.
LEMMA OwnedOn ==
  ASSUME TypeInv, [LibraryNext]_libvars, NEW c, NEW o, OwnedIn(minted, rows, c, o)
  PROVE  OwnedIn(minted', rows', c, o)
<1>1. c \in minted'
  BY MintedGrows DEF OwnedIn
<1>2. ASSUME c \in DOMAIN rows' PROVE rows'[c].owner = o
  <2>1. c \in Live /\ rows'[c].owner = rows[c].owner
    BY <1>2, OwnersStay DEF OwnedIn, Live
  <2>2. QED
    BY <2>1 DEF OwnedIn, Live
<1>3. QED
  BY <1>1, <1>2 DEF OwnedIn

\* Only the run that steps has to see to the people it comes to know.
LEMMA OneRunOwns ==
  ASSUME TypeInv, [LibraryNext]_libvars, task \in [Workers -> TaskRecord], RunsOwn,
         NEW w \in Workers, NEW tk, task' = [task EXCEPT ![w] = tk],
         \/ RunOwns(tk, minted, rows)
         \/ RunOwns(tk, minted', rows')
  PROVE  RunsOwn'
<1>1. ASSUME NEW me, RunOwns(me, minted, rows) PROVE RunOwns(me, minted', rows')
  BY <1>1, OwnedOn DEF RunOwns
<1>2. ASSUME NEW u \in Workers PROVE RunOwns(task'[u], minted', rows')
  <2>1. CASE u = w
    BY <1>1, <2>1
  <2>2. CASE u # w
    <3>1. task'[u] = task[u] /\ RunOwns(task[u], minted, rows)
      BY <2>2 DEF RunsOwn
    <3>2. QED
      BY <1>1, <3>1
  <2>3. QED
    BY <2>1, <2>2
<1>3. QED
  BY <1>2 DEF RunsOwn

\* A face that went to one of the owner's people.
LEMMA AssignedOwns ==
  ASSUME NEW me \in TaskRecord, NEW ids, NEW rs, NEW c, NEW known, NEW v, NEW e,
         \A i \in DOMAIN me.items : OwnedIn(ids, rs, me.items[i].cluster, me.owner),
         \A i \in DOMAIN known : OwnedIn(ids, rs, known[i].id, me.owner),
         OwnedIn(ids, rs, c, me.owner)
  PROVE  RunOwns(Assigned(me, c, known, v, e), ids, rs)
<1> DEFINE item == [cluster |-> c, t |-> FrameTime(FrameIndices[me.at]), embedding |-> e]
           new  == Assigned(me, c, known, v, e)
<1>1. /\ new.clusters = known /\ new.owner = me.owner /\ new.items = Append(me.items, item)
      /\ me.items \in Seq(Item)
  BY DEF Assigned, TaskRecord
<1>2. item.cluster = c
  OBVIOUS
<1> HIDE DEF item, new
<1>3. \A n \in DOMAIN new.items :
        \/ n \in DOMAIN me.items /\ new.items[n] = me.items[n]
        \/ new.items[n] = item
  BY <1>1
<1>4. \A n \in DOMAIN new.items : OwnedIn(ids, rs, new.items[n].cluster, me.owner)
  BY <1>2, <1>3
<1>5. QED
  BY <1>1, <1>4 DEF RunOwns, new

\* No run comes to know, or to append to, another owner's people.
LEMMA RunsOwnStep ==
  Vectors \subseteq Centroids /\ RecInv /\ RunsOwn /\ [Next]_vars => RunsOwn'
<1> SUFFICES ASSUME Vectors \subseteq Centroids, RecInv, RunsOwn, [Next]_vars PROVE RunsOwn'
  OBVIOUS
<1>1. TypeInv /\ TablesOK /\ TasksOK /\ task \in [Workers -> TaskRecord]
  BY RecInvParts DEF RecInv, LibraryInv, TasksOK
<1>2. [LibraryNext]_libvars
  BY RecognitionStepIsLibraryStep
<1>3. \A w \in Workers : task[w] \in TaskRecord /\ RunOwns(task[w], minted, rows)
  BY <1>1 DEF RunsOwn
<1>4. ASSUME NEW w \in Workers, NEW o \in Owners, NEW s \in Streams, StartInfer(w, o, s)
      PROVE  RunsOwn'
  <2> DEFINE new == [Idle EXCEPT !.pc = "frame", !.owner = o, !.stream = s,
                                 !.clusters = ClustersOf(o)]
  <2>1. task' = [task EXCEPT ![w] = new]
    BY <1>4 DEF StartInfer, Become
  <2>2. new.clusters = ClustersOf(o) /\ new.items = <<>> /\ new.owner = o
    BY DEF Idle
  <2>3. \A i \in DOMAIN ClustersOf(o) : OwnedIn(minted, rows, ClustersOf(o)[i].id, o)
    BY <1>1, ListTyped, TablesFacts DEF Owned, OwnedIn, Live
  <2> HIDE DEF new
  <2>4. RunOwns(new, minted, rows)
    BY <2>2, <2>3 DEF RunOwns
  <2>5. QED
    BY <1>1, <1>2, <2>1, <2>4, OneRunOwns
<1>5. ASSUME NEW w \in Workers, FaceKnown(w) PROVE RunsOwn'
  <2> DEFINE me == task[w]
             e  == Shown(me)[me.face + 1]
             b  == MatchCluster(e, me.clusters)
             c  == me.clusters[b]
             v  == MergeCentroid(c.centroid, c.samples, e)
             d  == [c EXCEPT !.centroid = v, !.samples = @ + 1]
             known == [i \in DOMAIN me.clusters |->
                         IF me.clusters[i].id = c.id THEN d ELSE me.clusters[i]]
  <2>1. /\ me.pc = "frame" /\ me.face < Len(Shown(me)) /\ b # 0
        /\ task' = [task EXCEPT ![w] = Assigned(me, c.id, known, v, e)]
    BY <1>5 DEF FaceKnown, Become
  <2>2. TaskOK(me, minted) /\ me \in TaskRecord /\ me.clusters \in Seq(Known) /\ VideoOK
    BY <1>1, RecInvParts DEF TasksOK, TaskOK, TaskRecord
  <2>3. RunOwns(me, minted, rows)
    BY <1>3
  <2> HIDE DEF me
  <2>4. e \in Embeddings
    BY <2>1, <2>2, ShownFacts
  <2> HIDE DEF e
  <2>5. b \in DOMAIN me.clusters
    <3>1. IsMatch(e, me.clusters, Len(me.clusters), b) /\ Len(me.clusters) \in Nat
      BY <2>2, <2>4, MatchFacts
    <3>2. QED
      BY <2>1, <2>2, <3>1 DEF IsMatch
  <2>6. c \in Known
    BY <2>2, <2>5
  <2> HIDE DEF v, b, c
  <2>7. d.id = c.id
    BY <2>6 DEF Known
  <2> HIDE DEF d
  <2>8. OwnedIn(minted, rows, c.id, me.owner)
    BY <2>3, <2>5 DEF RunOwns, c
  <2>9. \A i \in DOMAIN known : OwnedIn(minted, rows, known[i].id, me.owner)
    BY <2>3, <2>7, <2>8 DEF RunOwns
  <2> HIDE DEF known
  <2>10. RunOwns(Assigned(me, c.id, known, v, e), minted, rows)
    BY <2>2, <2>3, <2>8, <2>9, AssignedOwns DEF RunOwns
  <2>11. QED
    BY <1>1, <1>2, <2>1, <2>10, OneRunOwns
<1>6. ASSUME NEW w \in Workers, FaceUnknown(w) PROVE RunsOwn'
  <2> DEFINE me == task[w]
             e  == Shown(me)[me.face + 1]
             id == Cardinality(minted) + 1
             row == [id |-> id, named |-> FALSE, samples |-> 0, centroid |-> e]
             known == Append(me.clusters, row)
  <2>1. /\ Upsert(me.owner, e, id)
        /\ task' = [task EXCEPT ![w] = Assigned(me, id, known, e, e)]
    BY <1>6 DEF FaceUnknown, Become
  <2>2. me \in TaskRecord /\ me.clusters \in Seq(Known) /\ RunOwns(me, minted, rows)
    BY <1>3 DEF TaskRecord
  <2> HIDE DEF me, e, id
  <2>3. OwnedIn(minted', rows', id, me.owner)
    BY <2>1 DEF Upsert, OwnedIn
  <2>4. row.id = id
    OBVIOUS
  <2> HIDE DEF row
  <2>5. \A i \in DOMAIN known : (i \in DOMAIN me.clusters /\ known[i] = me.clusters[i])
                                \/ known[i] = row
    BY <2>2
  <2> HIDE DEF known
  <2>6. /\ \A i \in DOMAIN me.clusters : OwnedIn(minted', rows', me.clusters[i].id, me.owner)
        /\ \A i \in DOMAIN me.items : OwnedIn(minted', rows', me.items[i].cluster, me.owner)
    BY <1>1, <1>2, <2>2, OwnedOn DEF RunOwns
  <2>7. \A i \in DOMAIN known : OwnedIn(minted', rows', known[i].id, me.owner)
    BY <2>3, <2>4, <2>5, <2>6
  <2>8. RunOwns(Assigned(me, id, known, e, e), minted', rows')
    BY <2>2, <2>3, <2>6, <2>7, AssignedOwns
  <2>9. QED
    BY <1>1, <1>2, <2>1, <2>8, OneRunOwns DEF me
<1>7. ASSUME NEW w \in Workers, NEW tk, task' = [task EXCEPT ![w] = tk],
             tk.owner = task[w].owner \/ tk = Idle,
             tk.clusters = <<>> \/ tk.clusters = task[w].clusters,
             tk.items = <<>> \/ tk.items = task[w].items
      PROVE  RunsOwn'
  <2>1. RunOwns(tk, minted, rows)
    BY <1>3, <1>7 DEF RunOwns, Idle
  <2>2. QED
    BY <1>1, <1>2, <1>7, <2>1, OneRunOwns
<1>8. ASSUME NEW w \in Workers, NextFrame(w) PROVE RunsOwn'
  <2> DEFINE me  == task[w]
             new == IF me.at = Len(FrameIndices) THEN [me EXCEPT !.pc = "append", !.clusters = <<>>]
                    ELSE [me EXCEPT !.at = @ + 1, !.face = 0]
  <2>1. task' = [task EXCEPT ![w] = new]
    BY <1>8 DEF NextFrame, Become
  <2>2. /\ new.owner = me.owner /\ new.items = me.items
        /\ new.clusters = <<>> \/ new.clusters = me.clusters
    BY <1>3 DEF TaskRecord
  <2> HIDE DEF new
  <2>3. QED
    BY <1>7, <2>1, <2>2
<1>9. ASSUME NEW w \in Workers, AppendRun(w) PROVE RunsOwn'
  <2> DEFINE me  == task[w]
             new == IF me.drift = <<>> THEN Idle
                    ELSE [Idle EXCEPT !.pc = "drift", !.owner = me.owner, !.drift = me.drift]
  <2>1. task' = [task EXCEPT ![w] = new] \/ task' = [task EXCEPT ![w] = Idle]
    BY <1>9 DEF AppendRun, Become
  <2>2. /\ new.owner = me.owner \/ new = Idle
        /\ new.items = <<>> /\ new.clusters = <<>>
        /\ Idle.items = <<>> /\ Idle.clusters = <<>>
    BY DEF Idle
  <2> HIDE DEF new
  <2>3. QED
    BY <1>7, <2>1, <2>2
<1>10. ASSUME NEW w \in Workers, UpdateDrift(w) PROVE RunsOwn'
  <2> DEFINE me  == task[w]
             new == IF Len(me.drift) = 1 THEN Idle ELSE [me EXCEPT !.drift = Tail(@)]
  <2>1. task' = [task EXCEPT ![w] = new]
    BY <1>10 DEF UpdateDrift, Become
  <2>2. /\ new.owner = me.owner \/ new = Idle
        /\ new.items = <<>> \/ new.items = me.items
        /\ new.clusters = <<>> \/ new.clusters = me.clusters
    BY <1>3 DEF Idle, TaskRecord
  <2> HIDE DEF new
  <2>3. QED
    BY <1>7, <2>1, <2>2
<1>11. ASSUME task' = task PROVE RunsOwn'
  <2>1. \A w \in Workers : RunOwns(task[w], minted', rows')
    BY <1>1, <1>2, <1>3, OwnedOn DEF RunOwns
  <2>2. QED
    BY <1>11, <2>1 DEF RunsOwn
<1>12. ASSUME ~\E w \in Workers :
                \/ \E o \in Owners, s \in Streams : StartInfer(w, o, s)
                \/ FaceKnown(w) \/ FaceUnknown(w) \/ NextFrame(w) \/ AppendRun(w)
                \/ UpdateDrift(w)
      PROVE  task' = task
  BY <1>12 DEF Next, vars, RenameFace, DeleteFace, MergeFaces
<1>13. QED
  BY <1>4, <1>5, <1>6, <1>8, <1>9, <1>10, <1>11, <1>12

\* The invariants hold at every moment.
LEMMA RecInvariant == ASSUME Vectors \subseteq Centroids PROVE Spec => [](RecInv /\ RunsOwn)
<1>1. Init => RecInv /\ RunsOwn
  BY RecInvInit, RunsOwnInit
<1>2. RecInv /\ RunsOwn /\ [Next]_vars => RecInv' /\ RunsOwn'
  BY RecInvStep, RunsOwnStep
<1>3. QED
  BY <1>1, <1>2, PTL DEF Spec

\* However many runs overlap, with each other and with curation, the tables stay
\* well typed, every sample has an embedding, and each centroid, stored or
\* remembered, lies between the embeddings: merge_centroid under a stale count
\* writes a wrong mean, but a mean.
THEOREM CentroidsStayMeans ==
  ASSUME Vectors \subseteq Centroids PROVE Spec => []RecognitionTypeOK
<1>1. RecInv => RecognitionTypeOK
  <2> SUFFICES ASSUME RecInv PROVE RecognitionTypeOK
    OBVIOUS
  <2>1. minted \subseteq ClusterIds /\ Live \subseteq minted
    BY RecInvParts, TablesFacts
  <2>2. embedding \in [occ -> Embeddings] /\ \A c \in Live : Between(rows[c].centroid)
    BY DEF RecInv, EmbeddingOK, CentroidsOK, Means
  <2>3. ASSUME NEW w \in Workers
        PROVE  /\ \A i \in DOMAIN task[w].clusters :
                    task[w].clusters[i].id \in minted /\ Between(task[w].clusters[i].centroid)
               /\ \A i \in DOMAIN task[w].drift :
                    task[w].drift[i][1] \in minted /\ Between(task[w].drift[i][2])
    <3>1. TaskOK(task[w], minted) /\ task[w] \in TaskRecord
      BY DEF RecInv, TasksOK, TaskOK
    <3>2. /\ \A i \in DOMAIN task[w].clusters : task[w].clusters[i] \in Known
          /\ \A i \in DOMAIN task[w].drift : task[w].drift[i] \in ClusterIds \X Means
      BY <3>1 DEF TaskRecord
    <3>3. QED
      BY <3>1, <3>2 DEF TaskOK, Known, Means
  <2>4. QED
    BY <2>1, <2>2, <2>3 DEF RecognitionTypeOK
<1>2. Spec => []RecInv
  BY RecInvariant, PTL
<1>3. QED
  BY <1>1, <1>2, PTL

\* best_match, as detect_faces calls it, never offers a person that match_cluster
\* would not choose for the same face over the same clusters, and it offers every
\* unnamed person that match_cluster would choose.
THEOREM AssistAgreesHolds == ASSUME Vectors \subseteq Centroids PROVE Spec => []AssistAgrees
<1>1. RecInv => AssistAgrees
  <2> SUFFICES ASSUME RecInv, NEW o \in Owners, NEW e \in Embeddings
               PROVE  LET offered == BestMatch(e, ClustersOf(o))
                          matched == MatchCluster(e, ClustersOf(o))
                      IN /\ offered # 0 => matched = offered
                         /\ matched # 0 => \/ offered = matched
                                           \/ offered = 0 /\ ClustersOf(o)[matched].named
    BY DEF AssistAgrees
  <2>1. ClustersOf(o) \in Seq(Known)
    BY RecInvParts, TablesFacts, ListTyped
  <2>2. QED
    BY <2>1, SearchesAgree
<1>2. Spec => []RecInv
  BY RecInvariant, PTL
<1>3. QED
  BY <1>1, <1>2, PTL

\* The face that run() has just assigned matches somebody in the list it goes on
\* with, so the same face in the next frame makes no second person.
THEOREM RepeatedFacesKnown == ASSUME Vectors \subseteq Centroids PROVE Spec => []RepeatedFaceKnown
<1>1. RecInv => RepeatedFaceKnown
  <2> SUFFICES ASSUME RecInv, NEW w \in Workers, NEW me, me = task[w], me.pc = "frame",
                      me.items # <<>>
               PROVE  MatchCluster(Last(me.items).embedding, me.clusters) # 0
    BY DEF RepeatedFaceKnown
  <2>1. TaskOK(me, minted)
    BY DEF RecInv, TasksOK
  <2>2. PassedBy(Last(me.items).embedding, me.clusters)
    BY <2>1 DEF TaskOK
  <2>3. me.items \in Seq(Item) /\ me.clusters \in Seq(Known)
    BY <2>1 DEF TaskOK, TaskRecord
  <2>4. Last(me.items).embedding \in Embeddings
    <3>1. Last(me.items) \in Item
      BY <2>3 DEF Last
    <3>2. QED
      BY <3>1 DEF Item
  <2>5. IsMatch(Last(me.items).embedding, me.clusters, Len(me.clusters),
                MatchCluster(Last(me.items).embedding, me.clusters))
    BY <2>3, <2>4, MatchFacts
  <2>6. DOMAIN me.clusters = 1 .. Len(me.clusters)
    BY <2>3
  <2>7. QED
    BY <2>2, <2>5, <2>6 DEF IsMatch, PassedBy
<1>2. Spec => []RecInv
  BY RecInvariant, PTL
<1>3. QED
  BY <1>1, <1>2, PTL

(***************************************************************************)
(* Pictures of samples.                                                    *)
(***************************************************************************)

Sampled == {FrameIndices[k] : k \in DOMAIN FrameIndices}

\* The ticks from the time of frame i to that of the next.
Ticks(i) == FrameTime(i) .. FrameTime(i) + Interval - 1

\* Frame times and ticks are naturals, and an interval has two equal halves.
LEMMA TimeFacts ==
  ASSUME NEW i \in Nat
  PROVE  /\ FrameTime(i) \in Nat /\ Ticks(i) \subseteq Nat
         /\ Interval \div 2 \in Nat \ {0} /\ Interval = 2 * (Interval \div 2)
         /\ FrameTime(i) = i * Interval + Interval \div 2
<1>1. Interval \in Nat \ {0} /\ Interval % 2 = 0
  BY SamplingAssumption
<1>2. Interval \div 2 \in Nat \ {0} /\ Interval = 2 * (Interval \div 2)
  BY <1>1
<1>3. i * Interval \in Nat
  BY <1>1
<1>4. FrameTime(i) \in Nat
  BY <1>2, <1>3 DEF FrameTime
<1>5. QED
  BY <1>1, <1>2, <1>4 DEF FrameTime, Ticks

\* No tick belongs to two frames.
LEMMA TicksApart ==
  ASSUME NEW i \in Nat, NEW j \in Nat, NEW t \in Ticks(i), t \in Ticks(j)
  PROVE  i = j
<1> DEFINE d == Interval
           h == Interval \div 2
<1>1. d \in Nat \ {0} /\ h \in Nat /\ t \in Nat
  BY TimeFacts
<1>2. /\ i * d + h <= t /\ t <= i * d + h + d - 1
      /\ j * d + h <= t /\ t <= j * d + h + d - 1
  BY DEF Ticks, FrameTime
<1> HIDE DEF d, h
<1>3. i * d \in Nat /\ j * d \in Nat
  BY <1>1
<1>4. ASSUME NEW a \in Nat, NEW b \in Nat, a < b PROVE a * d + d <= b * d
  <2>1. (a + 1) * d <= b * d
    BY <1>1, <1>4, Scale
  <2>2. (a + 1) * d = a * d + d
    BY <1>1
  <2>3. QED
    BY <2>1, <2>2
<1>5. CASE i < j
  BY <1>1, <1>2, <1>3, <1>4, <1>5
<1>6. CASE j < i
  BY <1>1, <1>2, <1>3, <1>4, <1>6
<1>7. QED
  BY <1>5, <1>6

\* A sample that merges moved by less than half an interval is looked for in
\* its own frame.
LEMMA FrameFound ==
  ASSUME NEW i \in Nat, NEW t \in FrameTime(i) .. FrameTime(i) + Interval \div 2 - 1
  PROVE  SampleFrameIndex(t) = i
<1> DEFINE d == Interval
           h == Interval \div 2
           q == t \div d
           m == t % d
<1>1. d \in Nat \ {0} /\ h \in Nat \ {0} /\ d = 2 * h /\ t \in Nat
  BY TimeFacts
<1>2. i * d + h <= t /\ t <= i * d + h + h - 1
  BY DEF FrameTime
<1>3. q \in Nat /\ m \in Nat /\ m < d /\ t = d * q + m
  BY <1>1
<1>4. SampleFrameIndex(t) = IF m # 0 \/ q % 2 = 0 THEN q ELSE q - 1
  BY DEF SampleFrameIndex
<1> HIDE DEF d, h, q, m
<1>5. i * d \in Nat /\ d * q \in Nat /\ d * q = q * d
  BY <1>1, <1>3
<1>6. ASSUME NEW a \in Nat, NEW b \in Nat, a < b PROVE a * d + d <= b * d
  <2>1. (a + 1) * d <= b * d
    BY <1>1, <1>6, Scale
  <2>2. (a + 1) * d = a * d + d
    BY <1>1
  <2>3. QED
    BY <2>1, <2>2
<1>7. ~(i < q)
  <2>1. ASSUME i < q PROVE FALSE
    <3>1. i * d + d <= q * d
      BY <1>3, <1>6, <2>1
    <3>2. QED
      BY <1>1, <1>2, <1>3, <1>5, <3>1
  <2>2. QED
    BY <2>1
<1>8. ~(q < i)
  <2>1. ASSUME q < i PROVE FALSE
    <3>1. q * d + d <= i * d
      BY <1>3, <1>6, <2>1
    <3>2. QED
      BY <1>1, <1>2, <1>3, <1>5, <3>1
  <2>2. QED
    BY <2>1
<1>9. q = i
  BY <1>3, <1>7, <1>8
<1>10. m # 0
  BY <1>1, <1>2, <1>3, <1>5, <1>9
<1>11. QED
  BY <1>4, <1>9, <1>10

\* Frame i of stream s shows the face e.
ShowsFace(s, i, e) == \E j \in DOMAIN video[<<s, i>>] : video[<<s, i>>][j] = e

\* No other face is as similar to e as e is.
LEMMA ItselfOnly ==
  ASSUME NEW e \in Embeddings, NEW f \in Embeddings
  PROVE  /\ ~Closer(e, f, e)
         /\ ~Closer(e, e, f) => f = e
<1> DEFINE E == Dot(e, e)
           F == Dot(f, f)
           g == Dot(e, f)
<1>1. e \in Directed /\ f \in Directed /\ e \in Vectors /\ f \in Vectors
  BY EmbeddingIsMean DEF Means, Directed
<1>2. E \in Nat /\ E > 0 /\ F \in Nat /\ g \in Nat /\ g * g \in Nat
  BY <1>1, DotFacts, DotPositive
<1>3. g * g <= E * F
  BY <1>1, CauchySchwarz
<1>4. /\ Closer(e, f, e) <=> (g * g) * E > (E * E) * F
      /\ Closer(e, e, f) <=> (E * E) * F > (g * g) * E
  BY DEF Closer
<1>5. ASSUME E * F <= g * g PROVE f = e
  <2>1. e[1] \in Nat /\ e[2] \in Nat /\ f[1] \in Nat /\ f[2] \in Nat
    BY <1>1 DEF Vectors
  <2> DEFINE d == e[1] * f[2] - e[2] * f[1]
  <2>2. E * F = g * g + d * d
    BY <2>1 DEF Dot
  <2>3. d \in Int /\ e[1] * f[2] \in Nat /\ e[2] * f[1] \in Nat
    BY <2>1
  <2>4. d = 0
    <3> HIDE DEF d, E, F, g
    <3>1. d * d <= 0
      <4>1. d * d \in Int /\ E * F \in Nat
        BY <1>2, <2>3
      <4>2. QED
        BY <1>2, <1>5, <2>2, <4>1
    <3>2. QED
      BY <2>3, <3>1
  <2>5. e[1] * f[2] = e[2] * f[1]
    BY <2>3, <2>4
  <2>6. QED
    BY <2>5, DirectionAssumption
<1> HIDE DEF E, F, g
<1>6. (E * E) * F = (E * F) * E /\ E * F \in Nat
  BY <1>2
<1>7. (g * g) * E <= (E * F) * E
  BY <1>2, <1>3, <1>6, Scale
<1>8. (g * g) * E \in Nat /\ (E * F) * E \in Nat
  BY <1>2, <1>6
<1>9. ~Closer(e, f, e)
  BY <1>4, <1>6, <1>7, <1>8
<1>10. ASSUME ~Closer(e, e, f) PROVE f = e
  <2>1. (E * F) * E <= (g * g) * E
    BY <1>4, <1>6, <1>8, <1>10
  <2>2. E * F <= g * g
    BY <1>2, <1>6, <2>1, Cancel
  <2>3. QED
    BY <1>5, <2>2
<1>11. QED
  BY <1>9, <1>10

\* The frame a sample is looked for in is there.
LEMMA FrameLooked ==
  ASSUME VideoOK, NEW x, x.stream \in Streams, NEW i \in Sampled, SampleFrameIndex(x.t) = i
  PROVE  FrameOf(x) = video[<<x.stream, i>>] /\ FrameOf(x) \in Seq(Embeddings)
<1>1. i \in 0 .. Count - 1
  BY FrameFacts DEF Sampled
<1>2. QED
  BY <1>1 DEF VideoOK, FrameOf

\* A frame that shows the face of a sample renders it, if that face is found.
LEMMA FaceRendered ==
  ASSUME VideoOK, NEW x, x.stream \in Streams, NEW i \in Sampled, SampleFrameIndex(x.t) = i,
         embedding[x] \in Embeddings, NEW found \in SUBSET DOMAIN FrameOf(x),
         \E j \in found : FrameOf(x)[j] = embedding[x]
  PROVE  Rendered(x, found) = embedding[x]
<1> DEFINE faces == FrameOf(x)
           e     == embedding[x]
           near  == {j \in found : Similar(e, faces[j], 4)}
           best  == {j \in near : \A k \in near : ~Closer(e, faces[k], faces[j])}
           last  == CHOOSE j \in best : \A k \in best : k <= j
<1>1. Rendered(x, found) = IF best = {} THEN None ELSE faces[last]
  BY DEF Rendered
<1>2. faces \in Seq(Embeddings) /\ found \subseteq DOMAIN faces
  BY FrameLooked
<1> HIDE DEF faces
<1>3. PICK j \in found : faces[j] = e
  BY DEF faces
<1>4. \A k \in DOMAIN faces : faces[k] \in Embeddings
  BY <1>2
<1>5. j \in near
  <2>1. e \in Vectors
    BY EmbeddingIsMean DEF Means, Directed
  <2>2. QED
    BY <1>3, <2>1, SimilarSelf
<1>6. j \in best
  BY <1>2, <1>3, <1>4, <1>5, ItselfOnly
<1>7. \A k \in best : faces[k] = e
  BY <1>2, <1>3, <1>4, <1>5, ItselfOnly
<1>8. last \in best
  <2> DEFINE below == {Len(faces) - k : k \in best}
  <2>1. Len(faces) \in Nat /\ DOMAIN faces = 1 .. Len(faces)
    BY <1>2
  <2>2. best \in SUBSET (1 .. Len(faces))
    BY <1>2, <2>1
  <2> HIDE DEF best
  <2>3. below \in SUBSET Nat /\ below # {}
    BY <1>6, <2>1, <2>2
  <2>4. PICK b \in below : \A c \in below : b <= c
    BY <2>3, LeastNatural
  <2>5. PICK k \in best : b = Len(faces) - k
    BY <2>4
  <2>6. ASSUME NEW l \in best PROVE l <= k
    <3>1. Len(faces) - k <= Len(faces) - l
      BY <2>4, <2>5
    <3>2. k \in Nat /\ l \in Nat
      BY <2>1, <2>2
    <3>3. QED
      BY <2>1, <3>1, <3>2
  <2>7. QED
    BY <2>6
<1>9. QED
  BY <1>1, <1>6, <1>7, <1>8

\* The picture of a sample: its tick belongs to a frame that a run took and
\* that shows its face.
SamplesPlaced ==
  \A x \in occ : \E i \in Sampled : x.t \in Ticks(i) /\ ShowsFace(x.stream, i, embedding[x])

\* Merges leave no tick out: whoever has a sample between two frames has one at
\* every tick before it.
Unbroken ==
  \A x \in occ, i \in Sampled : x.t \in Ticks(i) =>
    \A v \in FrameTime(i) .. x.t :
      \E y \in occ : y.stream = x.stream /\ y.cluster = x.cluster /\ y.t = v

\* The samples of a frame, and the people who have none there.
Block(s, i) == {x \in occ : x.stream = s /\ x.t \in Ticks(i)}

Absent(s, i) == {c \in Live : \A x \in Block(s, i) : x.cluster # c}

\* A frame of a stream has at most one sample for each person there ever was.
FewSamplesEach ==
  \A s \in Streams, i \in Sampled :
    Cardinality(Block(s, i)) + Cardinality(Absent(s, i)) <= Cardinality(minted)

\* What a run will append is what its frames show.
ItemsShown(me) ==
  \A n \in DOMAIN me.items : \E i \in Sampled :
    /\ me.items[n].t = FrameTime(i)
    /\ ShowsFace(me.stream, i, me.items[n].embedding)

PictureInv ==
  /\ SamplesPlaced /\ Unbroken /\ FewSamplesEach
  /\ \A w \in Workers : ItemsShown(task[w])

\* There are no more people than ticks in half an interval.
FewPeople == Cardinality(ClusterIds) <= Interval \div 2

(***************************************************************************)
(* Counting.                                                               *)
(***************************************************************************)

\* What a function of a finite set reaches is no more than the set.
LEMMA Reached ==
  ASSUME NEW S, IsFiniteSet(S), NEW T, NEW f, f = [x \in S |-> f[x]],
         \A t \in T : \E x \in S : f[x] = t
  PROVE  IsFiniteSet(T) /\ Cardinality(T) <= Cardinality(S)
<1> DEFINE A == {x \in S : f[x] \in T}
           g == [x \in A |-> f[x]]
<1>1. IsFiniteSet(A) /\ Cardinality(A) <= Cardinality(S)
  BY FS_Subset
<1>2. g \in Surjection(A, T)
  BY DEF Surjection
<1> HIDE DEF A
<1>3. IsFiniteSet(T) /\ Cardinality(T) <= Cardinality(A)
  BY <1>1, <1>2, FS_Surjection
<1>4. Cardinality(A) \in Nat /\ Cardinality(S) \in Nat /\ Cardinality(T) \in Nat
  BY <1>1, <1>3, FS_CardinalityType
<1>5. QED
  BY <1>1, <1>3, <1>4

\* Frames are counted from 0.
LEMMA SampledNat == Sampled \subseteq Nat
BY FrameFacts, SamplingAssumption DEF Sampled

\* The sets that are counted are finite.
LEMMA PartFacts ==
  ASSUME TablesOK, NEW s, NEW i
  PROVE  /\ IsFiniteSet(Block(s, i)) /\ Cardinality(Block(s, i)) \in Nat
         /\ IsFiniteSet(Absent(s, i)) /\ Cardinality(Absent(s, i)) \in Nat
         /\ IsFiniteSet(minted) /\ Cardinality(minted) \in Nat
         /\ Cardinality(minted) <= Cardinality(ClusterIds)
         /\ IsFiniteSet(occ) /\ occ \subseteq Sample
<1>1. IsFiniteSet(occ) /\ occ \subseteq Sample
  BY TablesFacts DEF TablesOK, LibraryInv, TypeInv, OccFinite
<1>2. minted \subseteq ClusterIds /\ Live \subseteq minted /\ IsFiniteSet(ClusterIds)
  BY TablesFacts, FiniteAssumption
<1>3. IsFiniteSet(minted) /\ Cardinality(minted) <= Cardinality(ClusterIds)
  BY <1>2, FS_Subset
<1>4. Block(s, i) \subseteq occ
  BY DEF Block
<1>5. Absent(s, i) \subseteq minted
  BY <1>2 DEF Absent
<1>6. IsFiniteSet(Block(s, i))
  BY <1>1, <1>4, FS_Subset
<1>7. IsFiniteSet(Absent(s, i))
  BY <1>3, <1>5, FS_Subset
<1>8. QED
  BY <1>1, <1>3, <1>6, <1>7, FS_CardinalityType

\* A frame has fewer samples than half its ticks.
LEMMA BlockSmall ==
  ASSUME FewPeople, TablesOK, FewSamplesEach, NEW s \in Streams, NEW i \in Sampled
  PROVE  Cardinality(Block(s, i)) <= Interval \div 2
<1>1. Cardinality(Block(s, i)) + Cardinality(Absent(s, i)) <= Cardinality(minted)
  BY DEF FewSamplesEach
<1>2. Cardinality(ClusterIds) \in Nat
  BY FiniteAssumption, FS_CardinalityType
<1>3. Interval \div 2 \in Nat
  BY TimeFacts
<1>4. QED
  BY <1>1, <1>2, <1>3, PartFacts DEF FewPeople

\* Merges move no sample half an interval away from its frame.
LEMMA SlackBound ==
  ASSUME FewPeople, TablesOK, FewSamplesEach, Unbroken, NEW x \in occ, NEW i \in Sampled,
         x.t \in Ticks(i)
  PROVE  x.t \in FrameTime(i) .. FrameTime(i) + Interval \div 2 - 1
<1> DEFINE B == Block(x.stream, i)
           g == [y \in B |-> y.t]
           T == FrameTime(i) .. x.t
<1>1. /\ FrameTime(i) \in Nat /\ Interval \div 2 \in Nat /\ Interval = 2 * (Interval \div 2)
      /\ Ticks(i) \subseteq Nat
  BY SampledNat, TimeFacts
<1>2. x.stream \in Streams
  BY PartFacts DEF Sample
<1>3. IsFiniteSet(B) /\ Cardinality(B) <= Interval \div 2 /\ Cardinality(B) \in Nat
  BY <1>2, PartFacts, BlockSmall
<1>4. ASSUME NEW v \in T PROVE \E y \in B : g[y] = v
  <2>1. PICK y \in occ : y.stream = x.stream /\ y.t = v
    BY DEF Unbroken
  <2>2. v \in Ticks(i)
    BY <1>1 DEF Ticks
  <2>3. y \in B
    BY <2>1, <2>2 DEF Block
  <2>4. QED
    BY <2>1, <2>3
<1>5. Cardinality(T) <= Cardinality(B)
  <2> HIDE DEF B, T
  <2>1. g = [y \in B |-> g[y]]
    OBVIOUS
  <2> HIDE DEF g
  <2>2. QED
    BY <1>3, <1>4, <2>1, Reached
<1>6. x.t \in Nat /\ FrameTime(i) <= x.t
  BY <1>1 DEF Ticks
<1>7. Cardinality(T) = x.t - FrameTime(i) + 1
  <2>1. FrameTime(i) \in Int /\ x.t \in Int /\ ~(FrameTime(i) > x.t)
    BY <1>1, <1>6
  <2>2. QED
    BY <2>1, FS_Interval
<1> HIDE DEF B, T
<1>8. QED
  BY <1>1, <1>3, <1>5, <1>6, <1>7

\* The picture of every sample is that of its face.
LEMMA PictureShown ==
  ASSUME FewPeople, RecInv, PictureInv
  PROVE  SampleShowsItsFace
<1> SUFFICES ASSUME NEW x \in occ
             PROVE  /\ \E j \in DOMAIN FrameOf(x) : FrameOf(x)[j] = embedding[x]
                    /\ \A found \in SUBSET DOMAIN FrameOf(x) :
                         (\E j \in found : FrameOf(x)[j] = embedding[x]) =>
                           Rendered(x, found) = embedding[x]
  BY DEF SampleShowsItsFace
<1>1. TablesOK /\ EmbeddingOK /\ VideoOK
  BY RecInvParts
<1>2. PICK i \in Sampled : x.t \in Ticks(i) /\ ShowsFace(x.stream, i, embedding[x])
  BY DEF PictureInv, SamplesPlaced
<1>3. x.t \in FrameTime(i) .. FrameTime(i) + Interval \div 2 - 1
  BY <1>1, <1>2, SlackBound DEF PictureInv
<1>4. SampleFrameIndex(x.t) = i
  BY <1>3, FrameFound, SampledNat
<1>5. x.stream \in Streams /\ embedding[x] \in Embeddings
  BY <1>1, PartFacts DEF EmbeddingOK, Sample
<1>6. \E j \in DOMAIN FrameOf(x) : FrameOf(x)[j] = embedding[x]
  BY <1>1, <1>2, <1>4, <1>5, FrameLooked DEF ShowsFace
<1>7. ASSUME NEW found \in SUBSET DOMAIN FrameOf(x),
             \E j \in found : FrameOf(x)[j] = embedding[x]
      PROVE  Rendered(x, found) = embedding[x]
  BY <1>1, <1>2, <1>4, <1>5, <1>7, FaceRendered
<1>8. QED
  BY <1>6, <1>7

(***************************************************************************)
(* Merges and pictures.                                                    *)
(***************************************************************************)

\* A place that a merge's nudging passed over, or where it ended, is taken.
Taken(f, sources, target, s, v) ==
  \/ \E y \in OccIn(OccOf(occ, target), s) : y.t = v
  \/ \E y \in OccIn(Moved(sources), s) : f[y] = v

\* A moved sample lands at its own tick or later, and every tick it passed is taken.
LEMMA PlacementFacts ==
  ASSUME NEW sources \in SUBSET ClusterIds, NEW target, NEW f,
         IsPlacement(f, Moved(sources), target), NEW x \in Moved(sources)
  PROVE  /\ f[x] >= x.t
         /\ \A v \in x.t .. f[x] - 1 : Taken(f, sources, target, x.stream, v)
BY DEF IsPlacement, Taken

\* Every tick from the time of the frame to where a sample lands is taken.
LEMMA Filled ==
  ASSUME TablesOK, Unbroken, NEW sources \in SUBSET ClusterIds, NEW target,
         NEW f, \A y \in Moved(sources) : f[y] \in Nat,
         IsPlacement(f, Moved(sources), target),
         NEW x \in Moved(sources), NEW i \in Sampled, x.t \in Ticks(i),
         NEW v \in FrameTime(i) .. f[x]
  PROVE  Taken(f, sources, target, x.stream, v)
<1>1. FrameTime(i) \in Nat /\ x.t \in Nat /\ FrameTime(i) <= x.t /\ f[x] \in Nat /\ v \in Nat
  BY SampledNat, TimeFacts DEF Ticks
<1>2. CASE v = f[x]
  BY <1>2 DEF Taken, OccIn
<1>3. CASE x.t <= v /\ v < f[x]
  BY <1>1, <1>3, PlacementFacts
<1>4. CASE v < x.t
  <2>1. v \in FrameTime(i) .. x.t
    BY <1>1, <1>4
  <2>2. PICK y \in occ : y.stream = x.stream /\ y.cluster = x.cluster /\ y.t = v
    BY <2>1 DEF Unbroken, Moved
  <2>3. y \in Moved(sources) /\ f[y] \in Nat
    BY <2>2 DEF Moved
  <2>4. f[y] >= y.t /\ \A u \in y.t .. f[y] - 1 : Taken(f, sources, target, y.stream, u)
    BY <2>3, PlacementFacts
  <2>5. CASE f[y] = v
    BY <2>2, <2>3, <2>5 DEF Taken, OccIn
  <2>6. CASE f[y] # v
    BY <1>1, <2>2, <2>3, <2>4, <2>6
  <2>7. QED
    BY <2>5, <2>6
<1>5. QED
  BY <1>1, <1>2, <1>3, <1>4

\* A sample that is moved stays in the ticks of its frame: there are more of
\* them than the frame has samples.
LEMMA NoOverflow ==
  ASSUME FewPeople, TablesOK, SamplesPlaced, Unbroken, FewSamplesEach,
         NEW sources \in SUBSET ClusterIds, NEW target, target \notin sources,
         NEW f, \A y \in Moved(sources) : f[y] \in Nat,
         IsPlacement(f, Moved(sources), target),
         NEW x \in Moved(sources), NEW i \in Sampled, x.t \in Ticks(i)
  PROVE  f[x] \in Ticks(i)
<1> DEFINE over(y, j) == y.t \in Ticks(j) /\ f[y] \notin Ticks(j)
           bad == {j \in Sampled : \E y \in Moved(sources) : over(y, j)}
<1> HIDE DEF over
<1>1. ASSUME NEW k \in bad, \A j \in bad : k <= j PROVE FALSE
  <2>1. PICK z \in Moved(sources) : over(z, k)
    OBVIOUS
  <2>2. z.t \in Ticks(k) /\ f[z] \notin Ticks(k) /\ k \in Sampled
    BY <2>1 DEF over
  <2>3. /\ k \in Nat /\ FrameTime(k) \in Nat /\ Ticks(k) \subseteq Nat
        /\ Interval \div 2 \in Nat \ {0} /\ Interval = 2 * (Interval \div 2)
    BY <2>2, SampledNat, TimeFacts
  <2>4. f[z] \in Nat /\ f[z] >= z.t /\ z.t \in Nat /\ FrameTime(k) <= z.t
    BY <2>2, <2>3, PlacementFacts DEF Ticks
  <2>5. f[z] > FrameTime(k) + Interval - 1
    BY <2>2, <2>3, <2>4 DEF Ticks
  <2> DEFINE B == Block(z.stream, k)
             g == [y \in B |-> IF y \in Moved(sources) THEN f[y] ELSE y.t]
  <2>6. ASSUME NEW v \in Ticks(k) PROVE \E y \in B : g[y] = v
    <3>1. v \in FrameTime(k) .. f[z]
      BY <2>3, <2>4, <2>5 DEF Ticks
    <3>2. Taken(f, sources, target, z.stream, v)
      BY <2>2, <3>1, Filled
    <3>3. CASE \E y \in OccIn(OccOf(occ, target), z.stream) : y.t = v
      <4>1. PICK y \in occ : y.cluster = target /\ y.stream = z.stream /\ y.t = v
        BY <3>3 DEF OccIn, OccOf
      <4>2. y \in B
        BY <4>1 DEF Block
      <4>3. y \notin Moved(sources)
        BY <4>1 DEF Moved
      <4>4. QED
        BY <4>1, <4>2, <4>3
    <3>4. CASE \E y \in OccIn(Moved(sources), z.stream) : f[y] = v
      <4>1. PICK y \in Moved(sources) : y.stream = z.stream /\ f[y] = v
        BY <3>4 DEF OccIn
      <4>2. y \in occ
        BY DEF Moved
      <4>3. PICK j \in Sampled : y.t \in Ticks(j)
        BY <4>2 DEF SamplesPlaced
      <4>4. f[y] \in Ticks(j)
        <5>1. CASE j \in bad
          <6>1. k <= j
            BY <1>1, <5>1
          <6>2. /\ j \in Nat /\ FrameTime(j) \in Nat /\ y.t \in Nat /\ FrameTime(j) <= y.t
            BY <4>3, SampledNat, TimeFacts DEF Ticks
          <6>3. y.t <= v /\ v \in Nat
            BY <2>3, <4>1, PlacementFacts
          <6>4. k = j
            <7>1. CASE k < j
              <8>1. k * Interval + Interval <= j * Interval
                <9>1. (k + 1) * Interval <= j * Interval
                  BY <2>3, <6>2, <7>1, Scale
                <9>2. (k + 1) * Interval = k * Interval + Interval
                  <10>1. k \in Nat /\ Interval \in Nat
                    BY <2>3
                  <10>2. QED
                    BY <10>1
                <9>3. QED
                  BY <9>1, <9>2
              <8>2. k * Interval \in Nat /\ j * Interval \in Nat
                BY <2>3, <6>2
              <8>3. FrameTime(k) + Interval <= FrameTime(j)
                BY <2>3, <6>2, <8>1, <8>2, TimeFacts
              <8>4. v <= FrameTime(k) + Interval - 1
                BY <2>3 DEF Ticks
              <8>5. QED
                BY <2>3, <6>2, <6>3, <8>3, <8>4
            <7>2. QED
              BY <2>3, <6>1, <6>2, <7>1
          <6>5. QED
            BY <4>1, <6>4
        <5>2. CASE j \notin bad
          BY <4>3, <5>2 DEF over
        <5>3. QED
          BY <5>1, <5>2
      <4>5. j = k
        BY <2>3, <4>1, <4>3, <4>4, SampledNat, TicksApart
      <4>6. y \in B
        BY <4>1, <4>2, <4>3, <4>5 DEF Block
      <4>7. QED
        BY <4>1, <4>6
    <3>5. QED
      BY <3>2, <3>3, <3>4 DEF Taken
  <2>7. z.stream \in Streams
    BY PartFacts DEF Sample, Moved
  <2>8. IsFiniteSet(B) /\ Cardinality(B) <= Interval \div 2 /\ Cardinality(B) \in Nat
    BY <2>2, <2>7, PartFacts, BlockSmall
  <2>9. Cardinality(Ticks(k)) <= Cardinality(B)
    <3> HIDE DEF B
    <3>1. g = [y \in B |-> g[y]]
      OBVIOUS
    <3> HIDE DEF g
    <3>2. QED
      BY <2>6, <2>8, <3>1, Reached
  <2>10. Cardinality(Ticks(k)) = Interval
    <3>1. FrameTime(k) \in Int /\ FrameTime(k) + Interval - 1 \in Int
          /\ ~(FrameTime(k) > FrameTime(k) + Interval - 1)
      BY <2>3
    <3>2. Cardinality(Ticks(k)) = (FrameTime(k) + Interval - 1) - FrameTime(k) + 1
      BY <3>1, FS_Interval DEF Ticks
    <3>3. QED
      BY <2>3, <3>2
  <2> HIDE DEF B
  <2>11. QED
    BY <2>3, <2>8, <2>9, <2>10
<1>2. bad = {}
  <2>1. bad \in SUBSET Nat
    BY SampledNat
  <2> HIDE DEF bad
  <2>2. ASSUME bad # {} PROVE FALSE
    <3>1. PICK k \in bad : \A j \in bad : k <= j
      BY <2>1, <2>2, LeastNatural
    <3>2. QED
      BY <1>1, <3>1
  <2>3. QED
    BY <2>2
<1>3. QED
  BY <1>2 DEF over

\* What a merge leaves of the samples: all, those of the sources on the target.
LEMMA MergeShape ==
  ASSUME TablesOK, NEW o \in Owners, NEW target \in ClusterIds,
         NEW sources \in SUBSET ClusterIds, Merge(o, target, sources)
  PROVE  /\ Live' = Live \ sources /\ target \notin sources
         /\ \E f : /\ IsPlacement(f, Moved(sources), target)
                   /\ \A x \in Moved(sources) : f[x] \in Nat
                   /\ occ' = Merged(f, target, sources, o)
<1>1. TypeInv /\ OccurrencesOwned
  BY DEF TablesOK, LibraryInv
<1>2. /\ Live' = Live \ sources /\ target \in Live'
      /\ \E f \in [Moved(sources) -> Slots] :
              /\ IsPlacement(f, Moved(sources), target)
              /\ occ' = Referenced(Merged(f, target, sources, o), Live')
  BY <1>1, MergeEffect
<1>3. PICK f \in [Moved(sources) -> Slots] :
              /\ IsPlacement(f, Moved(sources), target)
              /\ occ' = Referenced(Merged(f, target, sources, o), Live')
  BY <1>2
<1>4. \A x \in Merged(f, target, sources, o) : x.cluster \in Live'
  BY <1>1, <1>2 DEF Merged, Moved, Put, OccurrencesOwned
<1>5. occ' = Merged(f, target, sources, o)
  BY <1>3, <1>4 DEF Referenced
<1>6. \A x \in Moved(sources) : f[x] \in Nat
  BY <1>1, SlotsNat DEF TypeInv
<1>7. QED
  BY <1>2, <1>3, <1>5, <1>6

\* The frame of a moved sample is the one it came from.
LEMMA FrameKept ==
  ASSUME FewPeople, TablesOK, SamplesPlaced, Unbroken, FewSamplesEach,
         NEW sources \in SUBSET ClusterIds, NEW target, target \notin sources,
         NEW f, \A y \in Moved(sources) : f[y] \in Nat,
         IsPlacement(f, Moved(sources), target),
         NEW x \in Moved(sources), NEW i \in Sampled
  PROVE  x.t \in Ticks(i) <=> f[x] \in Ticks(i)
<1>1. x.t \in Ticks(i) => f[x] \in Ticks(i)
  BY NoOverflow
<1>2. ASSUME f[x] \in Ticks(i) PROVE x.t \in Ticks(i)
  <2>1. PICK j \in Sampled : x.t \in Ticks(j)
    BY DEF SamplesPlaced, Moved
  <2>2. f[x] \in Ticks(j)
    BY <2>1, NoOverflow
  <2>3. i = j
    BY <1>2, <2>2, SampledNat, TicksApart
  <2>4. QED
    BY <2>1, <2>3
<1>3. QED
  BY <1>1, <1>2

\* A merge leaves no tick out.
LEMMA MergeUnbroken ==
  ASSUME FewPeople, TablesOK, SamplesPlaced, Unbroken, FewSamplesEach,
         NEW sources \in SUBSET ClusterIds, NEW target, target \notin sources, NEW o,
         NEW f, \A y \in Moved(sources) : f[y] \in Nat,
         IsPlacement(f, Moved(sources), target), occ' = Merged(f, target, sources, o)
  PROVE  Unbroken'
<1> SUFFICES ASSUME NEW x \in occ', NEW i \in Sampled, x.t \in Ticks(i),
                    NEW v \in FrameTime(i) .. x.t
             PROVE  \E y \in occ' : y.stream = x.stream /\ y.cluster = x.cluster /\ y.t = v
  BY DEF Unbroken, Sampled, Ticks, FrameTime, FrameIndices, Stride
<1>1. CASE x \in occ \ Moved(sources)
  <2>1. PICK y \in occ : y.stream = x.stream /\ y.cluster = x.cluster /\ y.t = v
    BY <1>1 DEF Unbroken
  <2>2. y \in occ'
    BY <1>1, <2>1 DEF Merged, Moved
  <2>3. QED
    BY <2>1, <2>2
<1>2. CASE x \notin occ \ Moved(sources)
  <2>1. PICK z \in Moved(sources) : x = Put(f, z, target, o)
    BY <1>2 DEF Merged
  <2>2. x.t = f[z] /\ x.stream = z.stream /\ x.cluster = target
    BY <2>1 DEF Put
  <2>3. z.t \in Ticks(i)
    BY <2>2, FrameKept
  <2>4. Taken(f, sources, target, z.stream, v)
    BY <2>2, <2>3, Filled
  <2>5. CASE \E y \in OccIn(OccOf(occ, target), z.stream) : y.t = v
    BY <2>2, <2>5 DEF OccIn, OccOf, Merged, Moved
  <2>6. CASE \E y \in OccIn(Moved(sources), z.stream) : f[y] = v
    <3>1. PICK y \in Moved(sources) : y.stream = z.stream /\ f[y] = v
      BY <2>6 DEF OccIn
    <3>2. /\ Put(f, y, target, o) \in occ' /\ Put(f, y, target, o).t = v
          /\ Put(f, y, target, o).stream = x.stream /\ Put(f, y, target, o).cluster = x.cluster
      BY <2>2, <3>1 DEF Merged, Put
    <3>3. QED
      BY <3>2
  <2>7. QED
    BY <2>4, <2>5, <2>6 DEF Taken
<1>3. QED
  BY <1>1, <1>2

\* A merge gives no frame a sample more, and nobody who keeps a sample is absent.
LEMMA MergeFew ==
  ASSUME FewPeople, TablesOK, SamplesPlaced, Unbroken, FewSamplesEach,
         NEW sources \in SUBSET ClusterIds, NEW target, target \notin sources, NEW o,
         Live' = Live \ sources, minted' = minted,
         NEW f, \A y \in Moved(sources) : f[y] \in Nat,
         IsPlacement(f, Moved(sources), target), occ' = Merged(f, target, sources, o)
  PROVE  FewSamplesEach'
<1> SUFFICES ASSUME NEW s \in Streams, NEW i \in Sampled
             PROVE  Cardinality(Block(s, i)') + Cardinality(Absent(s, i)') <= Cardinality(minted)
  BY DEF FewSamplesEach, Sampled, FrameIndices, Stride
<1> DEFINE g == [x \in Block(s, i) |-> IF x \in Moved(sources) THEN Put(f, x, target, o) ELSE x]
<1>1. ASSUME NEW y \in Block(s, i)' PROVE \E x \in Block(s, i) : g[x] = y
  <2>1. y \in occ' /\ y.stream = s /\ y.t \in Ticks(i)
    BY DEF Block, Ticks, FrameTime
  <2>2. CASE y \in occ \ Moved(sources)
    BY <2>1, <2>2 DEF Block
  <2>3. CASE y \notin occ \ Moved(sources)
    <3>1. PICK x \in Moved(sources) : y = Put(f, x, target, o)
      BY <2>1, <2>3 DEF Merged
    <3>2. x.t \in Ticks(i) /\ x.stream = s
      BY <2>1, <3>1, FrameKept DEF Put
    <3>3. x \in Block(s, i)
      BY <3>2 DEF Block, Moved
    <3>4. QED
      BY <3>1, <3>3
  <2>4. QED
    BY <2>2, <2>3
<1>2. Cardinality(Block(s, i)') <= Cardinality(Block(s, i))
  <2>1. g = [x \in Block(s, i) |-> g[x]]
    OBVIOUS
  <2> HIDE DEF g
  <2>2. QED
    BY <1>1, <2>1, Reached, PartFacts
<1>3. Absent(s, i)' \subseteq Absent(s, i)
  <2>1. ASSUME NEW c \in Absent(s, i)', NEW x \in Block(s, i), x.cluster = c PROVE FALSE
    <3>1. c \in Live /\ c \notin sources /\ \A y \in Block(s, i)' : y.cluster # c
      BY DEF Absent
    <3>2. x \in occ' /\ x.stream = s /\ x.t \in Ticks(i)
      BY <2>1, <3>1 DEF Block, Merged, Moved
    <3>3. x \in Block(s, i)'
      BY <3>2 DEF Block, Ticks, FrameTime
    <3>4. QED
      BY <2>1, <3>1, <3>3
  <2>2. QED
    BY <2>1 DEF Absent
<1>4. Cardinality(Absent(s, i)') <= Cardinality(Absent(s, i))
  BY <1>3, PartFacts, FS_Subset
<1>5. /\ Cardinality(Block(s, i)') \in Nat /\ Cardinality(Absent(s, i)') \in Nat
  <2>1. IsFiniteSet(Block(s, i)')
    <3>1. g = [x \in Block(s, i) |-> g[x]]
      OBVIOUS
    <3> HIDE DEF g
    <3>2. QED
      BY <1>1, <3>1, Reached, PartFacts
  <2>2. IsFiniteSet(Absent(s, i)')
    BY <1>3, PartFacts, FS_Subset
  <2>3. QED
    BY <2>1, <2>2, FS_CardinalityType
<1>6. Cardinality(Block(s, i)) + Cardinality(Absent(s, i)) <= Cardinality(minted)
  BY DEF FewSamplesEach
<1>7. QED
  BY <1>2, <1>4, <1>5, <1>6, PartFacts

\* The part of the picture invariant on samples, and the part on items.
PicturesOK == SamplesPlaced /\ Unbroken /\ FewSamplesEach

AllItemsShown == \A w \in Workers : ItemsShown(task[w])

\* The two parts of the picture invariant, on samples and on items.
LEMMA PictureParts ==
  /\ PictureInv <=> PicturesOK /\ AllItemsShown
  /\ PictureInv' <=> PicturesOK' /\ AllItemsShown'
BY DEF PictureInv, PicturesOK, AllItemsShown

\* Steps that leave the samples and the people alone.
LEMMA PicturesStay ==
  ASSUME PicturesOK, occ' = occ, embedding' = embedding, video' = video, Live' = Live,
         minted' = minted
  PROVE  PicturesOK'
<1>1. SamplesPlaced'
  BY ZenonT(30) DEF PicturesOK, SamplesPlaced, ShowsFace, Sampled, Ticks, FrameTime,
                    FrameIndices, Stride
<1>2. Unbroken'
  BY DEF PicturesOK, Unbroken, Sampled, Ticks, FrameTime, FrameIndices, Stride
<1>3. ASSUME NEW s, NEW i PROVE Block(s, i)' = Block(s, i) /\ Absent(s, i)' = Absent(s, i)
  BY DEF Block, Absent, Ticks, FrameTime
<1>4. FewSamplesEach'
  BY <1>3 DEF PicturesOK, FewSamplesEach, Sampled, FrameIndices, Stride
<1>5. QED
  BY <1>1, <1>2, <1>4 DEF PicturesOK

\* Steps that leave the runs alone.
LEMMA ItemsStay ==
  ASSUME AllItemsShown, video' = video, task' = task
  PROVE  AllItemsShown'
BY ZenonT(30) DEF AllItemsShown, ItemsShown, ShowsFace, Sampled, FrameTime, FrameIndices, Stride

\* One run takes a step, and what it will append is still shown.
LEMMA ItemsOfOne ==
  ASSUME AllItemsShown, TasksOK, video' = video, NEW w \in Workers, NEW tk, ItemsShown(tk),
         task' = [task EXCEPT ![w] = tk]
  PROVE  AllItemsShown'
<1>1. ASSUME NEW q \in Workers PROVE ItemsShown(task'[q])
  <2>1. CASE q = w
    BY <2>1 DEF TasksOK
  <2>2. CASE q # w
    BY <2>2 DEF TasksOK, AllItemsShown
  <2>3. QED
    BY <2>1, <2>2
<1>2. ASSUME NEW q \in Workers PROVE ItemsShown(task[q])'
  <2>1. ItemsShown(task'[q])
    BY <1>1
  <2>2. QED
    BY <2>1 DEF ItemsShown, ShowsFace, Sampled, FrameTime, FrameIndices, Stride
<1>3. QED
  BY <1>2 DEF AllItemsShown

\* A merged sample is rendered from the frame it came from.
LEMMA MergePictures ==
  ASSUME FewPeople, RecInv, PictureInv, NEW target \in ClusterIds,
         NEW sources \in SUBSET ClusterIds, MergeFaces(target, sources)
  PROVE  PictureInv'
<1> DEFINE moved  == {x \in occ : x.cluster \in sources}
           landed == occ' \ (occ \ moved)
<1>1. TablesOK /\ PicturesOK /\ AllItemsShown
  BY RecInvParts, PictureParts
<1>2. SamplesPlaced /\ Unbroken /\ FewSamplesEach
  BY <1>1 DEF PicturesOK
<1>3. /\ video' = video /\ task' = task /\ minted' = minted
      /\ \E o \in Owners : Merge(o, target, sources)
  BY DEF MergeFaces, Merge
<1>4. PICK o \in Owners : Merge(o, target, sources)
  BY <1>3
<1>5. PICK f0 : /\ IsPlacement(f0, Moved(sources), target)
                /\ \A x \in Moved(sources) : f0[x] \in Nat
                /\ occ' = Merged(f0, target, sources, o)
  BY <1>1, <1>4, MergeShape
<1>6. Live' = Live \ sources /\ target \notin sources
  BY <1>1, <1>4, MergeShape
<1>7. Unbroken'
  BY <1>1, <1>2, <1>5, <1>6, MergeUnbroken
<1>8. FewSamplesEach'
  BY <1>1, <1>2, <1>3, <1>5, <1>6, MergeFew
<1>9. PICK f \in [moved -> {y.t : y \in landed}] :
        /\ IsPlacement(f, moved, target)
        /\ \A y \in landed : \E x \in moved : x.stream = y.stream /\ f[x] = y.t
        /\ embedding' = [y \in occ' |->
             IF y \notin landed THEN embedding[y]
             ELSE embedding[CHOOSE x \in moved : x.stream = y.stream /\ f[x] = y.t]]
  BY DEF MergeFaces
<1>10. moved = Moved(sources)
  BY DEF Moved
<1>11. \A x \in Moved(sources) : f[x] \in Nat
  <2>1. \A y \in landed : y.t \in Nat
    <3>1. TablesOK'
      BY <1>1, <1>4, MergeKeeps
    <3>2. occ' \subseteq Sample
      BY <3>1 DEF TablesOK, LibraryInv, TypeInv, TypeOK
    <3>3. QED
      BY <3>2 DEF Sample
  <2>2. QED
    BY <1>9, <1>10, <2>1
<1> HIDE DEF moved
<1>12. ASSUME NEW y \in occ'
       PROVE  \E i \in Sampled : y.t \in Ticks(i) /\ ShowsFace(y.stream, i, embedding'[y])
  <2>1. CASE y \notin landed
    <3>1. y \in occ /\ embedding'[y] = embedding[y]
      BY <1>9, <2>1
    <3>2. QED
      BY <1>2, <3>1 DEF SamplesPlaced
  <2>2. CASE y \in landed
    <3> DEFINE x == CHOOSE x \in moved : x.stream = y.stream /\ f[x] = y.t
    <3>1. x \in moved /\ x.stream = y.stream /\ f[x] = y.t
      BY <1>9, <2>2
    <3>2. embedding'[y] = embedding[x]
      BY <1>9, <2>2
    <3> HIDE DEF x
    <3>3. PICK i \in Sampled : x.t \in Ticks(i) /\ ShowsFace(x.stream, i, embedding[x])
      BY <1>2, <1>10, <3>1 DEF SamplesPlaced, Moved
    <3>4. f[x] \in Ticks(i)
      BY <1>1, <1>2, <1>6, <1>9, <1>10, <1>11, <3>1, <3>3, NoOverflow
    <3>5. QED
      BY <3>1, <3>2, <3>3, <3>4
  <2>3. QED
    BY <2>1, <2>2
<1> HIDE DEF landed
<1>13. SamplesPlaced'
  BY <1>3, <1>12 DEF SamplesPlaced, ShowsFace, Sampled, Ticks, FrameTime, FrameIndices, Stride
<1>14. AllItemsShown'
  BY <1>1, <1>3, ItemsStay
<1>15. QED
  BY <1>7, <1>8, <1>13, <1>14, PictureParts DEF PicturesOK

\* A deletion leaves the pictures of the others.
LEMMA DeletePictures ==
  ASSUME RecInv, PictureInv, NEW c \in ClusterIds, DeleteFace(c)
  PROVE  PictureInv'
<1>1. TablesOK /\ PicturesOK /\ AllItemsShown /\ OccurrencesOwned
  BY RecInvParts, PictureParts DEF TablesOK, LibraryInv
<1>2. /\ video' = video /\ embedding' = [x \in occ' |-> embedding[x]] /\ task' = task
      /\ minted' = minted /\ Live' = Live \ {c} /\ occ' = {x \in occ : x.cluster # c}
  BY <1>1 DEF DeleteFace, Delete, Referenced, Without, Live, OccOf, OccurrencesOwned
<1>3. SamplesPlaced'
  <2>1. \A x \in occ' : x \in occ /\ embedding'[x] = embedding[x]
    BY <1>2
  <2>2. QED
    BY <1>1, <1>2, <2>1, ZenonT(30)
    DEF PicturesOK, SamplesPlaced, ShowsFace, Sampled, Ticks, FrameTime, FrameIndices, Stride
<1>4. Unbroken'
  BY <1>1, <1>2 DEF PicturesOK, Unbroken, Sampled, Ticks, FrameTime, FrameIndices, Stride
<1>5. FewSamplesEach'
  <2> SUFFICES ASSUME NEW s \in Streams, NEW i \in Sampled
               PROVE  Cardinality(Block(s, i)') + Cardinality(Absent(s, i)') <= Cardinality(minted)
    BY <1>2 DEF FewSamplesEach, Sampled, FrameIndices, Stride
  <2>1. Block(s, i)' \subseteq Block(s, i) /\ Absent(s, i)' \subseteq Absent(s, i)
    BY <1>2 DEF Block, Absent, Ticks, FrameTime
  <2>2. /\ Cardinality(Block(s, i)') <= Cardinality(Block(s, i))
        /\ Cardinality(Absent(s, i)') <= Cardinality(Absent(s, i))
        /\ IsFiniteSet(Block(s, i)') /\ IsFiniteSet(Absent(s, i)')
    BY <1>1, <2>1, PartFacts, FS_Subset
  <2>3. Cardinality(Block(s, i)') \in Nat /\ Cardinality(Absent(s, i)') \in Nat
    BY <2>2, FS_CardinalityType
  <2>4. Cardinality(Block(s, i)) + Cardinality(Absent(s, i)) <= Cardinality(minted)
    BY <1>1 DEF PicturesOK, FewSamplesEach
  <2>5. QED
    BY <1>1, <2>2, <2>3, <2>4, PartFacts
<1>6. AllItemsShown'
  BY <1>1, <1>2, ItemsStay
<1>7. QED
  BY <1>3, <1>4, <1>5, <1>6, PictureParts DEF PicturesOK

(***************************************************************************)
(* Runs and pictures.                                                      *)
(***************************************************************************)

\* The next item is what the frame shows.
LEMMA AssignedShown ==
  ASSUME NEW me, NEW ids, TaskOK(me, ids), me.pc = "frame", ItemsShown(me), VideoOK,
         me.face < Len(Shown(me)), NEW c, NEW known, NEW v
  PROVE  ItemsShown(Assigned(me, c, known, v, Shown(me)[me.face + 1]))
<1> DEFINE e    == Shown(me)[me.face + 1]
           i    == FrameIndices[me.at]
           item == [cluster |-> c, t |-> FrameTime(i), embedding |-> e]
           new  == Assigned(me, c, known, v, e)
<1>1. /\ me \in TaskRecord /\ me.items \in Seq(Item) /\ me.face \in Nat
      /\ me.at \in DOMAIN FrameIndices
  BY DEF TaskOK, TaskRecord
<1>2. new.items = Append(me.items, item) /\ new.stream = me.stream
  BY <1>1 DEF Assigned, TaskRecord
<1>3. i \in Sampled
  BY <1>1 DEF Sampled
<1>4. ShowsFace(me.stream, i, e)
  <2>1. Shown(me) \in Seq(Embeddings) /\ Shown(me) = video[<<me.stream, i>>]
    BY ShownFacts DEF Shown
  <2>2. me.face + 1 \in DOMAIN Shown(me)
    BY <1>1, <2>1
  <2>3. QED
    BY <2>1, <2>2 DEF ShowsFace
<1> HIDE DEF e, i
<1>5. item.t = FrameTime(i) /\ item.embedding = e
  OBVIOUS
<1> HIDE DEF item, new
<1>6. \A n \in DOMAIN new.items :
        \/ n \in DOMAIN me.items /\ new.items[n] = me.items[n]
        \/ new.items[n] = item
  BY <1>1, <1>2
<1>7. ItemsShown(new)
  BY <1>2, <1>3, <1>4, <1>5, <1>6 DEF ItemsShown
<1>8. QED
  BY <1>7 DEF new, e

\* A new request has no item yet.
LEMMA StartInferPictures ==
  ASSUME RecInv, PictureInv, NEW w \in Workers, NEW o \in Owners, NEW s \in Streams,
         StartInfer(w, o, s)
  PROVE  PictureInv'
<1> DEFINE new == [Idle EXCEPT !.pc = "frame", !.owner = o, !.stream = s,
                               !.clusters = ClustersOf(o)]
<1>1. PicturesOK /\ AllItemsShown /\ TasksOK
  BY RecInvParts, PictureParts
<1>2. /\ UNCHANGED libvars /\ video' = video /\ embedding' = embedding
      /\ task' = [task EXCEPT ![w] = new]
  BY DEF StartInfer, Become
<1>3. PicturesOK'
  BY <1>1, <1>2, PicturesStay DEF libvars, Live
<1>4. ItemsShown(new)
  BY DEF ItemsShown, Idle
<1> HIDE DEF new
<1>5. AllItemsShown'
  BY <1>1, <1>2, <1>4, ItemsOfOne
<1>6. QED
  BY <1>3, <1>5, PictureParts

\* A match notes down a face of its frame.
LEMMA FaceKnownPictures ==
  ASSUME RecInv, PictureInv, NEW w \in Workers, FaceKnown(w)
  PROVE  PictureInv'
<1> DEFINE me == task[w]
<1>1. PicturesOK /\ AllItemsShown /\ TasksOK /\ VideoOK
  BY RecInvParts, PictureParts
<1>2. /\ me.pc = "frame" /\ me.face < Len(Shown(me))
      /\ UNCHANGED libvars /\ video' = video /\ embedding' = embedding
  BY DEF FaceKnown
<1>3. PICK c, known, v :
        task' = [task EXCEPT ![w] = Assigned(me, c, known, v, Shown(me)[me.face + 1])]
  BY DEF FaceKnown, Become
<1>4. TaskOK(me, minted) /\ ItemsShown(me)
  BY <1>1 DEF TasksOK, AllItemsShown
<1> HIDE DEF me
<1>5. ItemsShown(Assigned(me, c, known, v, Shown(me)[me.face + 1]))
  BY <1>1, <1>2, <1>4, AssignedShown
<1>6. AllItemsShown'
  BY <1>1, <1>2, <1>3, <1>5, ItemsOfOne
<1>7. PicturesOK'
  BY <1>1, <1>2, PicturesStay DEF libvars, Live
<1>8. QED
  BY <1>6, <1>7, PictureParts

\* A new person has no sample yet, but an id.
LEMMA FaceUnknownPictures ==
  ASSUME RecInv, PictureInv, NEW w \in Workers, FaceUnknown(w)
  PROVE  PictureInv'
<1> DEFINE me == task[w]
           id == Cardinality(minted) + 1
           e  == Shown(me)[me.face + 1]
<1>1. PicturesOK /\ AllItemsShown /\ TasksOK /\ VideoOK /\ TablesOK
  BY RecInvParts, PictureParts
<1>2. /\ me.pc = "frame" /\ me.face < Len(Shown(me))
      /\ Upsert(me.owner, e, id)
      /\ video' = video /\ embedding' = embedding
  BY DEF FaceUnknown
<1>3. PICK c, known, v : task' = [task EXCEPT ![w] = Assigned(me, c, known, v, e)]
  BY DEF FaceUnknown, Become
<1>4. TaskOK(me, minted) /\ ItemsShown(me)
  BY <1>1 DEF TasksOK, AllItemsShown
<1>5. /\ occ' = occ /\ minted' = minted \cup {id} /\ id \notin minted /\ Live' = Live \cup {id}
  BY <1>2 DEF Upsert, Live
<1> HIDE DEF id
<1>6. AllItemsShown'
  <2> HIDE DEF me
  <2>1. ItemsShown(Assigned(me, c, known, v, e))
    BY <1>1, <1>2, <1>4, AssignedShown
  <2>2. QED
    BY <1>1, <1>2, <1>3, <2>1, ItemsOfOne
<1>7. SamplesPlaced'
  BY <1>1, <1>2, <1>5, ZenonT(30)
  DEF PicturesOK, SamplesPlaced, ShowsFace, Sampled, Ticks, FrameTime, FrameIndices, Stride
<1>8. Unbroken'
  BY <1>1, <1>5 DEF PicturesOK, Unbroken, Sampled, Ticks, FrameTime, FrameIndices, Stride
<1>9. FewSamplesEach'
  <2> SUFFICES ASSUME NEW s \in Streams, NEW i \in Sampled
               PROVE  Cardinality(Block(s, i)') + Cardinality(Absent(s, i)')
                        <= Cardinality(minted')
    BY DEF FewSamplesEach, Sampled, FrameIndices, Stride
  <2>1. Block(s, i)' = Block(s, i) /\ Absent(s, i)' \subseteq Absent(s, i) \cup {id}
    BY <1>5 DEF Block, Absent, Ticks, FrameTime
  <2>2. /\ IsFiniteSet(Absent(s, i) \cup {id})
        /\ Cardinality(Absent(s, i) \cup {id}) <= Cardinality(Absent(s, i)) + 1
        /\ Cardinality(Absent(s, i) \cup {id}) \in Nat
        /\ Cardinality(minted') = Cardinality(minted) + 1
    <3>1. /\ IsFiniteSet(Absent(s, i)) /\ Cardinality(Absent(s, i)) \in Nat
          /\ IsFiniteSet(minted)
      BY <1>1, PartFacts
    <3>2. /\ IsFiniteSet(Absent(s, i) \cup {id})
          /\ Cardinality(Absent(s, i) \cup {id}) =
               IF id \in Absent(s, i) THEN Cardinality(Absent(s, i))
               ELSE Cardinality(Absent(s, i)) + 1
      BY <3>1, FS_AddElement
    <3>3. Cardinality(minted \cup {id}) = Cardinality(minted) + 1
      BY <1>5, <3>1, FS_AddElement
    <3>4. QED
      BY <1>5, <3>1, <3>2, <3>3
  <2>3. /\ Cardinality(Absent(s, i)') <= Cardinality(Absent(s, i) \cup {id})
        /\ Cardinality(Absent(s, i)') \in Nat
    BY <2>1, <2>2, FS_Subset, FS_CardinalityType
  <2>4. Cardinality(Block(s, i)) + Cardinality(Absent(s, i)) <= Cardinality(minted)
    BY <1>1 DEF PicturesOK, FewSamplesEach
  <2>5. /\ Cardinality(Block(s, i)) \in Nat /\ Cardinality(Absent(s, i)) \in Nat
        /\ Cardinality(minted) \in Nat
    BY <1>1, PartFacts
  <2>6. QED
    BY <2>1, <2>2, <2>3, <2>4, <2>5
<1>10. QED
  BY <1>6, <1>7, <1>8, <1>9, PictureParts DEF PicturesOK

\* The items of a run stay when it goes on.
LEMMA NextFramePictures ==
  ASSUME RecInv, PictureInv, NEW w \in Workers, NextFrame(w)
  PROVE  PictureInv'
<1> DEFINE me == task[w]
           new == IF me.at = Len(FrameIndices) THEN [me EXCEPT !.pc = "append", !.clusters = <<>>]
                  ELSE [me EXCEPT !.at = @ + 1, !.face = 0]
<1>1. PicturesOK /\ AllItemsShown /\ TasksOK /\ VideoOK
  BY RecInvParts, PictureParts
<1>2. /\ task' = [task EXCEPT ![w] = new]
      /\ UNCHANGED libvars /\ video' = video /\ embedding' = embedding
  BY DEF NextFrame, Become
<1>3. ItemsShown(new)
  <2>1. ItemsShown(me) /\ me \in TaskRecord
    BY <1>1 DEF AllItemsShown, TasksOK
  <2> HIDE DEF me
  <2>2. new.items = me.items /\ new.stream = me.stream
    BY <2>1 DEF TaskRecord
  <2> HIDE DEF new
  <2>3. QED
    BY <2>1, <2>2 DEF ItemsShown
<1> HIDE DEF new
<1>4. AllItemsShown'
  BY <1>1, <1>2, <1>3, ItemsOfOne
<1>5. PicturesOK'
  BY <1>1, <1>2, PicturesStay DEF libvars, Live
<1>6. QED
  BY <1>4, <1>5, PictureParts

\* The writing of means touches no sample.
LEMMA UpdateDriftPictures ==
  ASSUME RecInv, PictureInv, NEW w \in Workers, UpdateDrift(w)
  PROVE  PictureInv'
<1> DEFINE me == task[w]
           new == IF Len(me.drift) = 1 THEN Idle ELSE [me EXCEPT !.drift = Tail(@)]
<1>1. PicturesOK /\ AllItemsShown /\ TasksOK /\ VideoOK
  BY RecInvParts, PictureParts
<1>2. /\ task' = [task EXCEPT ![w] = new]
      /\ UpdateCentroid(Head(me.drift)[1], me.owner, Head(me.drift)[2])
      /\ video' = video /\ embedding' = embedding
  BY DEF UpdateDrift, Become
<1>3. ItemsShown(new)
  <2>1. ItemsShown(me) /\ me \in TaskRecord
    BY <1>1 DEF AllItemsShown, TasksOK
  <2>2. Idle.items = <<>>
    BY DEF Idle
  <2> HIDE DEF me
  <2>3. \/ new.items = me.items /\ new.stream = me.stream
        \/ new.items = <<>>
    BY <2>1, <2>2 DEF TaskRecord
  <2> HIDE DEF new
  <2>4. QED
    BY <2>1, <2>3 DEF ItemsShown
<1> HIDE DEF new
<1>4. AllItemsShown'
  BY <1>1, <1>2, <1>3, ItemsOfOne
<1>5. occ' = occ /\ minted' = minted /\ Live' = Live
  BY <1>2 DEF UpdateCentroid, Live
<1>6. PicturesOK'
  BY <1>1, <1>2, <1>5, PicturesStay
<1>7. QED
  BY <1>4, <1>6, PictureParts

\* A rename touches no sample.
LEMMA RenamePictures ==
  ASSUME RecInv, PictureInv, NEW c \in ClusterIds, NEW n \in Names \cup {NoName}, RenameFace(c, n)
  PROVE  PictureInv'
<1>1. PicturesOK /\ AllItemsShown /\ TasksOK /\ VideoOK
  BY RecInvParts, PictureParts
<1>2. /\ video' = video /\ embedding' = embedding /\ task' = task
      /\ occ' = occ /\ minted' = minted /\ Live' = Live
  BY DEF RenameFace, Rename, Live
<1>3. QED
  BY <1>1, <1>2, PicturesStay, ItemsStay, PictureParts

\* The time of a frame is the first of its ticks.
LEMMA OwnTick == ASSUME NEW i \in Nat PROVE FrameTime(i) \in Ticks(i)
BY TimeFacts DEF Ticks

\* What an append adds to a frame is one sample each for people who had none.
LEMMA AppendFew ==
  ASSUME TablesOK, Unbroken, FewSamplesEach, NEW o, NEW s \in Streams, NEW items,
         \A n \in items : n[1] \in Live,
         \A x \in Fresh(o, s, items) : \E i \in Sampled : x.t = FrameTime(i),
         occ' = occ \cup Fresh(o, s, items), Live' = Live, minted' = minted
  PROVE  FewSamplesEach'
<1> SUFFICES ASSUME NEW r \in Streams, NEW i \in Sampled
             PROVE  Cardinality(Block(r, i)') + Cardinality(Absent(r, i)') <= Cardinality(minted)
  BY DEF FewSamplesEach, Sampled, FrameIndices, Stride
<1> DEFINE New  == {x \in Fresh(o, s, items) : x.stream = r /\ x.t \in Ticks(i)}
           Gone == {c \in Absent(r, i) : \E x \in New : x.cluster = c}
           Rec(c) == [stream |-> s, cluster |-> c, t |-> FrameTime(i), owner |-> o]
           g    == [c \in Gone |-> Rec(c)]
           B    == Block(r, i)
           A    == Absent(r, i)
<1>1. i \in Nat /\ FrameTime(i) \in Ticks(i) /\ FrameTime(i) \in Nat
  BY SampledNat, OwnTick, TimeFacts
<1>2. \A x \in New : x = Rec(x.cluster) /\ x.stream = s /\ r = s /\ x.t = FrameTime(i)
  <2> SUFFICES ASSUME NEW x \in New
               PROVE  x = Rec(x.cluster) /\ x.stream = s /\ r = s /\ x.t = FrameTime(i)
    OBVIOUS
  <2>1. PICK n \in items : x = [stream |-> s, cluster |-> n[1], t |-> n[2], owner |-> o]
    BY DEF Fresh
  <2>2. PICK j \in Sampled : x.t = FrameTime(j)
    OBVIOUS
  <2>3. j = i
    BY <1>1, <2>2, OwnTick, SampledNat, TicksApart
  <2>4. x.cluster = n[1] /\ x.t = n[2] /\ x.stream = s
    BY <2>1
  <2>5. QED
    BY <2>1, <2>2, <2>3, <2>4
<1>3. \A x \in New : x.cluster \in Gone
  <2> SUFFICES ASSUME NEW x \in New PROVE x.cluster \in Absent(r, i)
    OBVIOUS
  <2>1. x.cluster \in Live /\ \A y \in occ : <<y.stream, y.cluster, y.t>> # <<s, x.cluster, x.t>>
    BY DEF Fresh
  <2>2. ASSUME NEW y \in Block(r, i), y.cluster = x.cluster PROVE FALSE
    <3>1. y \in occ /\ y.stream = r /\ y.t \in Ticks(i)
      BY DEF Block
    <3>2. FrameTime(i) \in FrameTime(i) .. y.t
      BY <1>1, <3>1, TimeFacts DEF Ticks
    <3>3. PICK z \in occ : z.stream = y.stream /\ z.cluster = y.cluster /\ z.t = FrameTime(i)
      BY <3>1, <3>2 DEF Unbroken
    <3>4. QED
      BY <1>2, <2>1, <2>2, <3>1, <3>3
  <2>3. QED
    BY <2>1, <2>2 DEF Absent
<1>4. Block(r, i)' = B \cup New
  BY DEF Block, Ticks, FrameTime
<1>5. Absent(r, i)' \subseteq A \ Gone
  <2>1. Absent(r, i)' = {c \in Live : \A x \in B \cup New : x.cluster # c}
    BY <1>4 DEF Absent
  <2>2. QED
    BY <2>1 DEF Absent
<1> HIDE DEF B, A, New
<1>6. /\ IsFiniteSet(A) /\ Cardinality(A) \in Nat /\ IsFiniteSet(B) /\ Cardinality(B) \in Nat
      /\ Cardinality(minted) \in Nat
  BY PartFacts DEF A, B
<1>7. Gone \subseteq A /\ IsFiniteSet(Gone) /\ Cardinality(Gone) \in Nat
  <2>1. Gone \subseteq A
    BY DEF A
  <2>2. QED
    BY <1>6, <2>1, FS_Subset, FS_CardinalityType
<1> HIDE DEF Gone, Rec
<1>8. IsFiniteSet(New) /\ Cardinality(New) <= Cardinality(Gone) /\ Cardinality(New) \in Nat
  <2>1. \A x \in New : \E c \in Gone : g[c] = x
    BY <1>2, <1>3
  <2>2. g = [c \in Gone |-> g[c]]
    OBVIOUS
  <2> HIDE DEF g
  <2>3. IsFiniteSet(New) /\ Cardinality(New) <= Cardinality(Gone)
    BY <1>7, <2>1, <2>2, Reached
  <2>4. QED
    BY <2>3, FS_CardinalityType
<1>9. /\ Cardinality(B \cup New) <= Cardinality(B) + Cardinality(New)
      /\ Cardinality(B \cup New) \in Nat
  <2>1. Cardinality(B \cup New) = Cardinality(B) + Cardinality(New) - Cardinality(B \cap New)
        /\ IsFiniteSet(B \cup New)
    BY <1>6, <1>8, FS_Union
  <2>2. Cardinality(B \cap New) \in Nat /\ Cardinality(B \cup New) \in Nat
    BY <1>6, <2>1, FS_Intersection, FS_CardinalityType
  <2>3. QED
    BY <1>6, <1>8, <2>1, <2>2
<1>10. /\ Cardinality(Absent(r, i)') <= Cardinality(A) - Cardinality(Gone)
      /\ Cardinality(Absent(r, i)') \in Nat
  <2>1. IsFiniteSet(A \ Gone) /\ Cardinality(A \ Gone) = Cardinality(A) - Cardinality(A \cap Gone)
    BY <1>6, FS_Difference
  <2>2. A \cap Gone = Gone
    BY <1>7
  <2>3. Cardinality(Absent(r, i)') <= Cardinality(A \ Gone) /\ IsFiniteSet(Absent(r, i)')
    BY <1>5, <2>1, FS_Subset
  <2>4. QED
    BY <2>1, <2>2, <2>3, FS_CardinalityType
<1>11. Cardinality(B) + Cardinality(A) <= Cardinality(minted)
  BY DEF FewSamplesEach, A, B
<1>12. QED
  BY <1>4, <1>6, <1>7, <1>8, <1>9, <1>10, <1>11

\* Samples at the time of a frame leave no tick out.
LEMMA AppendUnbroken ==
  ASSUME Unbroken, NEW new, \A x \in new : \E i \in Sampled : x.t = FrameTime(i),
         occ' = occ \cup new
  PROVE  Unbroken'
<1> SUFFICES ASSUME NEW x \in occ', NEW i \in Sampled, x.t \in Ticks(i),
                    NEW v \in FrameTime(i) .. x.t
             PROVE  \E y \in occ' : y.stream = x.stream /\ y.cluster = x.cluster /\ y.t = v
  BY DEF Unbroken, Sampled, Ticks, FrameTime, FrameIndices, Stride
<1>1. CASE x \in occ
  BY <1>1 DEF Unbroken
<1>2. CASE x \in new
  <2>1. PICK j \in Sampled : x.t = FrameTime(j)
    BY <1>2
  <2>2. j = i
    BY <2>1, SampledNat, OwnTick, TicksApart
  <2>3. v = x.t
    BY <2>1, <2>2, SampledNat, TimeFacts
  <2>4. QED
    BY <2>3
<1>3. QED
  BY <1>1, <1>2

\* An append puts samples at the times of the frames that show them.
LEMMA AppendRunPictures ==
  ASSUME RecInv, PictureInv, NEW w \in Workers, AppendRun(w)
  PROVE  PictureInv'
<1> DEFINE me == task[w]
           items == {<<me.items[i].cluster, me.items[i].t>> : i \in DOMAIN me.items}
           new == IF me.drift = <<>> THEN Idle
                  ELSE [Idle EXCEPT !.pc = "drift", !.owner = me.owner, !.drift = me.drift]
<1>1. /\ PicturesOK /\ AllItemsShown /\ TasksOK /\ TablesOK
      /\ SamplesPlaced /\ Unbroken /\ FewSamplesEach
  BY RecInvParts, PictureParts DEF PicturesOK
<1>2. me.pc = "append" /\ video' = video
  BY DEF AppendRun
<1>3. /\ me.owner \in Owners /\ me.stream \in Streams /\ me.items \in Seq(Item) /\ ItemsShown(me)
  BY <1>1, <1>2 DEF TasksOK, TaskOK, TaskRecord, AllItemsShown
<1>4. ItemsShown(Idle) /\ ItemsShown(new)
  BY DEF ItemsShown, Idle
<1>5. CASE /\ AppendSamples(me.owner, me.stream, items)
           /\ embedding' = [x \in occ' |-> IF x \in occ THEN embedding[x]
                                          ELSE FirstOf(me.items, x).embedding]
           /\ task' = [task EXCEPT ![w] = new]
  <2> DEFINE F == Fresh(me.owner, me.stream, items)
  <2>1. occ' = occ \cup F /\ minted' = minted /\ Live' = Live /\ \A n \in items : n[1] \in Live
    BY <1>5 DEF AppendSamples, Owned, Recount, Live
  <2>2. ASSUME NEW x \in F
        PROVE  \E i \in Sampled : /\ x.t = FrameTime(i)
                                 /\ ShowsFace(x.stream, i, FirstOf(me.items, x).embedding)
    <3>1. PICK k \in DOMAIN me.items : FirstOf(me.items, x) = me.items[k] /\ me.items[k].t = x.t
      BY <1>3, FirstItem
    <3>2. x.stream = me.stream
      BY DEF Fresh
    <3>3. QED
      BY <1>3, <3>1, <3>2 DEF ItemsShown
  <2> HIDE DEF items, new
  <2>3. ASSUME NEW x \in occ'
        PROVE  \E i \in Sampled : x.t \in Ticks(i) /\ ShowsFace(x.stream, i, embedding'[x])
    <3>1. CASE x \in occ
      BY <1>1, <1>5, <3>1 DEF SamplesPlaced
    <3>2. CASE x \notin occ
      BY <1>5, <2>1, <2>2, <3>2, SampledNat, OwnTick
    <3>3. QED
      BY <3>1, <3>2
  <2>4. SamplesPlaced'
    BY <1>2, <2>3 DEF SamplesPlaced, ShowsFace, Sampled, Ticks, FrameTime, FrameIndices, Stride
  <2>5. \A x \in F : \E i \in Sampled : x.t = FrameTime(i)
    BY <2>2
  <2>6. Unbroken'
    BY <1>1, <2>1, <2>5, AppendUnbroken
  <2>7. FewSamplesEach'
    BY <1>1, <1>3, <2>1, <2>5, AppendFew
  <2>8. AllItemsShown'
    BY <1>1, <1>2, <1>4, <1>5, ItemsOfOne
  <2>9. QED
    BY <2>4, <2>6, <2>7, <2>8, PictureParts DEF PicturesOK
<1>6. CASE task' = [task EXCEPT ![w] = Idle] /\ UNCHANGED <<libvars, embedding>>
  <2>1. PicturesOK'
    BY <1>1, <1>2, <1>6, PicturesStay DEF libvars, Live
  <2>2. AllItemsShown'
    BY <1>1, <1>2, <1>4, <1>6, ItemsOfOne
  <2>3. QED
    BY <2>1, <2>2, PictureParts
<1>7. QED
  BY <1>5, <1>6 DEF AppendRun, Become, FirstOf

\* There is no sample at first.
LEMMA PictureInit == Init => PictureInv
<1> SUFFICES ASSUME Init PROVE PictureInv
  OBVIOUS
<1> USE DEF Init
<1>1. occ = {} /\ Live = {} /\ minted = {}
  BY DEF LibraryInit, Live
<1>2. SamplesPlaced /\ Unbroken
  BY <1>1 DEF SamplesPlaced, Unbroken
<1>3. ASSUME NEW s, NEW i PROVE Block(s, i) = {} /\ Absent(s, i) = {}
  BY <1>1 DEF Block, Absent
<1>4. FewSamplesEach
  <2>1. Cardinality(minted) = 0 /\ 0 + 0 <= 0
    BY <1>1, FS_EmptySet
  <2>2. \A s, i : Cardinality(Block(s, i)) = 0 /\ Cardinality(Absent(s, i)) = 0
    BY <1>3, FS_EmptySet
  <2>3. QED
    BY <2>1, <2>2 DEF FewSamplesEach
<1>5. \A w \in Workers : ItemsShown(task[w])
  BY DEF Idle, ItemsShown
<1>6. QED
  BY <1>2, <1>4, <1>5 DEF PictureInv

\* Every step keeps the pictures.
LEMMA PictureStep == FewPeople /\ RecInv /\ PictureInv /\ [Next]_vars => PictureInv'
<1> SUFFICES ASSUME FewPeople, RecInv, PictureInv, [Next]_vars PROVE PictureInv'
  OBVIOUS
<1>1. ASSUME NEW w \in Workers, NEW o \in Owners, NEW s \in Streams, StartInfer(w, o, s)
      PROVE  PictureInv'
  BY <1>1, StartInferPictures
<1>2. ASSUME NEW w \in Workers, FaceKnown(w) PROVE PictureInv'
  BY <1>2, FaceKnownPictures
<1>3. ASSUME NEW w \in Workers, FaceUnknown(w) PROVE PictureInv'
  BY <1>3, FaceUnknownPictures
<1>4. ASSUME NEW w \in Workers, NextFrame(w) PROVE PictureInv'
  BY <1>4, NextFramePictures
<1>5. ASSUME NEW w \in Workers, AppendRun(w) PROVE PictureInv'
  BY <1>5, AppendRunPictures
<1>6. ASSUME NEW w \in Workers, UpdateDrift(w) PROVE PictureInv'
  BY <1>6, UpdateDriftPictures
<1>7. ASSUME NEW c \in ClusterIds, NEW n \in Names \cup {NoName}, RenameFace(c, n)
      PROVE  PictureInv'
  BY <1>7, RenamePictures
<1>8. ASSUME NEW c \in ClusterIds, DeleteFace(c) PROVE PictureInv'
  BY <1>8, DeletePictures
<1>9. ASSUME NEW target \in ClusterIds, NEW sources \in SUBSET ClusterIds,
             MergeFaces(target, sources)
      PROVE  PictureInv'
  BY <1>9, MergePictures
<1>10. CASE UNCHANGED vars
  <2>1. PicturesOK /\ AllItemsShown
    BY PictureParts
  <2>2. /\ occ' = occ /\ embedding' = embedding /\ video' = video /\ Live' = Live
        /\ minted' = minted /\ task' = task
    BY <1>10 DEF vars, Live
  <2>3. QED
    BY <2>1, <2>2, PicturesStay, ItemsStay, PictureParts
<1>11. QED
  BY <1>1, <1>2, <1>3, <1>4, <1>5, <1>6, <1>7, <1>8, <1>9, <1>10 DEF Next

\* get_sample_crop looks for every sample in the frame that shows its face, though
\* _sample_frame_index has only t_seconds to find the frame by, run() takes every
\* Stride-th frame, and merge_clusters moves samples off the time of their frame;
\* and it prefers no other face to the one that was stored, as long as the
\* detector, which runs smaller than the run's did, finds that one again.  What it
\* takes is no more people than ticks of 1e-4 s in half an interval.
THEOREM SamplesShowTheirFaces ==
  ASSUME Vectors \subseteq Centroids, FewPeople PROVE Spec => []SampleShowsItsFace
<1>1. Init => PictureInv
  BY PictureInit
<1>2. RecInv /\ PictureInv /\ [Next]_vars => PictureInv'
  BY PictureStep
<1>3. RecInv /\ PictureInv => SampleShowsItsFace
  BY PictureShown
<1>4. Spec => [](RecInv /\ RunsOwn)
  BY RecInvariant
<1>5. QED
  BY <1>1, <1>2, <1>3, <1>4, PTL DEF Spec

\* The choices that the vectors make are among those of Library: whatever is proved
\* of its transactions holds when runs and curators make them.
THEOREM RecognitionIsLibrary == ASSUME Vectors \subseteq Centroids PROVE Spec => LibrarySpec
<1>1. Init => LibraryInit
  BY DEF Init
<1>2. RecInv /\ RunsOwn /\ [Next]_vars => [LibraryNext]_libvars
  BY RecognitionStepIsLibraryStep
<1>3. Spec => [](RecInv /\ RunsOwn)
  BY RecInvariant
<1>4. QED
  BY <1>1, <1>2, <1>3, PTL DEF Spec, LibrarySpec

==============================================================================
