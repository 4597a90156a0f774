----------------------------- MODULE TextProofs -----------------------------
(***************************************************************************)
(* Texts, for whatever hosts, cookies, streams and patterns: strings and   *)
(* their pieces, the requests of a task, the cookies they carry, the events *)
(* of a stream, and the names a pattern expands to.                        *)
(***************************************************************************)
EXTENDS RequestPlan, SseReader, RangePattern, Lemmas

LEMMA PrefixIs ==
  ASSUME NEW A, NEW s \in Seq(A), NEW t \in Seq(A)
  PROVE  IsPrefix(s, t) <=> Len(s) <= Len(t) /\ \A i \in 1 .. Len(s) : s[i] = t[i]
<1>1. ASSUME Len(s) <= Len(t)
      PROVE  /\ SubSeq(s, 1, Len(s)) = [i \in 1 .. Len(s) |-> s[i]]
             /\ SubSeq(t, 1, Len(s)) = [i \in 1 .. Len(s) |-> t[i]]
  BY <1>1
<1> QED BY <1>1 DEF IsPrefix

LEMMA SuffixIs ==
  ASSUME NEW A, NEW s \in Seq(A), NEW t \in Seq(A)
  PROVE  IsSuffix(s, t) <=>
           Len(s) <= Len(t) /\ \A i \in 1 .. Len(s) : s[i] = t[Len(t) - Len(s) + i]
<1> DEFINE r(u) == Reverse(u)
<1>1. \A u \in Seq(A) : /\ r(u) \in Seq(A) /\ Len(r(u)) = Len(u)
                        /\ \A i \in 1 .. Len(u) : r(u)[i] = u[Len(u) - i + 1]
  BY DEF Reverse
<1>2. IsPrefix(r(s), r(t)) <=>
        Len(s) <= Len(t) /\ \A i \in 1 .. Len(s) : r(s)[i] = r(t)[i]
  <2> HIDE DEF r
  <2> QED BY <1>1, PrefixIs
<1>3. ASSUME Len(s) <= Len(t)
      PROVE  (\A i \in 1 .. Len(s) : r(s)[i] = r(t)[i]) <=>
             (\A i \in 1 .. Len(s) : s[i] = t[Len(t) - Len(s) + i])
  <2> DEFINE L == Len(s)
  <2> HIDE DEF r
  <2>1. \A i \in 1 .. L : r(s)[i] = s[L - i + 1] /\ r(t)[i] = t[Len(t) - i + 1]
    <3>1. \A i \in 1 .. L : i \in 1 .. Len(s) /\ i \in 1 .. Len(t)
      BY <1>3
    <3>2. (\A i \in 1 .. Len(s) : r(s)[i] = s[Len(s) - i + 1])
          /\ \A i \in 1 .. Len(t) : r(t)[i] = t[Len(t) - i + 1]
      BY <1>1
    <3> QED BY <3>1, <3>2
  <2>2. \A i \in 1 .. L : L - i + 1 \in 1 .. L /\ L - (L - i + 1) + 1 = i
                          /\ Len(t) - L + (L - i + 1) = Len(t) - i + 1
                          /\ Len(t) - (L - i + 1) + 1 = Len(t) - L + i
    OBVIOUS
  <2>3. ASSUME \A i \in 1 .. L : r(s)[i] = r(t)[i], NEW i \in 1 .. L
        PROVE  s[i] = t[Len(t) - L + i]
    <3>1. r(s)[L - i + 1] = r(t)[L - i + 1]
      BY <2>2, <2>3
    <3>2. r(s)[L - i + 1] = s[i] /\ r(t)[L - i + 1] = t[Len(t) - L + i]
      <4>1. L - i + 1 \in 1 .. L
        BY <2>2
      <4>2. r(s)[L - i + 1] = s[L - (L - i + 1) + 1]
            /\ r(t)[L - i + 1] = t[Len(t) - (L - i + 1) + 1]
        BY <2>1, <4>1
      <4> QED BY <2>2, <4>2
    <3> QED BY <3>1, <3>2
  <2>4. ASSUME \A i \in 1 .. L : s[i] = t[Len(t) - L + i], NEW i \in 1 .. L
        PROVE  r(s)[i] = r(t)[i]
    <3>1. s[L - i + 1] = t[Len(t) - L + (L - i + 1)]
      BY <2>2, <2>4
    <3> QED BY <2>1, <2>2, <3>1
  <2> QED BY <2>3, <2>4
<1> QED BY <1>2, <1>3 DEF IsSuffix

LEMMA IsList ==
  ASSUME NEW A, NEW n \in Nat, NEW f \in [1 .. n -> A]
  PROVE  f \in Seq(A) /\ Len(f) = n
OBVIOUS

LEMMA SameList ==
  ASSUME NEW A, NEW s \in Seq(A), NEW t \in Seq(A), Len(s) = Len(t),
         \A i \in 1 .. Len(s) : s[i] = t[i]
  PROVE  s = t
OBVIOUS

LEMMA SliceIs ==
  ASSUME NEW A, NEW s \in Seq(A), NEW u \in Nat, NEW v \in Nat, u < v, v <= Len(s) + 1
  PROVE  /\ SubSeq(s, u + 1, v - 1) \in Seq(A) /\ Len(SubSeq(s, u + 1, v - 1)) = v - u - 1
         /\ \A i \in 1 .. v - u - 1 : SubSeq(s, u + 1, v - 1)[i] = s[u + i]
<1> DEFINE n == v - u - 1
           f == [i \in 1 .. n |-> s[u + i]]
<1>1. n \in Nat /\ (v - 1) - (u + 1) + 1 = n /\ \A i \in 1 .. n : u + 1 + i - 1 = u + i
  OBVIOUS
<1>2. SubSeq(s, u + 1, v - 1) = f
  BY <1>1
<1>3. f \in [1 .. n -> A]
  OBVIOUS
<1>4. f \in Seq(A) /\ Len(f) = n
  <2> HIDE DEF f, n
  <2> QED BY <1>1, <1>3, IsList
<1> QED BY <1>2, <1>4

(* The cuts of a string are where its pieces begin and end.                *)
LEMMA CutsAre ==
  ASSUME NEW A, NEW s \in Seq(A), NEW sep
  PROVE  /\ Cuts(s, sep) \in SUBSET (0 .. Len(s) + 1) /\ Cuts(s, sep) \in SUBSET Nat
         /\ IsFiniteSet(Cuts(s, sep))
<1>1. Cuts(s, sep) \in SUBSET (0 .. Len(s) + 1)
  BY DEF Cuts
<1>2. IsFiniteSet(0 .. Len(s) + 1)
  BY FS_Interval
<1>3. IsFiniteSet(Cuts(s, sep))
  BY <1>1, <1>2, FS_Subset
<1> QED BY <1>1, <1>3

(* What a string, its cuts and its pieces have to do with each other.      *)
Cutting(s, sep, c, p) ==
  /\ Len(s) \in Nat /\ Len(p) \in Nat \ {0}
  /\ c[1] = 0 /\ c[Len(p) + 1] = Len(s) + 1
  /\ \A k \in 1 .. Len(p) + 1 : c[k] \in Nat /\ c[k] <= Len(s) + 1
  /\ \A k \in 2 .. Len(p) : s[c[k]] = sep
  /\ \A m, n \in 1 .. Len(p) + 1 : m < n => c[m] < c[n]
  /\ \A k \in 1 .. Len(p) :
       /\ Len(p[k]) = c[k + 1] - c[k] - 1
       /\ \A i \in 1 .. c[k + 1] - c[k] - 1 : p[k][i] = s[c[k] + i]
  /\ \A i \in 1 .. Len(s) : \E k \in 1 .. Len(p) : c[k] < i /\ i <= c[k + 1]

(* c lists the members of K in order.                                      *)
Indexed(K, c) ==
  /\ \A x \in K : Below(K, x) \in 0 .. Cardinality(K) - 1 /\ c[Below(K, x) + 1] = x
  /\ \A n \in 1 .. Cardinality(K) : c[n] \in K /\ Below(K, c[n]) = n - 1

LEMMA PiecesAre ==
  ASSUME NEW A, NEW s \in Seq(A), NEW sep,
         NEW K, K = Cuts(s, sep), NEW N, N = Cardinality(K), NEW c, c = Ascending(K)
  PROVE  /\ Cutting(s, sep, c, Pieces(s, sep)) /\ Indexed(K, c)
         /\ Pieces(s, sep) \in Seq(Seq(A)) /\ Cardinality(K) = Len(Pieces(s, sep)) + 1
<1>1. K \in SUBSET (0 .. Len(s) + 1) /\ K \in SUBSET Nat /\ IsFiniteSet(K)
  BY CutsAre
<1>2. 0 \in K /\ Len(s) + 1 \in K /\ Len(s) \in Nat
  BY DEF Cuts
<1>3. /\ N \in Nat /\ c \in [1 .. N -> K] /\ Len(c) = N
      /\ \A n \in 1 .. N : Below(K, c[n]) = n - 1
      /\ \A x \in K : c[Below(K, x) + 1] = x
      /\ \A m, n \in 1 .. N : m < n => c[m] < c[n]
  BY <1>1, AscendingIs
<1>4. \A x \in K : Below(K, x) \in 0 .. N - 1
  BY <1>1, BelowBounds
<1>5. PICK m \in 1 .. N : c[m] = 0
  <2>1. Below(K, 0) + 1 \in 1 .. N
    BY <1>2, <1>3, <1>4
  <2> QED BY <1>2, <1>3, <2>1
<1>6. PICK n \in 1 .. N : c[n] = Len(s) + 1
  <2>1. Below(K, Len(s) + 1) + 1 \in 1 .. N
    BY <1>2, <1>3, <1>4
  <2> QED BY <1>2, <1>3, <2>1
<1>7. c \in [1 .. N -> Nat] /\ \A k \in 1 .. N : c[k] \in 0 .. Len(s) + 1
  BY <1>1, <1>3
<1>8. N # 0 /\ N # 1 /\ m = 1 /\ n = N
  <2>1. N # 0 /\ N # 1
    BY <1>2, <1>3, <1>5, <1>6
  <2>2. m = 1
    <3>1. ~(1 < m)
      BY <1>3, <1>5, <1>7, SMTT(30)
    <3> QED BY <1>5, <3>1
  <2>3. n = N
    <3>1. ~(n < N)
      <4>1. n < N => c[n] < c[N]
        BY <1>3, <1>6
      <4>2. c[N] \in 0 .. Len(s) + 1
        BY <1>3, <1>7, <2>1
      <4> QED BY <1>2, <1>6, <4>1, <4>2
    <3>2. n \in Nat /\ n <= N
      BY <1>3, <1>6
    <3> QED BY <1>3, <3>1, <3>2
  <2> QED BY <2>1, <2>2, <2>3
<1>12. c[1] = 0 /\ c[N] = Len(s) + 1
  BY <1>5, <1>6, <1>8
<1> DEFINE p(k) == SubSeq(s, c[k] + 1, c[k + 1] - 1)
<1>9. Pieces(s, sep) = [k \in 1 .. N - 1 |-> p(k)]
  BY <1>3 DEF Pieces
<1>10. ASSUME NEW k \in 1 .. N - 1
       PROVE  /\ p(k) \in Seq(A) /\ Len(p(k)) = c[k + 1] - c[k] - 1
              /\ \A i \in 1 .. c[k + 1] - c[k] - 1 : p(k)[i] = s[c[k] + i]
  <2>1. c[k] \in Nat /\ c[k + 1] \in Nat /\ c[k] < c[k + 1] /\ c[k + 1] <= Len(s) + 1
    BY <1>3, <1>7
  <2> DEFINE u == c[k]
             v == c[k + 1]
             w == SubSeq(s, u + 1, v - 1)
  <2>2. /\ w \in Seq(A) /\ Len(w) = v - u - 1
        /\ \A i \in 1 .. v - u - 1 : w[i] = s[u + i]
    <3>1. u \in Nat /\ v \in Nat /\ u < v /\ v <= Len(s) + 1
      BY <2>1
    <3> HIDE DEF u, v
    <3> QED BY <3>1, SliceIs
  <2> HIDE DEF w
  <2>3. w = p(k)
    BY DEF w
  <2> HIDE DEF p
  <2> QED BY <2>2, <2>3
<1> HIDE DEF p
<1>11. Pieces(s, sep) \in Seq(Seq(A)) /\ Len(Pieces(s, sep)) = N - 1
       /\ \A k \in 1 .. N - 1 : Pieces(s, sep)[k] = p(k)
  <2>1. N - 1 \in Nat
    BY <1>3, <1>8
  <2>2. Pieces(s, sep) \in [1 .. N - 1 -> Seq(A)]
    BY <1>9, <1>10
  <2> QED BY <1>9, <2>1, <2>2, IsList
<1>13. N \in Nat \ {0, 1}
  BY <1>3, <1>8
<1>14. \A k \in 1 .. N - 1 :
         /\ Pieces(s, sep)[k] = p(k) /\ Pieces(s, sep)[k] \in Seq(A)
         /\ Len(Pieces(s, sep)[k]) = c[k + 1] - c[k] - 1
         /\ \A i \in 1 .. c[k + 1] - c[k] - 1 : Pieces(s, sep)[k][i] = s[c[k] + i]
  BY <1>10, <1>11
<1> DEFINE q == Pieces(s, sep)
           L == Len(q)
<1>15. q = Pieces(s, sep) /\ L = Len(q) /\ N = L + 1 /\ L \in Nat \ {0} /\ Len(s) \in Nat
  BY <1>2, <1>11, <1>13
<1> HIDE DEF q, L
<1>16. ASSUME NEW i \in 1 .. Len(s)
       PROVE  \E k \in 1 .. L : c[k] < i /\ i <= c[k + 1]
  <2> DEFINE T == {k \in 1 .. L + 1 : i <= c[k]}
  <2>1. L + 1 \in T /\ T \in SUBSET Nat
    BY <1>12, <1>15
  <2>2. PICK k \in T : \A l \in T : k <= l
    <3> HIDE DEF T
    <3> QED BY <2>1, LeastNumber
  <2>3. k # 1
    BY <1>12, <2>2
  <2>4. k - 1 \in 1 .. L /\ k - 1 \in 1 .. L + 1 /\ k - 1 \notin T
    BY <1>15, <2>2, <2>3
  <2>5. c[k - 1] < i
    <3>1. k - 1 \in 1 .. N
      BY <1>15, <2>4
    <3>2. c[k - 1] \in Nat /\ ~(i <= c[k - 1])
      BY <1>7, <2>4, <3>1
    <3> QED BY <3>2
  <2>6. (k - 1) + 1 = k /\ i <= c[k]
    BY <1>15, <2>2
  <2> QED BY <2>4, <2>5, <2>6
<1>17. ASSUME NEW k \in 2 .. L PROVE s[c[k]] = sep
  <2>1. k \in 1 .. N /\ N \in 1 .. N /\ 1 \in 1 .. N /\ 1 < k /\ k < N
    BY <1>13, <1>15
  <2>2. c[1] < c[k] /\ c[k] < c[N]
    BY <1>3, <2>1
  <2>3. c[k] # 0 /\ c[k] # Len(s) + 1 /\ c[k] \in K
    BY <1>3, <1>7, <1>12, <2>1, <2>2, SMTT(60)
  <2> QED BY <2>3 DEF Cuts
<1>18. \A k \in 1 .. L + 1 : c[k] \in Nat /\ c[k] <= Len(s) + 1
  BY <1>7, <1>15
<1>19. /\ \A k, l \in 1 .. L + 1 : k < l => c[k] < c[l]
       /\ c[1] = 0 /\ c[L + 1] = Len(s) + 1
       /\ \A k \in 1 .. L :
            /\ Len(q[k]) = c[k + 1] - c[k] - 1
            /\ \A i \in 1 .. c[k + 1] - c[k] - 1 : q[k][i] = s[c[k] + i]
  <2>1. N - 1 = L
    BY <1>15
  <2> QED BY <1>3, <1>12, <1>14, <1>15, <2>1
<1>20. Cutting(s, sep, c, q)
  BY <1>15, <1>16, <1>17, <1>18, <1>19 DEF Cutting, L
<1>21. Indexed(K, c)
  BY <1>3, <1>4, <1>6 DEF Indexed
<1> QED BY <1>11, <1>13, <1>15, <1>20, <1>21

(* The cuts in order: the k-th piece lies between the k-th and the next.   *)
Marks(s, sep) == Ascending(Cuts(s, sep))

LEMMA StringIsCut ==
  ASSUME NEW A, NEW s \in Seq(A), NEW sep
  PROVE  /\ Cutting(s, sep, Marks(s, sep), Pieces(s, sep))
         /\ Indexed(Cuts(s, sep), Marks(s, sep))
         /\ Cardinality(Cuts(s, sep)) = Len(Pieces(s, sep)) + 1
         /\ Pieces(s, sep) \in Seq(Seq(A))
BY PiecesAre DEF Marks

(* o pieces into the second string the pieces of the first one begin.     *)
Agree(pa, pb, o, j) ==
  /\ o \in Nat /\ j \in Nat /\ j <= Len(pa) /\ o + j <= Len(pb)
  /\ \A k \in 1 .. j : pa[k] = pb[o + k]

(* Where two strings agree in pieces their cuts are equally far apart ...  *)
LEMMA AgreeingCuts ==
  ASSUME NEW a, NEW b, NEW sep, NEW ca, NEW cb, NEW pa, NEW pb, NEW o, NEW j,
         Cutting(a, sep, ca, pa), Cutting(b, sep, cb, pb), Agree(pa, pb, o, j)
  PROVE  \A k \in 0 .. j : cb[o + 1 + k] = cb[o + 1] + ca[k + 1]
<1> DEFINE G == {k \in Nat : k <= j => cb[o + 1 + k] = cb[o + 1] + ca[k + 1]}
<1>1. o \in Nat /\ j \in Nat /\ Len(pa) \in Nat /\ Len(pb) \in Nat
      /\ j <= Len(pa) /\ o + j <= Len(pb)
  BY DEF Cutting, Agree
<1>2. \A k \in 1 .. Len(pa) + 1 : ca[k] \in Nat
  BY DEF Cutting
<1>3. \A k \in 1 .. Len(pb) + 1 : cb[k] \in Nat
  BY DEF Cutting
<1>4. 0 \in G
  <2>1. o + 1 \in 1 .. Len(pb) + 1 /\ o + 1 + 0 = o + 1 /\ 0 + 1 = 1
    BY <1>1
  <2>2. ca[1] = 0 /\ cb[o + 1] \in Nat
    BY <1>3, <2>1 DEF Cutting
  <2> QED BY <2>1, <2>2
<1>5. ASSUME NEW k \in G PROVE k + 1 \in G
  <2> SUFFICES ASSUME k + 1 <= j PROVE cb[o + 1 + (k + 1)] = cb[o + 1] + ca[k + 1 + 1]
    OBVIOUS
  <2>1. k \in Nat /\ cb[o + 1 + k] = cb[o + 1] + ca[k + 1]
    BY <1>1
  <2>2. PICK n \in Nat : n = k + 1
    BY <2>1
  <2>3. /\ n \in 1 .. Len(pa) /\ o + n \in 1 .. Len(pb) /\ n \in 1 .. j
        /\ n \in 1 .. Len(pa) + 1 /\ n + 1 \in 1 .. Len(pa) + 1
        /\ o + n \in 1 .. Len(pb) + 1 /\ o + n + 1 \in 1 .. Len(pb) + 1
        /\ o + 1 \in 1 .. Len(pb) + 1
        /\ o + 1 + k = o + n /\ o + 1 + (k + 1) = o + n + 1 /\ k + 1 + 1 = n + 1
    BY <1>1, <2>1, <2>2
  <2>4. Len(pa[n]) = ca[n + 1] - ca[n] - 1 /\ Len(pb[o + n]) = cb[o + n + 1] - cb[o + n] - 1
    BY <2>3 DEF Cutting
  <2>5. pa[n] = pb[o + n]
    BY <2>3 DEF Agree
  <2>6. PICK u, v, w, x, z \in Nat :
          u = ca[n + 1] /\ v = ca[n] /\ w = cb[o + n + 1] /\ x = cb[o + n] /\ z = cb[o + 1]
    BY <1>2, <1>3, <2>3
  <2>7. u - v - 1 = w - x - 1
    BY <2>4, <2>5, <2>6
  <2>8. x = z + v
    BY <2>1, <2>2, <2>3, <2>6
  <2>9. w = z + u
    BY <2>7, <2>8
  <2> QED BY <2>3, <2>6, <2>9
<1>6. G = Nat
  <2> HIDE DEF G
  <2>1. G \in SUBSET Nat
    BY DEF G
  <2> QED BY <1>4, <1>5, <2>1, Induction
<1>7. \A k \in 0 .. j : k \in Nat /\ k <= j
  BY <1>1
<1>8. \A k \in G : k <= j => cb[o + 1 + k] = cb[o + 1] + ca[k + 1]
  OBVIOUS
<1> HIDE DEF G
<1> QED BY <1>6, <1>7, <1>8

(* ... and their characters are the same.                                  *)
LEMMA PiecesAgree ==
  ASSUME NEW a, NEW b, NEW sep, NEW ca, NEW cb, NEW pa, NEW pb, NEW o, NEW j,
         Cutting(a, sep, ca, pa), Cutting(b, sep, cb, pb), Agree(pa, pb, o, j)
  PROVE  \A i \in 1 .. ca[j + 1] - 1 : b[cb[o + 1] + i] = a[i]
<1> DEFINE z == cb[o + 1]
<1>1. o \in Nat /\ j \in Nat /\ Len(pa) \in Nat /\ Len(pb) \in Nat
      /\ j <= Len(pa) /\ o + j <= Len(pb) /\ Len(a) \in Nat /\ Len(b) \in Nat
  BY DEF Cutting, Agree
<1>2. \A k \in 1 .. Len(pa) + 1 : ca[k] \in Nat /\ ca[k] <= Len(a) + 1
  BY DEF Cutting
<1>3. \A k \in 1 .. Len(pb) + 1 : cb[k] \in Nat
  BY DEF Cutting
<1>4. j + 1 \in 1 .. Len(pa) + 1 /\ o + 1 \in 1 .. Len(pb) + 1
  BY <1>1
<1>5. z \in Nat /\ ca[j + 1] \in Nat
  BY <1>2, <1>3, <1>4
<1> HIDE DEF z
<1> SUFFICES ASSUME NEW i \in 1 .. ca[j + 1] - 1 PROVE b[z + i] = a[i]
  BY DEF z
<1>6. i \in 1 .. Len(a) /\ i \in Nat /\ i < ca[j + 1]
  BY <1>1, <1>2, <1>4, <1>5, SMTT(60)
<1>7. PICK k \in 1 .. Len(pa) : ca[k] < i /\ i <= ca[k + 1]
  BY <1>6 DEF Cutting
<1>8. k \in Nat /\ k \in 1 .. Len(pa) + 1 /\ k + 1 \in 1 .. Len(pa) + 1
  BY <1>1
<1>9. ca[k] \in Nat /\ ca[k + 1] \in Nat
  BY <1>2, <1>8
<1>10. k <= j
  <2>1. j + 1 < k => ca[j + 1] < ca[k]
    BY <1>4, <1>8 DEF Cutting
  <2>2. j + 1 # k
    BY <1>5, <1>6, <1>7, <1>9
  <2>3. ~(j + 1 < k)
    BY <1>5, <1>6, <1>7, <1>9, <2>1
  <2> QED BY <1>1, <1>8, <2>2, <2>3
<1>11. cb[o + k] = z + ca[k] /\ cb[o + k + 1] = z + ca[k + 1]
  <2>1. k - 1 \in 0 .. j /\ k \in 0 .. j /\ o + 1 + (k - 1) = o + k
        /\ o + 1 + k = o + k + 1 /\ (k - 1) + 1 = k
    BY <1>1, <1>8, <1>10
  <2> QED BY <2>1, AgreeingCuts DEF z
<1>12. k \in 1 .. j /\ o + k \in 1 .. Len(pb) /\ o + k + 1 \in Nat
  BY <1>1, <1>8, <1>10
<1>13. CASE i < ca[k + 1]
  <2>1. PICK u, v, w, x \in Nat :
          u = ca[k + 1] /\ v = ca[k] /\ w = cb[o + k + 1] /\ x = cb[o + k]
    BY <1>5, <1>9, <1>11
  <2>2. PICK n \in 1 .. u - v - 1 : n = i - v
    BY <1>6, <1>7, <1>13, <2>1, SMTT(60)
  <2>3. w = z + u /\ x = z + v
    BY <1>11, <2>1
  <2>4. w - x - 1 = u - v - 1 /\ x + n = z + i /\ v + n = i
    BY <1>5, <1>6, <2>2, <2>3
  <2>5. pa[k][n] = a[v + n]
    BY <2>1, <2>2 DEF Cutting
  <2>6. pb[o + k][n] = b[x + n]
    BY <1>12, <2>1, <2>2, <2>4 DEF Cutting
  <2>7. pa[k] = pb[o + k]
    BY <1>12 DEF Agree
  <2> QED BY <2>4, <2>5, <2>6, <2>7
<1>14. CASE i = ca[k + 1]
  <2>1. k # j
    BY <1>5, <1>6, <1>14
  <2>2. k + 1 \in 2 .. Len(pa) /\ o + k + 1 \in 2 .. Len(pb)
    BY <1>1, <1>8, <1>10, <2>1
  <2>3. a[ca[k + 1]] = sep /\ b[cb[o + k + 1]] = sep
    BY <2>2 DEF Cutting
  <2> QED BY <1>11, <1>14, <2>3
<1> QED BY <1>6, <1>7, <1>9, <1>13, <1>14

(* a occurs in b, d characters from its start.                             *)
Occurs(a, b, d) ==
  /\ d \in Nat /\ d + Len(a) <= Len(b)
  /\ \A i \in 1 .. Len(a) : b[d + i] = a[i]

(* Before the cuts of a string that occurs after a cut of another one, ... *)
LEMMA CutsShift ==
  ASSUME NEW A, NEW a \in Seq(A), NEW b \in Seq(A), NEW sep,
         NEW d \in Cuts(b, sep), Occurs(a, b, d),
         NEW x \in Cuts(a, sep), d + x \in Cuts(b, sep)
  PROVE  Below(Cuts(b, sep), d + x) = Below(Cuts(b, sep), d) + Below(Cuts(a, sep), x)
<1> DEFINE Ka == Cuts(a, sep)
           Kb == Cuts(b, sep)
           U == {y \in Kb : y < d}
           V == {y \in Ka : y < x}
           W == {y \in Kb : y < d + x}
           X == {d + y : y \in V}
           f == [y \in V |-> d + y]
<1>1. /\ Ka \in SUBSET (0 .. Len(a) + 1) /\ Ka \in SUBSET Nat /\ IsFiniteSet(Ka)
      /\ Kb \in SUBSET (0 .. Len(b) + 1) /\ Kb \in SUBSET Nat /\ IsFiniteSet(Kb)
      /\ Len(a) \in Nat /\ Len(b) \in Nat
  BY CutsAre
<1>2. d \in Nat /\ x \in Nat /\ x <= Len(a) + 1 /\ d + Len(a) <= Len(b)
      /\ d \in Kb /\ x \in Ka
  BY <1>1 DEF Occurs
<1>3. \A y \in 1 .. Len(a) : b[d + y] = a[y]
  BY DEF Occurs
<1>4. \A y \in 1 .. Len(a) : y \in Ka <=> a[y] = sep
  BY DEF Cuts
<1>5. \A y \in 1 .. Len(b) : y \in Kb <=> b[y] = sep
  BY DEF Cuts
<1>6. 0 \in Ka
  BY DEF Cuts
<1> HIDE DEF Ka, Kb
<1>7. \A y \in 0 .. Len(a) : d + y \in Kb <=> y \in Ka
  <2> TAKE y \in 0 .. Len(a)
  <2>1. CASE y = 0
    BY <1>2, <1>6, <2>1
  <2>2. CASE y # 0
    <3>1. y \in 1 .. Len(a) /\ d + y \in 1 .. Len(b)
      BY <1>1, <1>2, <2>2
    <3> QED BY <1>3, <1>4, <1>5, <3>1
  <2> QED BY <2>1, <2>2
<1>8. W = U \cup X
  <2>1. ASSUME NEW y \in W PROVE y \in U \cup X
    <3>1. y \in Kb /\ y \in Nat /\ y < d + x
      BY <1>1
    <3>2. CASE y < d
      BY <3>1, <3>2
    <3>3. CASE ~(y < d)
      <4>1. y - d \in 0 .. Len(a) /\ d + (y - d) = y /\ y - d < x
        BY <1>1, <1>2, <3>1, <3>3
      <4>2. y - d \in V
        BY <1>7, <3>1, <4>1
      <4> QED BY <4>1, <4>2
    <3> QED BY <3>2, <3>3
  <2>2. ASSUME NEW y \in U PROVE y \in W
    <3>1. y \in Kb /\ y \in Nat /\ y < d
      BY <1>1
    <3>2. y < d + x
      BY <1>2, <3>1
    <3> QED BY <3>1, <3>2
  <2>3. ASSUME NEW y \in V PROVE d + y \in W
    <3>1. y \in Ka /\ y \in 0 .. Len(a) /\ y < x
      BY <1>1, <1>2
    <3>2. d + y < d + x
      BY <1>2, <3>1
    <3> QED BY <1>7, <3>1, <3>2
  <2> QED BY <2>1, <2>2, <2>3
<1>9. U \cap X = {}
  BY <1>1, <1>2
<1>10. IsFiniteSet(U) /\ IsFiniteSet(V)
  <2>1. U \in SUBSET Kb /\ V \in SUBSET Ka
    OBVIOUS
  <2> HIDE DEF U, V
  <2> QED BY <1>1, <2>1, FS_Subset
<1>11. IsFiniteSet(X) /\ Cardinality(X) = Cardinality(V)
  <2>1. f \in Bijection(V, X)
    <3>1. \A y \in V : y \in Nat
      BY <1>1
    <3> HIDE DEF V
    <3>2. \A y, z \in V : d + y = d + z => y = z
      BY <1>2, <3>1
    <3> QED BY <3>2 DEF Bijection, Injection, Surjection, IsInjective
  <2> HIDE DEF f, V, X
  <2>2. ExistsBijection(V, X)
    BY <2>1 DEF ExistsBijection
  <2> QED BY <1>10, <2>2, FS_Bijection
<1>12. Cardinality(U \cup X) = Cardinality(U) + Cardinality(X)
  <2> HIDE DEF U, X
  <2>1. Cardinality(U \cup X) = Cardinality(U) + Cardinality(X) - Cardinality(U \cap X)
    BY <1>10, <1>11, FS_Union
  <2>2. Cardinality(U \cap X) = 0
    BY <1>9, FS_EmptySet
  <2>3. Cardinality(U) \in Nat /\ Cardinality(X) \in Nat
    BY <1>10, <1>11, FS_CardinalityType
  <2> QED BY <2>1, <2>2, <2>3
<1>13. Below(Kb, d + x) = Cardinality(W) /\ Below(Kb, d) = Cardinality(U)
       /\ Below(Ka, x) = Cardinality(V)
  BY DEF Below
<1> HIDE DEF U, V, W, X
<1> QED BY <1>8, <1>11, <1>12, <1>13 DEF Ka, Kb

(* ... it has the pieces that lie between them.                            *)
LEMMA PiecesOccur ==
  ASSUME NEW A, NEW a \in Seq(A), NEW b \in Seq(A), NEW sep,
         NEW d \in Cuts(b, sep), Occurs(a, b, d),
         NEW k \in 1 .. Len(Pieces(a, sep)),
         d + Marks(a, sep)[k] \in Cuts(b, sep), d + Marks(a, sep)[k + 1] \in Cuts(b, sep)
  PROVE  LET o == Below(Cuts(b, sep), d)
         IN  o \in Nat /\ o + k <= Len(Pieces(b, sep))
             /\ Pieces(b, sep)[o + k] = Pieces(a, sep)[k]
<1> DEFINE ca == Marks(a, sep)
           cb == Marks(b, sep)
           pa == Pieces(a, sep)
           pb == Pieces(b, sep)
           Ka == Cuts(a, sep)
           Kb == Cuts(b, sep)
           o == Below(Kb, d)
<1>1. /\ Cutting(a, sep, ca, pa) /\ Indexed(Ka, ca) /\ Cardinality(Ka) = Len(pa) + 1
      /\ Cutting(b, sep, cb, pb) /\ Indexed(Kb, cb) /\ Cardinality(Kb) = Len(pb) + 1
      /\ pa \in Seq(Seq(A)) /\ pb \in Seq(Seq(A))
  BY StringIsCut
<1>2. \A x \in Ka : d + x \in Kb => Below(Kb, d + x) = o + Below(Ka, x)
  BY CutsShift
<1>3. d \in Kb /\ k \in 1 .. Len(pa) /\ d + ca[k] \in Kb /\ d + ca[k + 1] \in Kb
      /\ d \in Nat /\ d + Len(a) <= Len(b) /\ \A i \in 1 .. Len(a) : b[d + i] = a[i]
  BY DEF Occurs
<1> HIDE DEF ca, cb, pa, pb, Ka, Kb
<1>4. Len(pa) \in Nat /\ Len(pb) \in Nat /\ Len(a) \in Nat /\ Len(b) \in Nat
  BY <1>1 DEF Cutting
<1>5. o \in Nat
  BY <1>1, <1>3, <1>4 DEF Indexed
<1> HIDE DEF o
<1>6. k \in Nat /\ k \in 1 .. Len(pa) + 1 /\ k + 1 \in 1 .. Len(pa) + 1 /\ (k + 1) - 1 = k
  BY <1>3, <1>4
<1>7. ca[k] \in Ka /\ ca[k + 1] \in Ka /\ Below(Ka, ca[k]) = k - 1 /\ Below(Ka, ca[k + 1]) = k
  BY <1>1, <1>6 DEF Indexed
<1>8. Below(Kb, d + ca[k]) = o + (k - 1) /\ Below(Kb, d + ca[k + 1]) = o + k
  BY <1>2, <1>3, <1>7
<1>9. cb[o + (k - 1) + 1] = d + ca[k] /\ cb[o + k + 1] = d + ca[k + 1] /\ o + k \in 0 .. Len(pb)
  <2>1. \A x \in Kb : Below(Kb, x) \in 0 .. Cardinality(Kb) - 1 /\ cb[Below(Kb, x) + 1] = x
    BY <1>1 DEF Indexed
  <2>2. Cardinality(Kb) - 1 = Len(pb)
    BY <1>1, <1>4
  <2> QED BY <1>3, <1>8, <2>1, <2>2
<1>10. cb[o + k] = d + ca[k] /\ o + k \in 1 .. Len(pb)
  BY <1>4, <1>5, <1>6, <1>9
<1>11. PICK u, v \in Nat : u = ca[k] /\ v = ca[k + 1] /\ u < v /\ v <= Len(a) + 1
  <2>1. k < k + 1
    BY <1>6
  <2> QED BY <1>1, <1>6, <2>1 DEF Cutting
<1>12. /\ Len(pa[k]) = v - u - 1 /\ \A i \in 1 .. v - u - 1 : pa[k][i] = a[u + i]
  BY <1>1, <1>3, <1>11 DEF Cutting
<1>13. /\ Len(pb[o + k]) = v - u - 1 /\ \A i \in 1 .. v - u - 1 : pb[o + k][i] = b[d + u + i]
  <2>1. \A m \in Nat : (m + v) - (m + u) - 1 = v - u - 1
    OBVIOUS
  <2>2. (d + v) - (d + u) - 1 = v - u - 1
    BY <1>3, <2>1
  <2> QED BY <1>1, <1>9, <1>10, <1>11, <2>2, ZenonT(60) DEF Cutting
<1>14. \A i \in 1 .. v - u - 1 : pb[o + k][i] = pa[k][i]
  <2> TAKE i \in 1 .. v - u - 1
  <2>1. u + i \in 1 .. Len(a) /\ d + u + i = d + (u + i)
    <3>1. PICK n \in Nat : n = Len(a) /\ v <= n + 1
      BY <1>4, <1>11
    <3>2. u + i \in 1 .. n
      BY <3>1
    <3>3. d + u + i = d + (u + i)
      BY <1>3
    <3> QED BY <3>1, <3>2, <3>3
  <2>2. b[d + (u + i)] = a[u + i]
    BY <1>3, <2>1
  <2> QED BY <1>12, <1>13, <2>1, <2>2
<1>15. pa[k] \in Seq(A) /\ pb[o + k] \in Seq(A)
  BY <1>1, <1>3, <1>10, SMTT(60)
<1>16. pb[o + k] = pa[k]
  BY <1>12, <1>13, <1>14, <1>15, SameList, ZenonT(60)
<1> QED BY <1>4, <1>5, <1>10, <1>16 DEF o, pa, pb, Kb

(* The cuts of a string that occurs after a cut are cuts of the other one, *)
(* the end of the string apart.                                            *)
LEMMA CutsOccur ==
  ASSUME NEW A, NEW a \in Seq(A), NEW b \in Seq(A), NEW sep,
         NEW d \in Cuts(b, sep), Occurs(a, b, d),
         NEW x \in Cuts(a, sep), x # Len(a) + 1 \/ d + x \in Cuts(b, sep)
  PROVE  d + x \in Cuts(b, sep)
<1>1. d \in Nat /\ d + Len(a) <= Len(b) /\ Len(a) \in Nat /\ Len(b) \in Nat
      /\ \A i \in 1 .. Len(a) : b[d + i] = a[i]
  BY DEF Occurs
<1>2. x = 0 \/ x = Len(a) + 1 \/ (x \in 1 .. Len(a) /\ a[x] = sep)
  BY DEF Cuts
<1>3. CASE x = 0
  BY <1>1, <1>3
<1>4. CASE x \in 1 .. Len(a) /\ a[x] = sep
  <2>1. d + x \in 1 .. Len(b) /\ b[d + x] = sep
    BY <1>1, <1>4
  <2> QED BY <2>1 DEF Cuts
<1> QED BY <1>2, <1>3, <1>4

LEMMA FirstCut ==
  ASSUME NEW A, NEW s \in Seq(A), NEW sep
  PROVE  0 \in Cuts(s, sep) /\ Below(Cuts(s, sep), 0) = 0
<1>1. \A y \in Cuts(s, sep) : y \in Nat
  BY CutsAre
<1>2. {y \in Cuts(s, sep) : y < 0} = {}
  BY <1>1
<1> QED BY <1>2, FS_EmptySet DEF Below, Cuts

(* A string begins with the pieces of another one if it begins with that   *)
(* one and is cut, or ends, after it.                                      *)
LEMMA PrefixPieces ==
  ASSUME NEW A, NEW a \in Seq(A), NEW b \in Seq(A), NEW sep
  PROVE  IsPrefix(Pieces(a, sep), Pieces(b, sep)) <=>
           a = b \/ (Len(a) < Len(b) /\ Occurs(a, b, 0) /\ b[Len(a) + 1] = sep)
<1> DEFINE ca == Marks(a, sep)
           cb == Marks(b, sep)
           pa == Pieces(a, sep)
           pb == Pieces(b, sep)
           Ka == Cuts(a, sep)
           Kb == Cuts(b, sep)
<1>1. /\ Cutting(a, sep, ca, pa) /\ Indexed(Ka, ca) /\ Cardinality(Ka) = Len(pa) + 1
      /\ Cutting(b, sep, cb, pb) /\ Indexed(Kb, cb) /\ Cardinality(Kb) = Len(pb) + 1
      /\ pa \in Seq(Seq(A)) /\ pb \in Seq(Seq(A))
  BY StringIsCut
<1>2. 0 \in Kb /\ Below(Kb, 0) = 0
  BY FirstCut
<1>3. IsPrefix(pa, pb) <=> Len(pa) <= Len(pb) /\ \A k \in 1 .. Len(pa) : pa[k] = pb[k]
  <2> HIDE DEF pa, pb
  <2> QED BY <1>1, PrefixIs
<1>4. Len(pa) \in Nat \ {0} /\ Len(pb) \in Nat \ {0} /\ Len(a) \in Nat /\ Len(b) \in Nat
  BY <1>1 DEF Cutting
<1>5. ASSUME IsPrefix(pa, pb)
      PROVE  a = b \/ (Len(a) < Len(b) /\ Occurs(a, b, 0) /\ b[Len(a) + 1] = sep)
  <2> HIDE DEF ca, cb, pa, pb
  <2>1. Agree(pa, pb, 0, Len(pa))
    <3>1. \A k \in 1 .. Len(pa) : 0 + k = k
      BY <1>4
    <3> QED BY <1>3, <1>4, <1>5, <3>1 DEF Agree
  <2>2. cb[Len(pa) + 1] = Len(a) + 1
    <3>1. cb[0 + 1 + Len(pa)] = cb[0 + 1] + ca[Len(pa) + 1]
      BY <1>1, <1>4, <2>1, AgreeingCuts
    <3>2. cb[1] = 0 /\ ca[Len(pa) + 1] = Len(a) + 1 /\ 0 + 1 + Len(pa) = Len(pa) + 1
      BY <1>1, <1>4 DEF Cutting
    <3> QED BY <1>4, <3>1, <3>2
  <2>3. \A i \in 1 .. Len(a) : b[i] = a[i]
    <3>1. \A i \in 1 .. ca[Len(pa) + 1] - 1 : b[cb[0 + 1] + i] = a[i]
      BY <1>1, <2>1, PiecesAgree, SMTT(60)
    <3>2. cb[0 + 1] = 0 /\ ca[Len(pa) + 1] - 1 = Len(a)
      BY <1>1, <1>4 DEF Cutting
    <3>3. \A i \in 1 .. Len(a) : 0 + i = i
      BY <1>4
    <3> QED BY <3>1, <3>2, <3>3
  <2>4. CASE Len(pa) = Len(pb)
    <3>1. Len(a) = Len(b)
      <4>1. cb[Len(pb) + 1] = Len(b) + 1
        BY <1>1 DEF Cutting
      <4> QED BY <1>4, <2>2, <2>4, <4>1
    <3> QED BY <2>3, <3>1, SameList
  <2>5. CASE Len(pa) # Len(pb)
    <3>1. Len(pa) + 1 \in 2 .. Len(pb) /\ Len(pa) + 1 \in 1 .. Len(pb) + 1
          /\ Len(pb) + 1 \in 1 .. Len(pb) + 1 /\ Len(pa) + 1 < Len(pb) + 1
      BY <1>3, <1>4, <1>5, <2>5
    <3>2. b[Len(a) + 1] = sep
      BY <1>1, <2>2, <3>1, SMTT(60) DEF Cutting
    <3>3. cb[Len(pa) + 1] < cb[Len(pb) + 1] /\ cb[Len(pb) + 1] = Len(b) + 1
      BY <1>1, <3>1 DEF Cutting
    <3>4. Len(a) < Len(b)
      BY <1>4, <2>2, <3>3
    <3>5. Occurs(a, b, 0)
      <4>1. \A i \in 1 .. Len(a) : 0 + i = i
        BY <1>4
      <4> QED BY <1>4, <2>3, <3>4, <4>1 DEF Occurs
    <3> QED BY <3>2, <3>4, <3>5
  <2> QED BY <2>4, <2>5
<1>6. ASSUME Len(a) < Len(b), Occurs(a, b, 0), b[Len(a) + 1] = sep PROVE IsPrefix(pa, pb)
  <2>1. Len(a) + 1 \in Kb
    <3>1. Len(a) + 1 \in 1 .. Len(b)
      BY <1>4, <1>6
    <3> QED BY <1>6, <3>1 DEF Cuts
  <2>2. ASSUME NEW k \in 1 .. Len(pa) PROVE k <= Len(pb) /\ pb[k] = pa[k]
    <3>1. k \in 1 .. Cardinality(Ka) /\ k + 1 \in 1 .. Cardinality(Ka)
      <4> HIDE DEF pa, Ka
      <4> QED BY <1>1, <1>4
    <3>2. ca[k] \in Ka /\ ca[k + 1] \in Ka
      <4> HIDE DEF ca, Ka, pa
      <4> QED BY <1>1, <3>1 DEF Indexed
    <3>3. ca[k] \in Nat /\ ca[k + 1] \in Nat
      <4>1. \A x \in Ka : x \in Nat
        BY CutsAre
      <4> QED BY <3>2, <4>1
    <3>4. 0 + (Len(a) + 1) \in Cuts(b, sep)
      BY <1>4, <2>1
    <3>5. 0 + ca[k] \in Cuts(b, sep) /\ 0 + ca[k + 1] \in Cuts(b, sep)
      <4>1. 0 \in Cuts(b, sep)
        BY <1>2
      <4> HIDE DEF ca
      <4> QED BY <1>6, <3>2, <3>4, <4>1, CutsOccur
    <3>6. Below(Cuts(b, sep), 0) + k <= Len(Pieces(b, sep))
          /\ Pieces(b, sep)[Below(Cuts(b, sep), 0) + k] = Pieces(a, sep)[k]
      BY <1>2, <1>6, <3>5, PiecesOccur
    <3>7. Below(Cuts(b, sep), 0) + k = k
      BY <1>2, <1>4
    <3> QED BY <3>6, <3>7
  <2>3. Len(pa) <= Len(pb)
    <3>1. Len(pa) \in 1 .. Len(pa)
      BY <1>4
    <3> QED BY <2>2, <3>1
  <2> HIDE DEF pa, pb
  <2> QED BY <1>3, <2>2, <2>3
<1>7. ASSUME a = b PROVE IsPrefix(pa, pb)
  <2>1. pa = pb
    BY <1>7
  <2> HIDE DEF pa, pb
  <2> QED BY <1>3, <1>4, <2>1
<1> QED BY <1>5, <1>6, <1>7

(* Strings with the same pieces are the same.                              *)
LEMMA SamePieces ==
  ASSUME NEW A, NEW a \in Seq(A), NEW b \in Seq(A), NEW sep
  PROVE  Pieces(a, sep) = Pieces(b, sep) <=> a = b
<1> SUFFICES ASSUME Pieces(a, sep) = Pieces(b, sep) PROVE a = b
  OBVIOUS
<1>1. Pieces(a, sep) \in Seq(Seq(A))
  BY StringIsCut
<1>2. IsPrefix(Pieces(a, sep), Pieces(b, sep)) /\ IsPrefix(Pieces(b, sep), Pieces(a, sep))
  <2> DEFINE p == Pieces(a, sep)
  <2>1. IsPrefix(p, p)
    <3> HIDE DEF p
    <3>1. p \in Seq(Seq(A))
      BY <1>1 DEF p
    <3> QED BY <3>1, PrefixIs
  <2> QED BY <2>1
<1>3. (a = b \/ Len(a) < Len(b)) /\ (b = a \/ Len(b) < Len(a))
  BY <1>2, PrefixPieces
<1> QED BY <1>3

(* A string ends with the pieces of another one if it ends with that one   *)
(* and is cut, or begins, before it.                                       *)
LEMMA SuffixPieces ==
  ASSUME NEW A, NEW a \in Seq(A), NEW b \in Seq(A), NEW sep
  PROVE  IsSuffix(Pieces(a, sep), Pieces(b, sep)) <=>
           a = b \/ (/\ Len(a) < Len(b) /\ Occurs(a, b, Len(b) - Len(a))
                     /\ b[Len(b) - Len(a)] = sep)
<1> DEFINE ca == Marks(a, sep)
           cb == Marks(b, sep)
           pa == Pieces(a, sep)
           pb == Pieces(b, sep)
           Ka == Cuts(a, sep)
           Kb == Cuts(b, sep)
<1>1. /\ Cutting(a, sep, ca, pa) /\ Indexed(Ka, ca) /\ Cardinality(Ka) = Len(pa) + 1
      /\ Cutting(b, sep, cb, pb) /\ Indexed(Kb, cb) /\ Cardinality(Kb) = Len(pb) + 1
      /\ pa \in Seq(Seq(A)) /\ pb \in Seq(Seq(A))
  BY StringIsCut
<1>2. IsSuffix(pa, pb) <=>
        Len(pa) <= Len(pb) /\ \A k \in 1 .. Len(pa) : pa[k] = pb[Len(pb) - Len(pa) + k]
  <2> HIDE DEF pa, pb
  <2> QED BY <1>1, SuffixIs
<1>3. Len(pa) \in Nat \ {0} /\ Len(pb) \in Nat \ {0} /\ Len(a) \in Nat /\ Len(b) \in Nat
  BY <1>1 DEF Cutting
<1>4. ASSUME IsSuffix(pa, pb)
      PROVE  a = b \/ (/\ Len(a) < Len(b) /\ Occurs(a, b, Len(b) - Len(a))
                       /\ b[Len(b) - Len(a)] = sep)
  <2> HIDE DEF ca, cb, pa, pb
  <2> DEFINE o == Len(pb) - Len(pa)
             z == cb[o + 1]
  <2>1. Agree(pa, pb, o, Len(pa)) /\ o \in Nat
    BY <1>2, <1>3, <1>4 DEF Agree
  <2>2. z = Len(b) - Len(a)
    <3>1. cb[o + 1 + Len(pa)] = z + ca[Len(pa) + 1]
      <4>1. Len(pa) \in 0 .. Len(pa)
        BY <1>3
      <4>2. \A k \in 0 .. Len(pa) : cb[o + 1 + k] = cb[o + 1] + ca[k + 1]
        <5> HIDE DEF o
        <5> QED BY <1>1, <2>1, AgreeingCuts
      <4> HIDE DEF o
      <4> QED BY <4>1, <4>2
    <3>2. cb[Len(pb) + 1] = Len(b) + 1 /\ ca[Len(pa) + 1] = Len(a) + 1
          /\ o + 1 + Len(pa) = Len(pb) + 1
      BY <1>1, <1>3 DEF Cutting
    <3>3. z \in Nat
      <4>1. o + 1 \in 1 .. Len(pb) + 1
        BY <1>2, <1>3, <1>4
      <4> HIDE DEF o
      <4> QED BY <1>1, <4>1 DEF Cutting
    <3> HIDE DEF z
    <3> QED BY <1>3, <3>1, <3>2, <3>3
  <2>3. \A i \in 1 .. Len(a) : b[z + i] = a[i]
    <3>1. \A i \in 1 .. ca[Len(pa) + 1] - 1 : b[z + i] = a[i]
      <4> HIDE DEF o
      <4> QED BY <1>1, <2>1, PiecesAgree, SMTT(60)
    <3>2. ca[Len(pa) + 1] - 1 = Len(a)
      BY <1>1, <1>3 DEF Cutting
    <3> QED BY <3>1, <3>2
  <2>4. CASE o = 0
    <3>1. Len(a) = Len(b)
      <4>1. cb[1] = 0 /\ o + 1 = 1
        BY <1>1, <2>4 DEF Cutting
      <4> QED BY <1>3, <2>2, <4>1
    <3>2. \A i \in 1 .. Len(a) : z + i = i
      BY <1>3, <2>2, <3>1
    <3> QED BY <2>3, <3>1, <3>2, SameList
  <2>5. CASE o # 0
    <3>1. o + 1 \in 2 .. Len(pb) /\ o + 1 \in 1 .. Len(pb) + 1
          /\ 1 \in 1 .. Len(pb) + 1 /\ 1 < o + 1
      BY <1>2, <1>3, <1>4, <2>1, <2>5
    <3>2. b[z] = sep /\ cb[1] < z /\ cb[1] = 0
      <4> HIDE DEF o
      <4> QED BY <1>1, <3>1 DEF Cutting
    <3>3. Len(a) < Len(b)
      <4> HIDE DEF z
      <4> QED BY <1>3, <2>2, <3>2
    <3>4. Occurs(a, b, Len(b) - Len(a))
      <4>1. Len(b) - Len(a) \in Nat /\ Len(b) - Len(a) + Len(a) <= Len(b)
        BY <1>3, <3>3
      <4>2. \A i \in 1 .. Len(a) : b[Len(b) - Len(a) + i] = a[i]
        <5> HIDE DEF z
        <5> QED BY <2>2, <2>3
      <4> QED BY <4>1, <4>2 DEF Occurs
    <3> QED BY <2>2, <3>2, <3>3, <3>4
  <2> QED BY <2>4, <2>5
<1>5. ASSUME Len(a) < Len(b), Occurs(a, b, Len(b) - Len(a)), b[Len(b) - Len(a)] = sep
      PROVE  IsSuffix(pa, pb)
  <2> DEFINE d == Len(b) - Len(a)
             o == Below(Kb, d)
  <2>1. d \in Kb /\ d \in Nat
    <3>1. d \in 1 .. Len(b)
      BY <1>3, <1>5
    <3> QED BY <1>5, <3>1 DEF Cuts
  <2>2. d + (Len(a) + 1) = Len(b) + 1 /\ Len(b) + 1 \in Kb
    <3>1. Len(b) + 1 \in Kb
      BY DEF Cuts
    <3> QED BY <1>3, <3>1
  <2>3. \A x \in Ka : x \in Nat
    BY CutsAre
  <2> HIDE DEF d
  <2>4. \A x \in Ka : d + x \in Kb
    <3> TAKE x \in Ka
    <3>1. x # Len(a) + 1 \/ d + x \in Kb
      BY <2>2
    <3>2. d \in Cuts(b, sep) /\ Occurs(a, b, d)
      BY <1>5, <2>1 DEF d
    <3> QED BY <3>1, <3>2, CutsOccur
  <2>5. ASSUME NEW k \in 1 .. Len(pa) PROVE o + k <= Len(pb) /\ pb[o + k] = pa[k] /\ o \in Nat
    <3>1. k \in 1 .. Cardinality(Ka) /\ k + 1 \in 1 .. Cardinality(Ka)
      <4> HIDE DEF pa, Ka
      <4> QED BY <1>1, <1>3
    <3>2. ca[k] \in Ka /\ ca[k + 1] \in Ka
      <4> HIDE DEF ca, Ka, pa
      <4> QED BY <1>1, <3>1 DEF Indexed
    <3>3. d + ca[k] \in Cuts(b, sep) /\ d + ca[k + 1] \in Cuts(b, sep)
      BY <2>4, <3>2
    <3>4. d \in Cuts(b, sep) /\ Occurs(a, b, d)
      BY <1>5, <2>1 DEF d
    <3> QED BY <3>3, <3>4, PiecesOccur
  <2>6. o + Len(pa) = Len(pb) /\ o \in Nat
    <3>1. Len(pa) \in 1 .. Len(pa)
      BY <1>3
    <3>2. o \in Nat
      BY <2>5, <3>1
    <3>3. Len(a) + 1 \in Ka
      BY DEF Cuts
    <3>4. Below(Kb, d + (Len(a) + 1)) = o + Below(Ka, Len(a) + 1)
      <4>1. d + (Len(a) + 1) \in Cuts(b, sep)
        BY <2>2
      <4>2. d \in Cuts(b, sep) /\ Occurs(a, b, d)
        BY <1>5, <2>1 DEF d
      <4> QED BY <3>3, <4>1, <4>2, CutsShift
    <3>5. Below(Ka, Len(a) + 1) = Len(pa) /\ Below(Kb, Len(b) + 1) = Len(pb)
      <4>1. ca[Len(pa) + 1] = Len(a) + 1 /\ cb[Len(pb) + 1] = Len(b) + 1
        BY <1>1 DEF Cutting
      <4>2. Len(pa) + 1 \in 1 .. Cardinality(Ka) /\ (Len(pa) + 1) - 1 = Len(pa)
            /\ Len(pb) + 1 \in 1 .. Cardinality(Kb) /\ (Len(pb) + 1) - 1 = Len(pb)
        <5> HIDE DEF pa, pb, Ka, Kb
        <5> QED BY <1>1, <1>3
      <4>3. Below(Ka, ca[Len(pa) + 1]) = (Len(pa) + 1) - 1
            /\ Below(Kb, cb[Len(pb) + 1]) = (Len(pb) + 1) - 1
        <5> HIDE DEF pa, pb, Ka, Kb, ca, cb
        <5> QED BY <1>1, <4>2 DEF Indexed
      <4> QED BY <4>1, <4>2, <4>3
    <3> QED BY <2>2, <3>2, <3>4, <3>5
  <2> HIDE DEF pa, pb, o
  <2>7. Len(pa) <= Len(pb) /\ Len(pb) - Len(pa) = o
    BY <1>3, <2>6
  <2> QED BY <1>2, <2>5, <2>7
<1>6. ASSUME a = b PROVE IsSuffix(pa, pb)
  <2>1. pa = pb
    BY <1>6
  <2>2. \A k \in 1 .. Len(pa) : Len(pa) - Len(pa) + k = k
    BY <1>3
  <2> HIDE DEF pa, pb
  <2> QED BY <1>2, <1>3, <2>1, <2>2
<1> QED BY <1>4, <1>5, <1>6

(* A string that ends with a separator has an empty last piece, ...        *)
LEMMA LastPiece ==
  ASSUME NEW A, NEW s \in Seq(A), s # <<>>, NEW sep
  PROVE  LET p == Pieces(s, sep)
         IN  p[Len(p)] = <<>> <=> s[Len(s)] = sep
<1> DEFINE c == Marks(s, sep)
           p == Pieces(s, sep)
           K == Cuts(s, sep)
           L == Len(p)
<1>1. /\ Cutting(s, sep, c, p) /\ Indexed(K, c) /\ Cardinality(K) = L + 1
      /\ p \in Seq(Seq(A))
  BY StringIsCut
<1>2. L \in Nat \ {0} /\ Len(s) \in Nat /\ Len(s) > 0 /\ L = Len(p)
  BY <1>1 DEF Cutting
<1>3. s[Len(s)] = sep => Len(s) \in K
  BY <1>2 DEF Cuts
<1> HIDE DEF c, p, K, L
<1>4. c[L] \in Nat /\ c[L + 1] = Len(s) + 1 /\ c[L] <= Len(s) + 1 /\ p[L] \in Seq(A)
      /\ Len(p[L]) = c[L + 1] - c[L] - 1
  <2>1. L \in 1 .. Len(p) + 1 /\ L \in 1 .. Len(p)
    BY <1>2
  <2> QED BY <1>1, <1>2, <2>1 DEF Cutting
<1>5. p[L] = <<>> <=> c[L] = Len(s)
  <2>1. p[L] = <<>> <=> Len(p[L]) = 0
    BY <1>4
  <2> QED BY <1>2, <1>4, <2>1
<1>6. ASSUME c[L] = Len(s) PROVE s[Len(s)] = sep
  <2>1. L # 1
    <3>1. c[1] = 0 /\ c[L] # 0
      BY <1>1, <1>2, <1>6 DEF Cutting
    <3> QED BY <3>1
  <2>2. L \in 2 .. Len(p)
    BY <1>2, <2>1
  <2> QED BY <1>1, <1>6, <2>2 DEF Cutting
<1>7. ASSUME s[Len(s)] = sep PROVE c[L] = Len(s)
  <2>1. PICK j \in 1 .. L + 1 : c[j] = Len(s)
    <3>1. Below(K, Len(s)) \in 0 .. Cardinality(K) - 1 /\ c[Below(K, Len(s)) + 1] = Len(s)
      BY <1>1, <1>3, <1>7 DEF Indexed
    <3> QED BY <1>1, <1>2, <3>1
  <2>2. j # L + 1
    BY <1>2, <1>4, <2>1
  <2>3. ~(j < L)
    <3>1. j < L => c[j] < c[L] /\ c[L] < c[L + 1]
      <4>1. j \in 1 .. Len(p) + 1 /\ L \in 1 .. Len(p) + 1 /\ L + 1 \in 1 .. Len(p) + 1
            /\ L < L + 1
        BY <1>2
      <4> QED BY <1>1, <4>1 DEF Cutting
    <3> QED BY <1>2, <1>4, <2>1, <3>1
  <2> QED BY <1>2, <2>1, <2>2, <2>3
<1> QED BY <1>2, <1>5, <1>6, <1>7 DEF p, L

LEMMA FrontIs ==
  ASSUME NEW B, NEW p \in Seq(B), Len(p) > 0
  PROVE  /\ Front(p) \in Seq(B) /\ Len(Front(p)) = Len(p) - 1
         /\ \A k \in 1 .. Len(p) - 1 : Front(p)[k] = p[k]
<1>1. Len(p) - 1 \in Nat /\ Len(p) - 1 <= Len(p)
  OBVIOUS
<1>2. SubSeq(p, 1, Len(p) - 1) = [k \in 1 .. Len(p) - 1 |-> p[k]]
  BY <1>1
<1>3. \A k \in 1 .. Len(p) - 1 : p[k] \in B
  BY <1>1
<1>4. Front(p) \in [1 .. Len(p) - 1 -> B] /\ \A k \in 1 .. Len(p) - 1 : Front(p)[k] = p[k]
  BY <1>2, <1>3 DEF Front
<1>5. Front(p) \in Seq(B) /\ Len(Front(p)) = Len(p) - 1
  BY <1>1, <1>4, IsList
<1> QED BY <1>4, <1>5

(* ... and what begins with all its pieces but that one, and has more,     *)
(* begins with the string.                                                 *)
LEMMA TrailingPieces ==
  ASSUME NEW A, NEW a \in Seq(A), a # <<>>, NEW b \in Seq(A), NEW sep, a[Len(a)] = sep
  PROVE  /\ Len(Pieces(a, sep)) <= Len(Pieces(b, sep))
         /\ IsPrefix(Front(Pieces(a, sep)), Pieces(b, sep))
         <=> Occurs(a, b, 0)
<1> DEFINE ca == Marks(a, sep)
           cb == Marks(b, sep)
           pa == Pieces(a, sep)
           pb == Pieces(b, sep)
           Ka == Cuts(a, sep)
           Kb == Cuts(b, sep)
           L == Len(pa)
           f == Front(pa)
<1>1. /\ Cutting(a, sep, ca, pa) /\ Indexed(Ka, ca) /\ Cardinality(Ka) = L + 1
      /\ Cutting(b, sep, cb, pb) /\ Indexed(Kb, cb) /\ Cardinality(Kb) = Len(pb) + 1
      /\ pa \in Seq(Seq(A)) /\ pb \in Seq(Seq(A))
  BY StringIsCut
<1>2. /\ L \in Nat \ {0} /\ L = Len(pa) /\ Len(pb) \in Nat \ {0}
      /\ Len(a) \in Nat /\ Len(a) > 0 /\ Len(b) \in Nat
  <2>1. Len(a) > 0
    OBVIOUS
  <2> HIDE DEF pa, pb
  <2> QED BY <1>1, <2>1 DEF Cutting
<1>3. pa[L] = <<>>
  BY LastPiece
<1>4. 0 \in Kb /\ Below(Kb, 0) = 0
  BY FirstCut
<1> HIDE DEF pa, pb, ca, cb, L, Ka, Kb
<1>5. ca[L] = Len(a) /\ L \in 2 .. Len(pa)
  <2>1. L \in 1 .. Len(pa) /\ L \in 1 .. Len(pa) + 1
    BY <1>2
  <2>2. Len(pa[L]) = ca[L + 1] - ca[L] - 1 /\ ca[L] \in Nat /\ ca[L + 1] = Len(a) + 1
    BY <1>1, <1>2, <2>1 DEF Cutting
  <2>3. Len(pa[L]) = 0
    BY <1>3
  <2>4. ca[L] = Len(a)
    BY <1>2, <2>2, <2>3
  <2>5. ca[1] = 0 /\ ca[L] # 0
    BY <1>1, <1>2, <2>4 DEF Cutting
  <2> QED BY <1>2, <2>4, <2>5
<1>6. f \in Seq(Seq(A)) /\ Len(f) = L - 1 /\ \A k \in 1 .. L - 1 : f[k] = pa[k]
  <2>1. /\ Front(pa) \in Seq(Seq(A)) /\ Len(Front(pa)) = Len(pa) - 1
        /\ \A k \in 1 .. Len(pa) - 1 : Front(pa)[k] = pa[k]
    <3>1. pa \in Seq(Seq(A)) /\ Len(pa) > 0
      BY <1>1, <1>2
    <3> QED BY <3>1, FrontIs
  <2> QED BY <2>1 DEF L
<1> HIDE DEF f
<1>7. IsPrefix(f, pb) <=> L - 1 <= Len(pb) /\ \A k \in 1 .. L - 1 : pa[k] = pb[k]
  <2>1. IsPrefix(f, pb) <=> Len(f) <= Len(pb) /\ \A k \in 1 .. Len(f) : f[k] = pb[k]
    BY <1>1, <1>6, PrefixIs, ZenonT(60)
  <2> QED BY <1>6, <2>1
<1>8. ASSUME L <= Len(pb), IsPrefix(f, pb) PROVE Occurs(a, b, 0)
  <2> DEFINE j == L - 1
  <2>1. Agree(pa, pb, 0, j) /\ j + 1 = L /\ j \in 0 .. j /\ 0 + 1 + j = L /\ j \in Nat
    <3>1. \A k \in 1 .. L - 1 : 0 + k = k
      BY <1>2
    <3> QED BY <1>2, <1>7, <1>8, <3>1 DEF Agree
  <2> HIDE DEF j
  <2>2. cb[L] = Len(a)
    <3>1. cb[0 + 1 + j] = cb[0 + 1] + ca[j + 1]
      <4>1. \A k \in 0 .. j : cb[0 + 1 + k] = cb[0 + 1] + ca[k + 1]
        <5> DEFINE o == 0
        <5>1. Agree(pa, pb, o, j)
          BY <2>1
        <5> HIDE DEF o
        <5>2. \A k \in 0 .. j : cb[o + 1 + k] = cb[o + 1] + ca[k + 1]
          BY <1>1, <5>1, AgreeingCuts
        <5> QED BY <5>2 DEF o
      <4> QED BY <2>1, <4>1
    <3>2. cb[1] = 0 /\ 0 + 1 = 1
      BY <1>1 DEF Cutting
    <3> QED BY <1>2, <1>5, <2>1, <3>1, <3>2
  <2>3. \A i \in 1 .. Len(a) - 1 : b[i] = a[i]
    <3>1. \A i \in 1 .. ca[j + 1] - 1 : b[cb[0 + 1] + i] = a[i]
      BY <1>1, <2>1, PiecesAgree, SMTT(60)
    <3>2. cb[0 + 1] = 0 /\ ca[j + 1] = Len(a)
      BY <1>1, <1>5, <2>1, SMTT(60) DEF Cutting
    <3>3. \A i \in 1 .. Len(a) - 1 : 0 + i = i
      BY <1>2
    <3> QED BY <3>1, <3>2, <3>3
  <2>4. L \in 2 .. Len(pb) /\ L \in 1 .. Len(pb) + 1 /\ L < Len(pb) + 1
        /\ Len(pb) + 1 \in 1 .. Len(pb) + 1
    BY <1>2, <1>5, <1>8
  <2>5. b[Len(a)] = sep /\ Len(a) < Len(b) + 1
    <3>1. b[cb[L]] = sep /\ cb[L] < cb[Len(pb) + 1] /\ cb[Len(pb) + 1] = Len(b) + 1
      BY <1>1, <2>4 DEF Cutting
    <3> QED BY <2>2, <3>1
  <2>6. \A i \in 1 .. Len(a) : 0 + i = i /\ (i = Len(a) \/ i \in 1 .. Len(a) - 1)
    BY <1>2
  <2>7. \A i \in 1 .. Len(a) : b[0 + i] = a[i]
    BY <2>3, <2>5, <2>6
  <2> QED BY <1>2, <2>5, <2>7 DEF Occurs
<1>9. ASSUME Occurs(a, b, 0) PROVE L <= Len(pb) /\ IsPrefix(f, pb)
  <2>1. ASSUME NEW k \in 1 .. L PROVE 0 + ca[k] \in Kb /\ ca[k] \in Ka
    <3>1. k \in 1 .. Cardinality(Ka)
      BY <1>1, <1>2
    <3>2. ca[k] \in Ka
      BY <1>1, <3>1 DEF Indexed
    <3>3. ca[k] # Len(a) + 1
      <4>1. k \in 1 .. Len(pa) + 1 /\ L + 1 \in 1 .. Len(pa) + 1 /\ k < L + 1
        BY <1>2
      <4>2. ca[k] < ca[L + 1] /\ ca[L + 1] = Len(a) + 1
        BY <1>1, <1>2, <4>1 DEF Cutting
      <4> QED BY <1>2, <4>2
    <3>4. ca[k] \in Cuts(a, sep) /\ 0 \in Cuts(b, sep)
      BY <1>4, <3>2 DEF Ka, Kb
    <3>5. 0 + ca[k] \in Cuts(b, sep)
      BY <1>9, <3>3, <3>4, CutsOccur
    <3> QED BY <3>2, <3>5 DEF Kb
  <2>2. L <= Len(pb)
    <3>1. L \in 1 .. L /\ L \in 1 .. Cardinality(Ka)
      BY <1>1, <1>2
    <3>2. Below(Kb, 0 + ca[L]) = Below(Kb, 0) + Below(Ka, ca[L])
      <4>1. 0 \in Cuts(b, sep) /\ ca[L] \in Cuts(a, sep) /\ 0 + ca[L] \in Cuts(b, sep)
        BY <1>4, <2>1, <3>1 DEF Ka, Kb
      <4> QED BY <1>9, <4>1, CutsShift DEF Ka, Kb
    <3>3. Below(Ka, ca[L]) = L - 1
      BY <1>1, <3>1 DEF Indexed
    <3>4. 0 + ca[L] = Len(a) /\ Below(Kb, Len(a)) = L - 1 /\ Len(a) \in Kb
      BY <1>2, <1>4, <1>5, <2>1, <3>1, <3>2, <3>3
    <3>5. L - 1 \in 0 .. Len(pb) /\ cb[L] = Len(a)
      <4>1. Below(Kb, Len(a)) \in 0 .. Cardinality(Kb) - 1 /\ cb[Below(Kb, Len(a)) + 1] = Len(a)
        BY <1>1, <3>4 DEF Indexed
      <4> QED BY <1>1, <1>2, <3>4, <4>1
    <3>6. Len(a) <= Len(b)
      BY <1>2, <1>9 DEF Occurs
    <3>7. cb[Len(pb) + 1] = Len(b) + 1
      BY <1>1 DEF Cutting
    <3>8. L # Len(pb) + 1
      BY <1>2, <3>5, <3>6, <3>7
    <3> QED BY <1>2, <3>5, <3>8
  <2>3. ASSUME NEW k \in 1 .. L - 1 PROVE pa[k] = pb[k]
    <3>1. k \in 1 .. L /\ k + 1 \in 1 .. L /\ k \in Nat
      BY <1>2
    <3>2. k \in 1 .. Len(Pieces(a, sep)) /\ 0 + Marks(a, sep)[k] \in Cuts(b, sep)
          /\ 0 + Marks(a, sep)[k + 1] \in Cuts(b, sep) /\ 0 \in Cuts(b, sep)
      BY <1>2, <1>4, <2>1, <3>1 DEF ca, Kb, pa
    <3>3. Pieces(b, sep)[Below(Cuts(b, sep), 0) + k] = Pieces(a, sep)[k]
      BY <1>9, <3>2, PiecesOccur
    <3>4. Below(Cuts(b, sep), 0) + k = k
      BY <1>4, <3>1 DEF Kb
    <3> QED BY <3>3, <3>4 DEF pa, pb
  <2> QED BY <1>2, <1>7, <2>2, <2>3
<1>10. (L <= Len(pb) /\ IsPrefix(f, pb)) <=> Occurs(a, b, 0)
  BY <1>8, <1>9
<1> QED BY <1>10 DEF L, f, pa, pb

-----------------------------------------------------------------------------
(* Requests, for any plan: any number of hosts, whatever names, ports and  *)
(* cookies.  A request must have a host to name, the URI's or one of       *)
(* --host, and -H gives one framing at most.                               *)
Framings == {"content-length", "transfer-encoding"}

Senders ==
  {"hyper", "hyper-chunked", "hyper-h2", "hyper-mcp", "hyper-legacy", "hyper-rt1",
   "reqwest", "compio", "monoio", "tokio-uring"}

HostRecords == [name : Seq(STRING) \ {<<>>}, port : Nat]

PlanRecords ==
  [client : Senders,
   uri : [scheme : STRING, name : Seq(STRING), port : Nat, path : Seq(STRING)],
   hosts : Seq(HostRecords), port : Nat, absolute : BOOLEAN, http2 : BOOLEAN,
   body : BOOLEAN, own : SUBSET STRING,
   cookies : Seq([domain : Seq(STRING), sub : BOOLEAN, path : Seq(STRING),
                  secure : BOOLEAN, expired : BOOLEAN])]

Sendable ==
  {p \in PlanRecords :
     (p.hosts = <<>> => p.uri.name # <<>>) /\ ~(Framings \subseteq p.own)}

(* The targets, one per host, before and after the raw clients add a       *)
(* length.                                                                 *)
Count       == IF plan.hosts = <<>> THEN 1 ELSE Len(plan.hosts)
Override(i) == IF plan.hosts = <<>> THEN <<>> ELSE <<plan.hosts[i]>>
Plain(i)    == Target(Override(i))
WithLength(i) ==
  [uri |-> Plain(i).uri,
   headers |-> [names |-> EnsureLength(Plain(i).headers.names),
                host |-> Plain(i).headers.host, cookies |-> Plain(i).headers.cookies]]

PlanInv ==
  /\ plan \in Sendable /\ wired \in BOOLEAN
  /\ targets \in Seq({Plain(i) : i \in 1 .. Count} \cup {WithLength(i) : i \in 1 .. Count})
  /\ Len(targets) <= Count
  /\ \A i \in 1 .. Len(targets) : targets[i] = IF wired THEN WithLength(i) ELSE Plain(i)
  /\ wired => plan.client \in RawClients /\ AllBuilt

LEMMA PlanCounts ==
  ASSUME plan \in Sendable
  PROVE  /\ plan.hosts \in Seq(HostRecords) /\ Count \in Nat \ {0}
         /\ AllBuilt <=> Len(targets) = Count
         /\ \A i \in 1 .. Count :
              plan.hosts # <<>> => plan.hosts[i] \in HostRecords
<1>1. plan.hosts \in Seq(HostRecords)
  BY DEF Sendable, PlanRecords
<1>2. plan.hosts # <<>> => Len(plan.hosts) > 0
  BY <1>1
<1> QED BY <1>1, <1>2 DEF Count, AllBuilt

LEMMA NextPlanInv == PlanInv /\ [PlanNext]_planVars => PlanInv'
<1> SUFFICES ASSUME PlanInv, [PlanNext]_planVars PROVE PlanInv'
  OBVIOUS
<1> DEFINE T == {Plain(i) : i \in 1 .. Count} \cup {WithLength(i) : i \in 1 .. Count}
           L == Len(targets)
<1>1. /\ plan \in Sendable /\ targets \in Seq(T) /\ Count \in Nat \ {0} /\ L \in Nat
      /\ L <= Count /\ (AllBuilt <=> L = Count)
  BY PlanCounts DEF PlanInv
<1>2. ASSUME UNCHANGED plan
      PROVE  /\ Count' = Count /\ T' = T
             /\ \A i : Plain(i)' = Plain(i) /\ WithLength(i)' = WithLength(i)
  BY <1>2 DEF Count, Plain, WithLength, Override, Target, RequestUri, Headers, Absolute,
              OriginForm, AbsoluteForm, Authority, Http2, UriHost,
              EnsureLength
<1>3. ASSUME NEW n \in 1 .. Count, n = L + 1, ~wired,
             targets' = Append(targets, Plain(n)), UNCHANGED <<plan, wired>>
      PROVE  PlanInv'
  <2>1. Plain(n) \in T
    OBVIOUS
  <2>2. \A i \in 1 .. L : targets[i] = Plain(i)
    BY <1>3 DEF PlanInv
  <2> HIDE DEF T
  <2>3. targets' \in Seq(T) /\ Len(targets') = n
        /\ \A i \in 1 .. n : targets'[i] = Plain(i)
    BY <1>1, <1>3, <2>1, <2>2
  <2> QED BY <1>1, <1>2, <1>3, <2>3 DEF PlanInv, T
<1>4. CASE BuildSingle
  <2>1. L = 0 /\ Count = 1 /\ ~wired
    BY <1>1, <1>4 DEF BuildSingle, Count, PlanInv
  <2>2. targets' = Append(targets, Plain(1))
    <3> HIDE DEF T
    <3>1. targets = <<>>
      BY <1>1, <2>1
    <3> QED BY <1>4, <3>1 DEF BuildSingle, Plain, Override
  <2> QED BY <1>3, <1>4, <2>1, <2>2 DEF BuildSingle
<1>5. CASE BuildNext
  <2>1. L < Count /\ ~wired
    BY <1>1, <1>5 DEF BuildNext, PlanInv
  <2>2. L + 1 \in 1 .. Count /\ targets' = Append(targets, Plain(L + 1))
    BY <1>1, <1>5, <2>1 DEF BuildNext, Plain, Override
  <2> QED BY <1>3, <1>5, <2>1, <2>2 DEF BuildNext
<1>6. CASE Serialize
  <2>1. L = Count /\ ~wired /\ plan.client \in RawClients /\ UNCHANGED plan /\ wired'
    BY <1>1, <1>6 DEF Serialize
  <2>2. \A i \in 1 .. L : [targets[i] EXCEPT !.headers.names = EnsureLength(@)]
                            = WithLength(i)
    <3> TAKE i \in 1 .. L
    <3>1. targets[i] = Plain(i)
      BY <2>1 DEF PlanInv
    <3> QED BY <3>1 DEF WithLength, Plain, Target, Headers
  <2>3. targets' = [i \in 1 .. L |-> WithLength(i)]
    BY <1>6, <2>2 DEF Serialize
  <2>4. \A i \in 1 .. L : WithLength(i) \in T
    BY <2>1
  <2> HIDE DEF T
  <2>5. targets' \in Seq(T) /\ Len(targets') = L
    BY <1>1, <2>3, <2>4
  <2>6. AllBuilt'
    BY <1>2, <2>1, <2>5 DEF AllBuilt, Count
  <2> QED BY <1>1, <1>2, <1>6, <2>1, <2>3, <2>5, <2>6 DEF PlanInv, T, Serialize
<1>7. CASE UNCHANGED planVars
  <2>1. UNCHANGED <<plan, targets, wired>>
    BY <1>7 DEF planVars
  <2> QED BY <1>2, <2>1 DEF PlanInv, AllBuilt, T
<1> QED BY <1>4, <1>5, <1>6, <1>7 DEF PlanNext

LEMMA InitPlanInv ==
  ASSUME Plans \subseteq Sendable
  PROVE  PlanInit => PlanInv
<1> SUFFICES ASSUME PlanInit PROVE PlanInv
  OBVIOUS
<1>1. plan \in Sendable
  BY DEF PlanInit
<1>2. Count \in Nat \ {0}
  BY <1>1, PlanCounts
<1>3. /\ targets = <<>> /\ Len(targets) = 0 /\ wired = FALSE
      /\ targets \in Seq({Plain(i) : i \in 1 .. Count} \cup {WithLength(i) : i \in 1 .. Count})
  <2> DEFINE T == {Plain(i) : i \in 1 .. Count} \cup {WithLength(i) : i \in 1 .. Count}
  <2> HIDE DEF T
  <2>1. <<>> \in Seq(T) /\ Len(<<>>) = 0
    OBVIOUS
  <2>2. targets = <<>> /\ wired = FALSE
    BY DEF PlanInit
  <2> QED BY <2>1, <2>2 DEF T
<1>4. Len(targets) <= Count /\ 1 .. Len(targets) = {} /\ wired \in BOOLEAN
  <2>1. Len(targets) = 0 /\ wired = FALSE
    BY <1>3
  <2>2. 1 .. 0 = {} /\ 0 <= Count
    BY <1>2
  <2> QED BY <2>1, <2>2
<1>5. \A i \in 1 .. Len(targets) : targets[i] = IF wired THEN WithLength(i) ELSE Plain(i)
  BY <1>4
<1>6. wired => plan.client \in RawClients /\ AllBuilt
  BY <1>3
<1> QED BY <1>1, <1>3, <1>4, <1>5, <1>6, Zenon DEF PlanInv

(* The form of a URI, and whom an absolute one is for.                     *)
LEMMA RequestUriIs ==
  ASSUME NEW hs
  PROVE  /\ ~Absolute => RequestUri(hs).form = "origin"
         /\ Absolute => RequestUri(hs).form = "absolute"
         /\ Absolute /\ hs # <<>> => RequestUri(hs).host = Authority(hs[1])
<1>1. CASE ~Absolute
  BY <1>1 DEF RequestUri, OriginForm
<1>2. CASE Absolute /\ hs = <<>>
  BY <1>2 DEF RequestUri, AbsoluteForm
<1>3. CASE Absolute /\ hs # <<>>
  <2> DEFINE s == IF plan.uri.scheme = "" THEN "http" ELSE plan.uri.scheme
             a == Authority(hs[1])
             q == Slash(plan.uri.path)
  <2>1. RequestUri(hs) = [form |-> "absolute", host |-> a, scheme |-> s, path |-> q]
    BY <1>3, Zenon DEF RequestUri, AbsoluteForm
  <2> HIDE DEF s, a, q
  <2>2. RequestUri(hs).form = "absolute" /\ RequestUri(hs).host = a
    BY <2>1
  <2> QED BY <1>3, <2>2 DEF a
<1> QED BY <1>1, <1>2, <1>3

(* What the templates of a host and the raw clients' length come to.       *)
LEMMA PlainIs ==
  ASSUME plan \in Sendable, NEW i \in 1 .. Count
  PROVE  LET host == IF plan.hosts = <<>> THEN UriHost ELSE plan.hosts[i]
             names == Plain(i).headers.names
         IN  /\ host.name # <<>>
             /\ Plain(i).uri = RequestUri(Override(i))
             /\ ~Http2 => "host" \in names
             /\ Plain(i).headers.host \in {<<>>, <<Authority(host)>>}
             /\ names \cap Framings = plan.own \cap Framings
<1> DEFINE host == IF plan.hosts = <<>> THEN UriHost ELSE plan.hosts[i]
<1>1. Override(i) = <<>> <=> plan.hosts = <<>>
  BY DEF Override
<1>2. (IF Override(i) = <<>> THEN UriHost ELSE Override(i)[1]) = host
  BY <1>1 DEF Override
<1>3. host.name # <<>>
  <2>1. CASE plan.hosts = <<>>
    BY <2>1 DEF UriHost, Sendable
  <2>2. CASE plan.hosts # <<>>
    BY <2>2, PlanCounts DEF HostRecords
  <2> QED BY <2>1, <2>2
<1> HIDE DEF host
<1>4. /\ Plain(i).uri = RequestUri(Override(i))
      /\ Plain(i).headers = Headers(Override(i))
  BY DEF Plain, Target
<1>5. ~Http2 => "host" \in Plain(i).headers.names
  BY <1>2, <1>3, <1>4 DEF Headers
<1>6. Plain(i).headers.host \in {<<>>, <<Authority(host)>>}
  BY <1>2, <1>4 DEF Headers
<1>7. Plain(i).headers.names \cap Framings = plan.own \cap Framings
  <2>1. Plain(i).headers.names \subseteq plan.own \cup {"cookie", "host"}
        /\ plan.own \subseteq Plain(i).headers.names
    BY <1>2, <1>4 DEF Headers
  <2> QED BY <2>1 DEF Framings
<1> QED BY <1>3, <1>4, <1>5, <1>6, <1>7 DEF host

(* A raw client's body has one framing.                                    *)
LEMMA LengthIsOne ==
  ASSUME plan \in Sendable, plan.body, NEW i \in 1 .. Count
  PROVE  LET names == EnsureLength(Plain(i).headers.names)
         IN  ("content-length" \in names) # ("transfer-encoding" \in names)
<1> DEFINE P == Plain(i).headers.names
           E == EnsureLength(P)
<1>1. P \cap Framings = plan.own \cap Framings
  BY PlainIs
<1>2. ~(Framings \subseteq plan.own)
  BY DEF Sendable
<1> HIDE DEF P
<1>3. ASSUME "content-length" \in P
      PROVE  "content-length" \in E <=> ~("transfer-encoding" \in E)
  BY <1>1, <1>2, <1>3 DEF EnsureLength, Framings
<1>4. ASSUME "transfer-encoding" \in P
      PROVE  "content-length" \in E <=> ~("transfer-encoding" \in E)
  BY <1>1, <1>2, <1>4 DEF EnsureLength, Framings
<1>5. ASSUME P \cap Framings = {}
      PROVE  "content-length" \in E <=> ~("transfer-encoding" \in E)
  BY <1>5 DEF EnsureLength, Framings
<1> HIDE DEF E
<1>6. "content-length" \in E <=> ~("transfer-encoding" \in E)
  BY <1>3, <1>4, <1>5 DEF Framings
<1>7. ("content-length" \in E) # ("transfer-encoding" \in E)
  BY <1>6
<1> QED BY <1>7 DEF P, E

LEMMA PlanInvAddresses == PlanInv => RequestsAddressed
<1> SUFFICES ASSUME PlanInv, Built, NEW i \in 1 .. Len(targets)
             PROVE  LET uri   == Request(i).uri
                        names == Request(i).headers.names
                        host  == Request(i).headers.host
                    IN  /\ plan.hosts # <<>> =>
                             /\ host # <<>> => host[1].name = plan.hosts[i].name
                             /\ uri.form = "absolute" /\ plan.client \notin Library =>
                                  /\ uri.host.name = plan.hosts[i].name
                                  /\ host # <<>> => uri.host = host[1]
                        /\ (plan.client \notin RawClients \/ ~plan.http2) =>
                             uri.form = "absolute" \/ "host" \in names
                        /\ plan.client \in RawClients /\ plan.body =>
                             (("content-length" \in names) # ("transfer-encoding" \in names))
  BY DEF RequestsAddressed
<1> DEFINE P == Plain(i)
           named == IF plan.hosts = <<>> THEN UriHost ELSE plan.hosts[i]
<1>1. plan \in Sendable /\ i \in 1 .. Count
  BY PlanCounts DEF PlanInv, Built
<1>2. wired <=> plan.client \in RawClients
  BY DEF PlanInv, Built
<1>3. targets[i] = IF wired THEN WithLength(i) ELSE P
  BY DEF PlanInv
<1>4. /\ P.uri = RequestUri(Override(i))
      /\ ~Http2 => "host" \in P.headers.names
      /\ P.headers.host \in {<<>>, <<Authority(named)>>}
  BY <1>1, PlainIs
<1>5. /\ Request(i).headers.host = P.headers.host
      /\ Request(i).headers.names =
           IF wired THEN EnsureLength(P.headers.names) ELSE P.headers.names
      /\ Request(i).uri = IF plan.client \in Library THEN GivenUri ELSE P.uri
  <2>1. /\ targets[i].uri = P.uri
        /\ targets[i].headers.host = P.headers.host
        /\ targets[i].headers.names =
             IF wired THEN EnsureLength(P.headers.names) ELSE P.headers.names
    BY <1>3 DEF WithLength
  <2>2. CASE plan.client \in Library
    <3>1. ~wired /\ targets[i] = P
      BY <1>2, <1>3, <2>2 DEF Library, RawClients
    <3>2. Request(i) = [uri |-> GivenUri, headers |-> P.headers]
      BY <2>2, <3>1 DEF Request, Plain, Target
    <3> QED BY <2>1, <2>2, <3>1, <3>2
  <2>3. CASE plan.client \notin Library
    BY <2>1, <2>3 DEF Request
  <2> QED BY <2>2, <2>3
<1> HIDE DEF P
<1>6. ASSUME plan.hosts # <<>>
      PROVE  /\ named = plan.hosts[i] /\ Authority(named).name = plan.hosts[i].name
             /\ Override(i) # <<>> /\ Override(i)[1] = named
  <2>1. named = plan.hosts[i] /\ named \in HostRecords
    BY <1>1, <1>6, PlanCounts
  <2>2. Authority(named).name = named.name
    BY <2>1 DEF Authority, HostRecords
  <2> QED BY <1>6, <2>1, <2>2 DEF Override
<1> HIDE DEF named
<1>7. ASSUME plan.hosts # <<>>, Request(i).headers.host # <<>>
      PROVE  /\ Request(i).headers.host[1] = Authority(named)
             /\ Request(i).headers.host[1].name = plan.hosts[i].name
  BY <1>4, <1>5, <1>6, <1>7
<1>8. ASSUME plan.hosts # <<>>, Request(i).uri.form = "absolute",
             plan.client \notin Library
      PROVE  Request(i).uri.host = Authority(named)
  <2>1. P.uri.form = "absolute" /\ Request(i).uri = P.uri
    BY <1>5, <1>8
  <2>2. Absolute
    BY <1>4, <2>1, RequestUriIs
  <2> QED BY <1>4, <1>6, <1>8, <2>1, <2>2, RequestUriIs
<1>9. ASSUME plan.client \notin RawClients \/ ~plan.http2
      PROVE  Request(i).uri.form = "absolute" \/ "host" \in Request(i).headers.names
  <2>1. CASE plan.client \in Library
    BY <1>5, <2>1 DEF GivenUri, AbsoluteForm
  <2>2. CASE plan.client \notin Library /\ Absolute
    <3>1. P.uri.form = "absolute"
      BY <1>4, <2>2, RequestUriIs
    <3> QED BY <1>5, <2>2, <3>1
  <2>3. CASE ~Absolute /\ plan.client \notin Library
    <3>1. plan.client \in Senders
      BY <1>1 DEF Sendable, PlanRecords
    <3>2. ~Http2
      BY <1>9, <2>3, <3>1 DEF Senders, Absolute, Http2, RawClients, Library
    <3>3. P.headers.names \subseteq EnsureLength(P.headers.names)
      BY DEF EnsureLength
    <3> QED BY <1>4, <1>5, <3>2, <3>3
  <2> QED BY <2>1, <2>2, <2>3
<1>10. ASSUME plan.client \in RawClients, plan.body
       PROVE  ("content-length" \in Request(i).headers.names)
                # ("transfer-encoding" \in Request(i).headers.names)
  BY <1>1, <1>2, <1>5, <1>10, LengthIsOne DEF P
<1> QED BY <1>6, <1>7, <1>8, <1>9, <1>10

(* Every request says consistently whom it is for, and a raw client's body *)
(* has one framing, whatever the options, hosts, cookies and -H headers.   *)
THEOREM RequestsAreAddressed ==
  ASSUME Plans \subseteq Sendable
  PROVE  PlanSpec => []RequestsAddressed
<1>1. PlanInit => PlanInv
  BY InitPlanInv
<1>2. PlanInv /\ [PlanNext]_planVars => PlanInv'
  BY NextPlanInv
<1>3. PlanInv => RequestsAddressed
  BY PlanInvAddresses
<1> QED BY <1>1, <1>2, <1>3, PTL DEF PlanSpec

(* The matching of the code, character by character, is that of segments   *)
(* and of labels.                                                          *)
LEMMA OccursAt0 ==
  ASSUME NEW A, NEW a \in Seq(A), NEW b \in Seq(A)
  PROVE  Occurs(a, b, 0) <=> IsPrefix(a, b)
<1>1. Len(a) \in Nat /\ \A i \in 1 .. Len(a) : 0 + i = i
  OBVIOUS
<1> QED BY <1>1, PrefixIs DEF Occurs

LEMMA PathsMatch ==
  ASSUME NEW A, NEW cp \in Seq(A), cp # <<>>, NEW rp \in Seq(A)
  PROVE  PathMatches(cp, rp) <=> InPath(cp, rp)
<1> DEFINE c == Pieces(cp, "/")
           r == Pieces(rp, "/")
<1>1. InPath(cp, rp) <=>
        IF c[Len(c)] = <<>> THEN Len(c) <= Len(r) /\ IsPrefix(Front(c), r) ELSE IsPrefix(c, r)
  BY DEF InPath
<1>2. c[Len(c)] = <<>> <=> cp[Len(cp)] = "/"
  BY LastPiece
<1>3. Occurs(cp, rp, 0) <=> IsPrefix(cp, rp)
  BY OccursAt0
<1>4. IsPrefix(cp, cp) /\ Len(cp) \in Nat /\ Len(rp) \in Nat
  BY PrefixIs
<1>5. CASE cp[Len(cp)] = "/"
  <2>1. Len(c) <= Len(r) /\ IsPrefix(Front(c), r) <=> Occurs(cp, rp, 0)
    BY <1>5, TrailingPieces
  <2> HIDE DEF c, r
  <2> QED BY <1>1, <1>2, <1>3, <1>4, <1>5, <2>1 DEF PathMatches
<1>6. CASE cp[Len(cp)] # "/"
  <2>1. IsPrefix(c, r) <=>
          cp = rp \/ (Len(cp) < Len(rp) /\ Occurs(cp, rp, 0) /\ rp[Len(cp) + 1] = "/")
    BY PrefixPieces
  <2>2. Len(rp) > Len(cp) <=> Len(cp) < Len(rp)
    BY <1>4
  <2> HIDE DEF c, r
  <2> QED BY <1>1, <1>2, <1>3, <1>6, <2>1, <2>2 DEF PathMatches
<1> QED BY <1>5, <1>6

LEMMA DomainsMatch ==
  ASSUME NEW A, NEW c, c.domain \in Seq(A), NEW name \in Seq(A)
  PROVE  DomainMatches(c, name) <=> InDomain(c, name)
<1> DEFINE d == Undotted(c.domain)
           pd == Pieces(d, ".")
           pn == Pieces(name, ".")
<1>1. d \in Seq(A)
  BY DEF Undotted
<1>2. InDomain(c, name) <=> IF c.sub THEN IsSuffix(pd, pn) ELSE pd = pn
  BY DEF InDomain
<1>3. DomainMatches(c, name) <=>
        \/ name = d
        \/ /\ c.sub /\ Len(name) > Len(d) /\ IsSuffix(d, name)
           /\ name[Len(name) - Len(d)] = "."
  BY DEF DomainMatches
<1> HIDE DEF d
<1>4. pd = pn <=> d = name
  BY <1>1, SamePieces
<1>5. IsSuffix(pd, pn) <=>
        d = name \/ (/\ Len(d) < Len(name) /\ Occurs(d, name, Len(name) - Len(d))
                     /\ name[Len(name) - Len(d)] = ".")
  BY <1>1, SuffixPieces
<1>6. Len(d) \in Nat /\ Len(name) \in Nat
  BY <1>1
<1>7. Len(d) < Len(name) =>
        (Occurs(d, name, Len(name) - Len(d)) <=> IsSuffix(d, name))
  BY <1>1, <1>6, SuffixIs DEF Occurs
<1> HIDE DEF pd, pn
<1>8. Len(name) > Len(d) <=> Len(d) < Len(name)
  BY <1>6
<1> QED BY <1>2, <1>3, <1>4, <1>5, <1>7, <1>8

(* The cookies a request gets: those that apply, the longest path first.   *)
LEMMA CookiesMatched ==
  ASSUME NEW A, NEW cookies \in Seq(A), \A i \in 1 .. Len(cookies) : Len(cookies[i].path) \in Nat,
         NEW uri, NEW name
  PROVE  LET sent == MatchCookies(cookies, uri, name)
         IN  /\ ToSet(sent) = {k \in 1 .. Len(cookies) : Applies(cookies[k], uri, name)}
             /\ \A j, k \in 1 .. Len(sent) :
                  j < k => Len(cookies[sent[j]].path) >= Len(cookies[sent[k]].path)
<1> DEFINE n == Len(cookies)
           M == {k \in 1 .. n : Applies(cookies[k], uri, name)}
           len(k) == Len(cookies[k].path)
           longer(j, k) == len(j) > len(k) \/ (len(j) = len(k) /\ j < k)
           R == {p \in M \X M : longer(p[1], p[2])}
           sent == Sorted(M, R)
<1>1. MatchCookies(cookies, uri, name) = sent
  BY DEF MatchCookies
<1>2. n \in Nat /\ M \in SUBSET (1 .. n) /\ IsFiniteSet(1 .. n) /\ \A k \in M : len(k) \in Nat
  BY FS_Interval
<1>3. \A j, k \in M : <<j, k>> \in R <=> longer(j, k)
  OBVIOUS
<1> HIDE DEF M, R, n, len
<1>4. Orders(R, M)
  <2>1. \A k \in M : k \in Nat /\ len(k) \in Nat
    BY <1>2
  <2>2. \A k \in M : ~longer(k, k)
    BY <2>1
  <2>3. \A j, k \in M : j # k => longer(j, k) \/ longer(k, j)
    BY <2>1
  <2>4. \A j, k, l \in M : longer(j, k) /\ longer(k, l) => longer(j, l)
    BY <2>1
  <2> HIDE DEF longer
  <2> QED BY <1>3, <2>2, <2>3, <2>4 DEF Orders
<1>5. IsFiniteSet(M)
  BY <1>2, FS_Subset
<1> DEFINE N == Cardinality(M)
<1> HIDE DEF N, sent
<1>6. /\ N \in Nat /\ sent \in [1 .. N -> M] /\ Len(sent) = N
      /\ \A x \in M : sent[Place(M, R, x) + 1] = x
      /\ \A j, k \in 1 .. N : j < k => <<sent[j], sent[k]>> \in R
  BY <1>4, <1>5, SortedIs DEF sent, N
<1>7. \A x \in M : Place(M, R, x) \in 0 .. N - 1
  BY <1>4, <1>5, PlaceBounds DEF N
<1>8. ToSet(sent) = M
  <2>1. ToSet(sent) = {sent[i] : i \in 1 .. N}
    BY <1>6 DEF ToSet
  <2>2. \A i \in 1 .. N : sent[i] \in M
    BY <1>6
  <2>3. ASSUME NEW x \in M PROVE \E i \in 1 .. N : sent[i] = x
    <3>1. Place(M, R, x) + 1 \in 1 .. N
      BY <1>6, <1>7
    <3> QED BY <1>6, <3>1
  <2> QED BY <2>1, <2>2, <2>3
<1>9. ASSUME NEW j \in 1 .. Len(sent), NEW k \in 1 .. Len(sent), j < k
      PROVE  len(sent[j]) >= len(sent[k])
  <2>1. j \in 1 .. N /\ k \in 1 .. N /\ sent[j] \in M /\ sent[k] \in M
    BY <1>6, <1>9
  <2>2. longer(sent[j], sent[k])
    BY <1>3, <1>6, <1>9, <2>1
  <2>3. len(sent[j]) \in Nat /\ len(sent[k]) \in Nat
    BY <1>2, <2>1
  <2> QED BY <2>2, <2>3
<1> QED BY <1>1, <1>8, <1>9 DEF M, n, len

(* A cookie applies if the host is in its domain and the path in its path. *)
LEMMA AppliesIs ==
  ASSUME NEW c, c.domain \in Seq(STRING), c.path \in Seq(STRING),
         NEW uri, uri.path \in Seq(STRING), NEW name \in Seq(STRING)
  PROVE  Applies(c, uri, name) <=>
           /\ InDomain(c, name) /\ InPath(Slash(c.path), Slash(uri.path))
           /\ ~c.expired /\ (c.secure => uri.scheme = "https")
<1> DEFINE A == STRING \cup {"/"}
<1>1. \A p \in Seq(STRING) : Slash(p) \in Seq(A) /\ Slash(p) # <<>>
  <2> TAKE p \in Seq(STRING)
  <2>1. p \in Seq(A) /\ <<"/">> \in Seq(A) /\ Len(<<"/">>) = 1
    OBVIOUS
  <2>2. <<"/">> # <<>>
    BY <2>1
  <2> HIDE DEF A
  <2> QED BY <2>1, <2>2, Zenon DEF Slash
<1>2. PathMatches(Slash(c.path), Slash(uri.path)) <=> InPath(Slash(c.path), Slash(uri.path))
  <2> HIDE DEF A
  <2> QED BY <1>1, PathsMatch
<1>3. DomainMatches(c, name) <=> InDomain(c, name)
  BY DomainsMatch
<1> QED BY <1>2, <1>3 DEF Applies

LEMMA PlanInvCookies == PlanInv => CookiesInScope
<1> SUFFICES ASSUME PlanInv, Built, NEW i \in 1 .. Len(targets)
             PROVE  LET name == IF plan.hosts = <<>> THEN plan.uri.name ELSE plan.hosts[i].name
                        sent == targets[i].headers.cookies
                    IN  /\ ToSet(sent) =
                             {k \in 1 .. Len(plan.cookies) :
                                LET c == plan.cookies[k]
                                IN  /\ InDomain(c, name)
                                    /\ InPath(Slash(c.path), Slash(plan.uri.path))
                                    /\ ~c.expired /\ (c.secure => plan.uri.scheme = "https")}
                        /\ \A j, k \in 1 .. Len(sent) :
                             j < k => Len(plan.cookies[sent[j]].path)
                                        >= Len(plan.cookies[sent[k]].path)
  BY DEF CookiesInScope
<1> DEFINE name == IF plan.hosts = <<>> THEN plan.uri.name ELSE plan.hosts[i].name
           C == [domain : Seq(STRING), sub : BOOLEAN, path : Seq(STRING),
                 secure : BOOLEAN, expired : BOOLEAN]
           inScope(c) == /\ InDomain(c, name) /\ InPath(Slash(c.path), Slash(plan.uri.path))
                         /\ ~c.expired /\ (c.secure => plan.uri.scheme = "https")
<1>1. plan \in Sendable /\ plan.cookies \in Seq(C) /\ plan.uri.path \in Seq(STRING)
      /\ plan.uri.name \in Seq(STRING)
  BY DEF PlanInv, Sendable, PlanRecords
<1>2. i \in 1 .. Count /\ targets[i] \in {Plain(i), WithLength(i)}
  BY <1>1, PlanCounts DEF PlanInv
<1>3. name \in Seq(STRING)
  BY <1>1, <1>2, PlanCounts DEF HostRecords
<1>4. targets[i].headers.cookies = MatchCookies(plan.cookies, plan.uri, name)
  <2>1. Headers(Override(i)).cookies = MatchCookies(plan.cookies, plan.uri, name)
    <3>1. CASE plan.hosts = <<>>
      BY <3>1 DEF Headers, Override, UriHost
    <3>2. CASE plan.hosts # <<>>
      BY <3>2 DEF Headers, Override
    <3> QED BY <3>1, <3>2
  <2>2. Plain(i).headers.cookies = Headers(Override(i)).cookies
        /\ WithLength(i).headers.cookies = Plain(i).headers.cookies
    BY DEF Plain, WithLength, Target
  <2> QED BY <1>2, <2>1, <2>2
<1> HIDE DEF name, C
<1>5. \A k \in 1 .. Len(plan.cookies) :
        /\ plan.cookies[k].domain \in Seq(STRING) /\ plan.cookies[k].path \in Seq(STRING)
        /\ Len(plan.cookies[k].path) \in Nat
  <2> TAKE k \in 1 .. Len(plan.cookies)
  <2>1. plan.cookies[k] \in C
    BY <1>1
  <2> QED BY <2>1 DEF C
<1>6. \A k \in 1 .. Len(plan.cookies) :
        Applies(plan.cookies[k], plan.uri, name) <=> inScope(plan.cookies[k])
  <2> TAKE k \in 1 .. Len(plan.cookies)
  <2> DEFINE c == plan.cookies[k]
  <2>1. c.domain \in Seq(STRING) /\ c.path \in Seq(STRING)
    BY <1>5
  <2> HIDE DEF c
  <2>2. Applies(c, plan.uri, name) <=> inScope(c)
    BY <1>1, <1>3, <2>1, AppliesIs
  <2> QED BY <2>2 DEF c
<1> DEFINE sent == MatchCookies(plan.cookies, plan.uri, name)
<1>7. /\ ToSet(sent) = {k \in 1 .. Len(plan.cookies) : Applies(plan.cookies[k], plan.uri, name)}
      /\ \A j, k \in 1 .. Len(sent) :
           j < k => Len(plan.cookies[sent[j]].path) >= Len(plan.cookies[sent[k]].path)
  BY <1>1, <1>5, CookiesMatched
<1>8. {k \in 1 .. Len(plan.cookies) : Applies(plan.cookies[k], plan.uri, name)}
        = {k \in 1 .. Len(plan.cookies) : inScope(plan.cookies[k])}
  <2> HIDE DEF inScope
  <2> QED BY <1>6
<1> HIDE DEF sent
<1>9. targets[i].headers.cookies = sent
  BY <1>4 DEF sent
<1> QED BY <1>7, <1>8, <1>9 DEF name

(* Every request carries the cookies whose domain and path it is in,       *)
(* whatever the hosts, the paths and the cookies.                          *)
THEOREM CookiesAreInScope ==
  ASSUME Plans \subseteq Sendable
  PROVE  PlanSpec => []CookiesInScope
<1>1. PlanInit => PlanInv
  BY InitPlanInv
<1>2. PlanInv /\ [PlanNext]_planVars => PlanInv'
  BY NextPlanInv
<1>3. PlanInv => CookiesInScope
  BY PlanInvCookies
<1> QED BY <1>1, <1>2, <1>3, PTL DEF PlanSpec

-----------------------------------------------------------------------------
(* The events of a stream.  First: lists that grow at their end.           *)
(* The concatenation of a list of sequences, one after the other.          *)
Joining(f, A, ss) ==
  /\ f \in [0 .. Len(ss) -> Seq(A)] /\ f[0] = <<>>
  /\ \A i \in 1 .. Len(ss) : f[i] = f[i - 1] \o ss[i]

LEMMA JoinExists ==
  ASSUME NEW A, NEW ss \in Seq(Seq(A))
  PROVE  \E f : Joining(f, A, ss)
<1> DEFINE upto(f, n) ==
             /\ f \in [0 .. n -> Seq(A)] /\ f[0] = <<>>
             /\ \A i \in 1 .. n : f[i] = f[i - 1] \o ss[i]
           G == {n \in Nat : n <= Len(ss) => \E f : upto(f, n)}
<1>1. 0 \in G
  <2>1. <<>> \in Seq(A)
    OBVIOUS
  <2>2. upto([i \in 0 .. 0 |-> <<>>], 0)
    BY <2>1
  <2> HIDE DEF upto
  <2> QED BY <2>2
<1>2. ASSUME NEW n \in G PROVE n + 1 \in G
  <2>0. n \in Nat
    OBVIOUS
  <2> SUFFICES ASSUME n + 1 <= Len(ss) PROVE \E f : upto(f, n + 1)
    <3> HIDE DEF upto
    <3> QED BY <2>0
  <2>1. n \in Nat /\ n <= Len(ss)
    OBVIOUS
  <2>2. PICK f : upto(f, n)
    BY <2>1
  <2> DEFINE g == [i \in 0 .. n + 1 |-> IF i = n + 1 THEN f[n] \o ss[n + 1] ELSE f[i]]
  <2>3. f[n] \in Seq(A) /\ ss[n + 1] \in Seq(A)
    BY <2>1, <2>2
  <2>4. f[n] \o ss[n + 1] \in Seq(A)
    BY <2>3
  <2>5. g \in [0 .. n + 1 -> Seq(A)] /\ g[0] = <<>>
    BY <2>1, <2>2, <2>4
  <2>6. ASSUME NEW i \in 1 .. n + 1 PROVE g[i] = g[i - 1] \o ss[i]
    <3>1. CASE i = n + 1
      <4>1. i - 1 = n /\ n \in 0 .. n + 1 /\ n + 1 \in 0 .. n + 1 /\ n # n + 1
        BY <2>1, <3>1
      <4>2. g[n + 1] = f[n] \o ss[n + 1] /\ g[n] = f[n]
        BY <4>1
      <4> QED BY <3>1, <4>1, <4>2
    <3>2. CASE i # n + 1
      <4>1. i \in 1 .. n /\ i - 1 \in 0 .. n + 1 /\ i \in 0 .. n + 1 /\ i - 1 # n + 1
        BY <2>1, <3>2
      <4>2. g[i] = f[i] /\ g[i - 1] = f[i - 1]
        BY <3>2, <4>1
      <4> QED BY <2>2, <4>1, <4>2
    <3> QED BY <3>1, <3>2
  <2> HIDE DEF g
  <2> QED BY <2>5, <2>6
<1>3. G = Nat
  <2> HIDE DEF G
  <2>1. G \in SUBSET Nat
    BY DEF G
  <2> QED BY <1>1, <1>2, <2>1, Induction
<1>4. Len(ss) \in Nat
  OBVIOUS
<1>5. Len(ss) \in G
  <2> HIDE DEF G
  <2> QED BY <1>3, <1>4
<1>6. \E f : upto(f, Len(ss))
  <2> HIDE DEF upto
  <2> QED BY <1>4, <1>5
<1>7. PICK f : upto(f, Len(ss))
  BY <1>6
<1>8. Joining(f, A, ss)
  BY <1>7 DEF Joining
<1> QED BY <1>8

LEMMA FlattenIs ==
  ASSUME NEW A, NEW ss \in Seq(Seq(A)), NEW f, Joining(f, A, ss)
  PROVE  FlattenSeq(ss) = f[Len(ss)] /\ f[Len(ss)] \in Seq(A)
<1> DEFINE n == Len(ss)
           body(h) == [i \in 1 .. n |-> IF i = 1 THEN ss[i] ELSE h[i - 1] \o ss[i]]
           g == [i \in 1 .. n |-> f[i]]
<1>1. n \in Nat /\ f[n] \in Seq(A)
  BY DEF Joining
<1>2. CASE n = 0
  <2>1. ss = <<>>
    BY <1>2
  <2> QED BY <1>1, <1>2, <2>1 DEF FlattenSeq, Joining
<1>3. CASE n # 0
  <2>1. g = body(g)
    <3>1. ASSUME NEW i \in 1 .. n PROVE g[i] = body(g)[i]
      <4>1. CASE i = 1
        <5>1. f[1] = <<>> \o ss[1] /\ ss[1] \in Seq(A)
          <6>1. 1 \in 1 .. Len(ss) /\ 1 - 1 = 0
            BY <1>1, <1>3
          <6>2. f[1] = f[1 - 1] \o ss[1]
            BY <6>1 DEF Joining
          <6>3. ss[1] \in Seq(A)
            BY <6>1
          <6> QED BY <6>1, <6>2, <6>3 DEF Joining
        <5>2. <<>> \o ss[1] = ss[1]
          BY <5>1
        <5> QED BY <4>1, <5>1, <5>2
      <4>2. CASE i # 1
        <5>1. i - 1 \in 1 .. n
          BY <1>1, <4>2
        <5> QED BY <4>2, <5>1 DEF Joining
      <4> QED BY <4>1, <4>2
    <3> QED BY <3>1
  <2> DEFINE h == CHOOSE h : h = body(h)
  <2>2. h = body(h)
    <3> HIDE DEF g, body
    <3> QED BY <2>1
  <2>3. FlattenSeq(ss) = h[n]
    <3>1. Len(ss) # 0
      BY <1>3
    <3> QED BY <3>1 DEF FlattenSeq
  <2> HIDE DEF h
  <2> DEFINE G == {i \in Nat : i + 1 \in 1 .. n => h[i + 1] = f[i + 1]}
  <2>4. 0 \in G
    <3>1. g[1] = body(g)[1] /\ h[1] = body(h)[1]
      <4> HIDE DEF g, body
      <4> QED BY <2>1, <2>2
    <3> QED BY <1>1, <1>3, <3>1
  <2>5. ASSUME NEW i \in G PROVE i + 1 \in G
    <3> SUFFICES ASSUME i + 1 + 1 \in 1 .. n PROVE h[i + 1 + 1] = f[i + 1 + 1]
      OBVIOUS
    <3>1. i \in Nat /\ i + 1 \in 1 .. n /\ i + 1 + 1 # 1 /\ (i + 1 + 1) - 1 = i + 1
      BY <1>1
    <3>2. h[i + 1 + 1] = h[i + 1] \o ss[i + 1 + 1]
      <4>1. h[i + 1 + 1] = body(h)[i + 1 + 1]
        <5> HIDE DEF body
        <5> QED BY <2>2
      <4> QED BY <3>1, <4>1
    <3>3. f[i + 1 + 1] = f[i + 1] \o ss[i + 1 + 1]
      BY <3>1 DEF Joining
    <3> QED BY <3>1, <3>2, <3>3
  <2>6. G = Nat
    <3> HIDE DEF G
    <3>1. G \in SUBSET Nat
      BY DEF G
    <3> QED BY <2>4, <2>5, <3>1, Induction
  <2>7. n - 1 \in Nat /\ (n - 1) + 1 = n /\ n \in 1 .. n
    <3> HIDE DEF n, G
    <3> QED BY <1>1, <1>3
  <2>8. n - 1 \in G
    <3> HIDE DEF n, G
    <3> QED BY <2>6, <2>7
  <2>9. h[(n - 1) + 1] = f[(n - 1) + 1]
    <3> HIDE DEF n
    <3> QED BY <2>7, <2>8
  <2> QED BY <1>1, <2>3, <2>7, <2>9
<1> QED BY <1>2, <1>3

LEMMA FlattenEmpty == FlattenSeq(<<>>) = <<>>
BY DEF FlattenSeq

LEMMA FlattenAppend ==
  ASSUME NEW A, NEW ss \in Seq(Seq(A)), NEW s \in Seq(A)
  PROVE  FlattenSeq(Append(ss, s)) = FlattenSeq(ss) \o s /\ FlattenSeq(ss) \in Seq(A)
<1>1. PICK f : Joining(f, A, Append(ss, s))
  <2>1. Append(ss, s) \in Seq(Seq(A))
    OBVIOUS
  <2> QED BY <2>1, JoinExists
<1> DEFINE n == Len(ss)
           g == [i \in 0 .. n |-> f[i]]
<1>2. /\ n \in Nat /\ Len(Append(ss, s)) = n + 1 /\ Append(ss, s)[n + 1] = s
      /\ \A i \in 1 .. n : Append(ss, s)[i] = ss[i]
      /\ Append(ss, s) \in Seq(Seq(A))
  OBVIOUS
<1>3. /\ f \in [0 .. n + 1 -> Seq(A)] /\ f[0] = <<>>
      /\ \A i \in 1 .. n + 1 : f[i] = f[i - 1] \o Append(ss, s)[i]
  BY <1>1, <1>2 DEF Joining
<1>4. g \in [0 .. n -> Seq(A)] /\ g[0] = <<>>
  BY <1>2, <1>3
<1>5. ASSUME NEW i \in 1 .. n PROVE g[i] = g[i - 1] \o ss[i]
  <2>1. i - 1 \in 0 .. n /\ i \in 0 .. n /\ i \in 1 .. n + 1
    BY <1>2
  <2> HIDE DEF n
  <2> QED BY <1>2, <1>3, <2>1
<1>6. Joining(g, A, ss)
  <2> HIDE DEF g
  <2> QED BY <1>4, <1>5 DEF Joining
<1>7. FlattenSeq(ss) = g[n] /\ g[n] \in Seq(A)
  <2> HIDE DEF g
  <2> QED BY <1>6, FlattenIs
<1>8. FlattenSeq(Append(ss, s)) = f[n + 1]
  BY <1>1, <1>2, FlattenIs
<1>9. f[n + 1] = f[n] \o s /\ g[n] = f[n]
  <2>1. n + 1 \in 1 .. n + 1 /\ (n + 1) - 1 = n /\ n \in 0 .. n
    BY <1>2
  <2> HIDE DEF n
  <2> QED BY <1>2, <1>3, <2>1
<1> QED BY <1>7, <1>8, <1>9

(* The greatest and the least of a set that is not empty.                  *)
LEMMA EndsExist ==
  ASSUME NEW S \in SUBSET Nat, IsFiniteSet(S), S # {}
  PROVE  /\ \E x \in S : \A y \in S : y <= x
         /\ \E x \in S : \A y \in S : x <= y
<1> DEFINE N == Cardinality(S)
           c == Ascending(S)
<1>1. /\ N \in Nat /\ c \in [1 .. N -> S] /\ \A x \in S : c[Below(S, x) + 1] = x
      /\ \A m, n \in 1 .. N : m < n => c[m] < c[n]
  BY AscendingIs
<1>2. \A x \in S : Below(S, x) \in 0 .. N - 1
  BY BelowBounds
<1>3. N # 0
  BY FS_EmptySet
<1> HIDE DEF N, c
<1>4. c[N] \in S /\ c[1] \in S
  BY <1>1, <1>3
<1>5. ASSUME NEW y \in S PROVE y <= c[N] /\ c[1] <= y
  <2>1. PICK n \in 1 .. N : c[n] = y
    <3>1. Below(S, y) + 1 \in 1 .. N
      BY <1>1, <1>2
    <3> QED BY <1>1, <3>1
  <2>2. c[1] \in Nat /\ c[N] \in Nat /\ y \in Nat
    BY <1>4
  <2>3. n < N => c[n] < c[N]
    BY <1>1, <1>3
  <2>4. 1 < n => c[1] < c[n]
    BY <1>1, <1>3
  <2> QED BY <1>1, <2>1, <2>2, <2>3, <2>4
<1> QED BY <1>4, <1>5

(* What lies above a set comes after it in the order.                      *)
LEMMA AscendingUpTo ==
  ASSUME NEW S \in SUBSET Nat, IsFiniteSet(S), NEW T \in SUBSET S,
         \A x \in T, y \in S \ T : x < y
  PROVE  /\ IsFiniteSet(T) /\ Cardinality(T) \in Nat /\ Cardinality(S) \in Nat
         /\ Cardinality(T) <= Cardinality(S)
         /\ \A n \in 1 .. Cardinality(T) : Ascending(T)[n] = Ascending(S)[n]
<1>1. /\ IsFiniteSet(T) /\ Cardinality(T) \in Nat /\ Cardinality(S) \in Nat
      /\ Cardinality(T) <= Cardinality(S)
  BY FS_Subset, FS_CardinalityType
<1>2. ASSUME NEW n \in 1 .. Cardinality(T) PROVE Ascending(T)[n] = Ascending(S)[n]
  <2> DEFINE x == Ascending(T)[n]
  <2>1. x \in T /\ Below(T, x) = n - 1
    <3>1. Ascending(T) \in [1 .. Cardinality(T) -> T]
          /\ \A m \in 1 .. Cardinality(T) : Below(T, Ascending(T)[m]) = m - 1
      BY <1>1, AscendingIs
    <3> QED BY <3>1
  <2> HIDE DEF x
  <2>2. {y \in T : y < x} = {y \in S : y < x}
    <3>1. ASSUME NEW y \in S, y < x PROVE y \in T
      <4>1. y \in Nat /\ x \in Nat
        BY <2>1
      <4>2. y \notin T => x < y
        BY <2>1
      <4> QED BY <3>1, <4>1, <4>2
    <3> QED BY <3>1
  <2>3. Below(S, x) = n - 1
    BY <2>1, <2>2 DEF Below
  <2>4. Ascending(S)[Below(S, x) + 1] = x
    BY <2>1, AscendingIs
  <2>5. (n - 1) + 1 = n
    BY <1>1
  <2> QED BY <2>3, <2>4, <2>5 DEF x
<1> QED BY <1>1, <1>2

LEMMA AscendingAppend ==
  ASSUME NEW S \in SUBSET Nat, IsFiniteSet(S), NEW m \in Nat, \A x \in S : x < m
  PROVE  /\ Ascending(S \cup {m}) = Append(Ascending(S), m)
         /\ IsFiniteSet(S \cup {m})
         /\ Cardinality(S \cup {m}) = Cardinality(S) + 1
<1> DEFINE T == S \cup {m}
           N == Cardinality(S)
<1>1. m \notin S /\ T \in SUBSET Nat
  <2>1. ~(m < m)
    OBVIOUS
  <2> QED BY <2>1
<1>2. IsFiniteSet(T) /\ Cardinality(T) = N + 1 /\ N \in Nat
  BY <1>1, FS_AddElement, FS_CardinalityType
<1>3. \A x \in S, y \in T \ S : x < y
  OBVIOUS
<1>4. S \in SUBSET T
  OBVIOUS
<1>5. \A n \in 1 .. N : Ascending(S)[n] = Ascending(T)[n]
  <2> HIDE DEF T
  <2> QED BY <1>1, <1>2, <1>3, <1>4, AscendingUpTo
<1>6. /\ Ascending(S) \in [1 .. N -> S] /\ Ascending(T) \in [1 .. N + 1 -> T]
      /\ \A x \in T : Ascending(T)[Below(T, x) + 1] = x
  <2> HIDE DEF T
  <2> QED BY <1>1, <1>2, AscendingIs
<1>7. Ascending(T)[N + 1] = m
  <2>1. {y \in T : y < m} = S
    <3>1. ~(m < m) /\ \A y \in T : y \in S \/ y = m
      OBVIOUS
    <3>2. S \subseteq T
      OBVIOUS
    <3> HIDE DEF T
    <3> QED BY <3>1, <3>2
  <2>2. Below(T, m) = N /\ m \in T
    BY <2>1 DEF Below
  <2> HIDE DEF T, N
  <2> QED BY <1>6, <2>2
<1> HIDE DEF T, N
<1>8. Ascending(S) \in Seq(Nat) /\ Len(Ascending(S)) = N /\ Ascending(T) \in Seq(Nat)
      /\ Len(Ascending(T)) = N + 1
  <2>1. Ascending(S) \in [1 .. N -> Nat] /\ Ascending(T) \in [1 .. N + 1 -> Nat]
    BY <1>1, <1>6
  <2>2. N + 1 \in Nat
    BY <1>2
  <2> QED BY <1>2, <2>1, <2>2, IsList
<1>9. /\ Append(Ascending(S), m) \in Seq(Nat) /\ Len(Append(Ascending(S), m)) = N + 1
      /\ \A n \in 1 .. N : Append(Ascending(S), m)[n] = Ascending(S)[n]
      /\ Append(Ascending(S), m)[N + 1] = m
  BY <1>8
<1>10. \A n \in 1 .. Len(Ascending(T)) : Ascending(T)[n] = Append(Ascending(S), m)[n]
  BY <1>2, <1>5, <1>7, <1>8, <1>9
<1>11. Ascending(T) = Append(Ascending(S), m)
  BY <1>8, <1>9, <1>10, SameList
<1> QED BY <1>2, <1>11 DEF T, N

-----------------------------------------------------------------------------
(* What the code makes of a line stays a text of the same symbols.         *)
LEMMA TrimmedIs ==
  ASSUME NEW A, NEW l \in Seq(A)
  PROVE  Trimmed(l) \in Seq(A)
<1> DEFINE S == {i \in 1 .. Len(l) : l[i] \notin Space}
           n == IF S = {} THEN 0 ELSE CHOOSE i \in S : \A j \in S : j <= i
<1>1. n \in 0 .. Len(l)
  <2>1. CASE S = {}
    BY <2>1
  <2>2. CASE S # {}
    <3>1. S \in SUBSET Nat /\ IsFiniteSet(S) /\ S \subseteq 1 .. Len(l)
      <4>1. Len(l) \in Nat /\ 1 \in Int
        OBVIOUS
      <4>2. IsFiniteSet(1 .. Len(l))
        BY <4>1, FS_Interval
      <4>3. S \subseteq 1 .. Len(l)
        OBVIOUS
      <4> QED BY <4>2, <4>3, FS_Subset
    <3> HIDE DEF S
    <3>2. n \in S
      BY <2>2, <3>1, EndsExist
    <3> HIDE DEF n
    <3>3. n \in 1 .. Len(l)
      BY <3>1, <3>2
    <3> QED BY <3>3
  <2> QED BY <2>1, <2>2
<1>2. Trimmed(l) = SubSeq(l, 1, n)
  BY DEF Trimmed
<1> HIDE DEF n, S
<1>3. SubSeq(l, 1, n) \in Seq(A)
  BY <1>1
<1> QED BY <1>2, <1>3

LEMMA PayloadIs ==
  ASSUME NEW A, NEW l \in Seq(A)
  PROVE  Payload(l) \in Seq(A)
<1> DEFINE m == IF Len(l) >= 3 /\ l[3] = "sp" THEN 4 ELSE 3
<1>1. m \in 1 .. Len(l) + 4
  OBVIOUS
<1>2. SubSeq(l, m, Len(l)) \in Seq(A)
  <2> HIDE DEF m
  <2> QED BY <1>1
<1> QED BY <1>2 DEF Payload

LEMMA LinesAre ==
  ASSUME NEW A, NEW t \in Seq(A)
  PROVE  /\ LinesOf(t) \in Seq(Seq(A))
         /\ Len(LinesOf(t)) = Len(Pieces(t, "n")) - 1 /\ Len(LinesOf(t)) \in Nat
         /\ \A j \in 1 .. Len(LinesOf(t)) : LinesOf(t)[j] = Trimmed(Pieces(t, "n")[j])
<1> DEFINE p == Pieces(t, "n")
           n == Len(p) - 1
<1>1. p \in Seq(Seq(A)) /\ Len(p) \in Nat \ {0}
  BY StringIsCut DEF Cutting
<1> HIDE DEF p
<1>2. n \in Nat
  BY <1>1
<1>3. [j \in 1 .. n |-> Trimmed(p[j])] \in [1 .. n -> Seq(A)]
  <2>1. ASSUME NEW j \in 1 .. n PROVE Trimmed(p[j]) \in Seq(A)
    <3>1. p[j] \in Seq(A)
      BY <1>1
    <3> QED BY <3>1, TrimmedIs
  <2> QED BY <2>1
<1>4. LinesOf(t) = [j \in 1 .. n |-> Trimmed(p[j])]
  BY DEF LinesOf, p
<1>5. LinesOf(t) \in Seq(Seq(A)) /\ Len(LinesOf(t)) = n
  <2>1. LinesOf(t) \in [1 .. n -> Seq(A)]
    BY <1>3, <1>4
  <2> HIDE DEF n
  <2> QED BY <1>2, <2>1, IsList
<1> QED BY <1>2, <1>4, <1>5 DEF p

(* The data lines an event is made of, from one line to the next.          *)
LEMMA DataBeforeIs ==
  ASSUME NEW A, NEW lines \in Seq(Seq(A)), NEW k \in Nat
  PROVE  /\ DataBefore(lines, 1) = {}
         /\ DataBefore(lines, k) \in SUBSET Nat /\ IsFiniteSet(DataBefore(lines, k))
         /\ \A j \in DataBefore(lines, k) : j < k /\ j >= 1
<1>1. DataBefore(lines, 1) = {}
  BY DEF DataBefore
<1>2. \A j \in DataBefore(lines, k) : j \in Nat /\ j < k /\ j >= 1 /\ j \in 1 .. k - 1
  BY DEF DataBefore
<1>3. IsFiniteSet(1 .. k - 1)
  BY FS_Interval
<1>4. IsFiniteSet(DataBefore(lines, k))
  BY <1>2, <1>3, FS_Subset
<1> QED BY <1>1, <1>2, <1>4

LEMMA DataBeforeNext ==
  ASSUME NEW A, NEW lines \in Seq(Seq(A)), NEW k \in 1 .. Len(lines)
  PROVE  /\ Blank(lines, k) => DataBefore(lines, k + 1) = {}
         /\ ~Blank(lines, k) /\ IsData(lines[k])
              => DataBefore(lines, k + 1) = DataBefore(lines, k) \cup {k}
         /\ ~Blank(lines, k) /\ ~IsData(lines[k])
              => DataBefore(lines, k + 1) = DataBefore(lines, k)
<1>1. k \in Nat /\ k >= 1 /\ (k + 1) - 1 = k
  OBVIOUS
<1>2. ASSUME NEW j \in 1 .. k, NEW b \in j .. k
      PROVE  b = k \/ b \in j .. k - 1
  BY <1>1, <1>2
<1>3. CASE Blank(lines, k)
  <2>1. \A j \in 1 .. k : k \in j .. k
    BY <1>1
  <2>2. \A j : j \notin DataBefore(lines, k + 1)
    BY <1>1, <1>3, <2>1 DEF DataBefore
  <2> QED BY <1>3, <2>2
<1>4. CASE ~Blank(lines, k)
  <2>1. ASSUME NEW j
        PROVE  j \in DataBefore(lines, k + 1) <=>
                 j \in DataBefore(lines, k) \/ (j = k /\ IsData(lines[k]))
    <3>1. j \in DataBefore(lines, k + 1) <=>
            j \in 1 .. k /\ IsData(lines[j]) /\ \A b \in j .. k : ~Blank(lines, b)
      BY <1>1 DEF DataBefore
    <3>2. j \in DataBefore(lines, k) <=>
            j \in 1 .. k - 1 /\ IsData(lines[j]) /\ \A b \in j .. k - 1 : ~Blank(lines, b)
      BY DEF DataBefore
    <3>3. CASE j \in 1 .. k - 1
      <4>1. j \in 1 .. k /\ j # k /\ j .. k = (j .. k - 1) \cup {k}
        BY <1>1, <3>3
      <4> QED BY <1>4, <3>1, <3>2, <3>3, <4>1
    <3>4. CASE j = k
      <4>1. j \notin 1 .. k - 1 /\ j \in 1 .. k /\ j .. k = {k}
        BY <1>1, <3>4
      <4> QED BY <1>4, <3>1, <3>2, <3>4, <4>1
    <3>5. CASE j \notin 1 .. k
      <4>1. j \notin 1 .. k - 1 /\ j # k
        BY <1>1, <3>5
      <4> QED BY <3>1, <3>2, <3>5, <4>1
    <3>6. j \in 1 .. k => j \in 1 .. k - 1 \/ j = k
      BY <1>1
    <3> QED BY <3>3, <3>4, <3>5, <3>6
  <2> QED BY <1>4, <2>1
<1> QED BY <1>3, <1>4

(* The data of an event, and the events, with one line more.               *)
LEMMA JoinedNone == ASSUME NEW lines PROVE Joined(lines, {}) = <<>>
<1>1. {} \in SUBSET Nat /\ IsFiniteSet({}) /\ Cardinality({}) = 0
  BY FS_EmptySet
<1>2. Len(Ascending({})) = 0
  BY <1>1, AscendingIs
<1> DEFINE f == [n \in 1 .. Len(Ascending({})) |-> Payload(lines[Ascending({})[n]]) \o <<"n">>]
<1>3. f = <<>>
  <2>1. 1 .. Len(Ascending({})) = {}
    BY <1>2
  <2> QED BY <2>1
<1> QED BY <1>3, FlattenEmpty DEF Joined

LEMMA JoinedAdd ==
  ASSUME NEW A, "n" \in A, NEW lines \in Seq(Seq(A)), NEW k \in 1 .. Len(lines),
         NEW S \in SUBSET Nat, IsFiniteSet(S), \A j \in S : j < k /\ j >= 1
  PROVE  /\ Joined(lines, S) \in Seq(A)
         /\ Joined(lines, S \cup {k}) = Joined(lines, S) \o (Payload(lines[k]) \o <<"n">>)
<1> DEFINE N == Cardinality(S)
           js == Ascending(S)
           is == Ascending(S \cup {k})
           line(j) == Payload(lines[j]) \o <<"n">>
           f == [n \in 1 .. N |-> line(js[n])]
           g == [n \in 1 .. N + 1 |-> line(is[n])]
<1>1. k \in Nat /\ N \in Nat /\ js \in [1 .. N -> S] /\ Len(js) = N
  BY AscendingIs
<1>2. is = Append(js, k) /\ Cardinality(S \cup {k}) = N + 1 /\ IsFiniteSet(S \cup {k})
  BY <1>1, AscendingAppend
<1>3. ASSUME NEW j \in 1 .. Len(lines) PROVE line(j) \in Seq(A)
  <2>1. Payload(lines[j]) \in Seq(A)
    BY PayloadIs
  <2>2. <<"n">> \in Seq(A)
    OBVIOUS
  <2> HIDE DEF line
  <2> QED BY <2>1, <2>2 DEF line
<1> HIDE DEF line
<1>4. S \subseteq 1 .. Len(lines)
  BY <1>1
<1>5. js \in Seq(Nat)
  <2>1. js \in [1 .. N -> Nat]
    BY <1>1
  <2> HIDE DEF js, N
  <2> QED BY <1>1, <2>1, IsList
<1>6. Len(is) = N + 1 /\ is[N + 1] = k /\ \A n \in 1 .. N : is[n] = js[n]
  <2> HIDE DEF js, is, N
  <2> QED BY <1>1, <1>2, <1>5
<1> HIDE DEF js, is, N
<1>7. f \in Seq(Seq(A)) /\ Len(f) = N
  <2>1. f \in [1 .. N -> Seq(A)]
    BY <1>1, <1>3, <1>4
  <2> HIDE DEF f
  <2> QED BY <1>1, <2>1, IsList
<1>8. line(k) \in Seq(A)
  BY <1>3
<1>9. g \in Seq(Seq(A)) /\ Len(g) = N + 1
  <2>1. ASSUME NEW n \in 1 .. N + 1 PROVE line(is[n]) \in Seq(A)
    <3>1. n \in 1 .. N \/ n = N + 1
      BY <1>1
    <3> QED BY <1>1, <1>3, <1>4, <1>6, <1>8, <3>1
  <2>2. g \in [1 .. N + 1 -> Seq(A)] /\ N + 1 \in Nat
    BY <1>1, <2>1
  <2> HIDE DEF g
  <2> QED BY <2>2, IsList
<1>10. g = Append(f, line(k))
  <2>1. Append(f, line(k)) \in Seq(Seq(A)) /\ Len(Append(f, line(k))) = N + 1
        /\ Append(f, line(k))[N + 1] = line(k)
        /\ \A n \in 1 .. N : Append(f, line(k))[n] = f[n]
    <3> HIDE DEF f
    <3> QED BY <1>1, <1>7, <1>8
  <2>2. ASSUME NEW n \in 1 .. N + 1 PROVE g[n] = Append(f, line(k))[n]
    <3>1. CASE n = N + 1
      BY <1>6, <2>1, <3>1
    <3>2. CASE n # N + 1
      <4>1. n \in 1 .. N
        BY <1>1, <3>2
      <4>2. g[n] = line(is[n]) /\ f[n] = line(js[n]) /\ is[n] = js[n]
        BY <1>6, <4>1
      <4> QED BY <2>1, <4>1, <4>2
    <3> QED BY <3>1, <3>2
  <2> HIDE DEF g, f
  <2> QED BY <1>9, <2>1, <2>2, SameList
<1>11. FlattenSeq(Append(f, line(k))) = FlattenSeq(f) \o line(k) /\ FlattenSeq(f) \in Seq(A)
  <2> HIDE DEF f
  <2> QED BY <1>7, <1>8, FlattenAppend
<1>12. Joined(lines, S) = FlattenSeq(f)
  BY <1>1 DEF Joined, line, js
<1>13. Joined(lines, S \cup {k}) = FlattenSeq(g)
  BY <1>6 DEF Joined, line, is
<1> HIDE DEF f, g
<1> QED BY <1>10, <1>11, <1>12, <1>13 DEF line

LEMMA EventsAtIs ==
  ASSUME NEW lines, NEW S \in SUBSET Nat, IsFiniteSet(S), NEW B,
         \A k \in S : Joined(lines, DataBefore(lines, k)) \in B
  PROVE  /\ EventsAt(lines, S) \in Seq(B) /\ Len(EventsAt(lines, S)) = Cardinality(S)
         /\ Cardinality(S) \in Nat
         /\ \A n \in 1 .. Cardinality(S) :
              EventsAt(lines, S)[n] = Joined(lines, DataBefore(lines, Ascending(S)[n]))
<1> DEFINE N == Cardinality(S)
           es == Ascending(S)
           f == [n \in 1 .. N |-> Joined(lines, DataBefore(lines, es[n]))]
<1>1. N \in Nat /\ es \in [1 .. N -> S] /\ Len(es) = N
  BY AscendingIs
<1>2. f \in [1 .. N -> B]
  BY <1>1
<1>3. f \in Seq(B) /\ Len(f) = N
  <2> HIDE DEF f, N
  <2> QED BY <1>1, <1>2, IsList
<1>4. EventsAt(lines, S) = f
  BY <1>1 DEF EventsAt
<1> QED BY <1>1, <1>3, <1>4

LEMMA EventsAtAdd ==
  ASSUME NEW lines, NEW S \in SUBSET Nat, IsFiniteSet(S), NEW k \in Nat, \A j \in S : j < k,
         NEW B, \A j \in S \cup {k} : Joined(lines, DataBefore(lines, j)) \in B
  PROVE  EventsAt(lines, S \cup {k}) =
           Append(EventsAt(lines, S), Joined(lines, DataBefore(lines, k)))
<1> DEFINE N == Cardinality(S)
           T == S \cup {k}
           e == Joined(lines, DataBefore(lines, k))
<1>1. /\ Ascending(T) = Append(Ascending(S), k) /\ IsFiniteSet(T) /\ Cardinality(T) = N + 1
      /\ T \in SUBSET Nat
  BY AscendingAppend
<1>2. /\ EventsAt(lines, S) \in Seq(B) /\ Len(EventsAt(lines, S)) = N /\ N \in Nat
      /\ \A n \in 1 .. N :
           EventsAt(lines, S)[n] = Joined(lines, DataBefore(lines, Ascending(S)[n]))
  BY EventsAtIs
<1>3. \A j \in T : Joined(lines, DataBefore(lines, j)) \in B
  OBVIOUS
<1>4. /\ EventsAt(lines, T) \in Seq(B) /\ Len(EventsAt(lines, T)) = N + 1
      /\ \A n \in 1 .. N + 1 :
           EventsAt(lines, T)[n] = Joined(lines, DataBefore(lines, Ascending(T)[n]))
  <2> HIDE DEF T
  <2> QED BY <1>1, <1>3, EventsAtIs
<1>5. Ascending(S) \in Seq(Nat) /\ Len(Ascending(S)) = N
  <2>1. Ascending(S) \in [1 .. N -> Nat]
    BY AscendingIs
  <2> HIDE DEF N
  <2> QED BY <1>2, <2>1, IsList
<1>6. e \in B
  BY <1>3
<1> HIDE DEF N, T, e
<1>7. Ascending(T)[N + 1] = k /\ \A n \in 1 .. N : Ascending(T)[n] = Ascending(S)[n]
  BY <1>1, <1>2, <1>5
<1>8. /\ Append(EventsAt(lines, S), e) \in Seq(B)
      /\ Len(Append(EventsAt(lines, S), e)) = N + 1
      /\ Append(EventsAt(lines, S), e)[N + 1] = e
      /\ \A n \in 1 .. N : Append(EventsAt(lines, S), e)[n] = EventsAt(lines, S)[n]
  BY <1>2, <1>6
<1>9. ASSUME NEW n \in 1 .. N + 1 PROVE EventsAt(lines, T)[n] = Append(EventsAt(lines, S), e)[n]
  <2>1. CASE n = N + 1
    BY <1>4, <1>7, <1>8, <2>1 DEF e
  <2>2. CASE n # N + 1
    <3>1. n \in 1 .. N
      BY <1>2, <2>2
    <3> QED BY <1>2, <1>4, <1>7, <1>8, <3>1
  <2> QED BY <2>1, <2>2
<1>10. EventsAt(lines, T) = Append(EventsAt(lines, S), e)
  BY <1>4, <1>8, <1>9, SameList
<1> QED BY <1>10 DEF T, e

LEMMA EventsAtPrefix ==
  ASSUME NEW lines, NEW S \in SUBSET Nat, IsFiniteSet(S), NEW T \in SUBSET S,
         \A x \in T, y \in S \ T : x < y,
         NEW B, \A j \in S : Joined(lines, DataBefore(lines, j)) \in B
  PROVE  IsPrefix(EventsAt(lines, T), EventsAt(lines, S))
<1>1. /\ IsFiniteSet(T) /\ Cardinality(T) \in Nat /\ Cardinality(S) \in Nat
      /\ Cardinality(T) <= Cardinality(S)
      /\ \A n \in 1 .. Cardinality(T) : Ascending(T)[n] = Ascending(S)[n]
  BY AscendingUpTo
<1>2. /\ EventsAt(lines, S) \in Seq(B) /\ Len(EventsAt(lines, S)) = Cardinality(S)
      /\ \A n \in 1 .. Cardinality(S) :
           EventsAt(lines, S)[n] = Joined(lines, DataBefore(lines, Ascending(S)[n]))
  BY EventsAtIs
<1>3. T \in SUBSET Nat /\ \A j \in T : Joined(lines, DataBefore(lines, j)) \in B
  OBVIOUS
<1>4. /\ EventsAt(lines, T) \in Seq(B) /\ Len(EventsAt(lines, T)) = Cardinality(T)
      /\ \A n \in 1 .. Cardinality(T) :
           EventsAt(lines, T)[n] = Joined(lines, DataBefore(lines, Ascending(T)[n]))
  BY <1>1, <1>3, EventsAtIs
<1>5. \A n \in 1 .. Len(EventsAt(lines, T)) : EventsAt(lines, T)[n] = EventsAt(lines, S)[n]
  BY <1>1, <1>2, <1>4
<1> QED BY <1>1, <1>2, <1>4, <1>5, PrefixIs

(* After the first K lines of w come b and t; and b first ends a line at i. *)
Ahead(w, b, t, K) == b \o t = SubSeq(w, Marks(w, "n")[K + 1] + 1, Len(w))
FirstEnd(b, i) == i \in 1 .. Len(b) /\ b[i] = "n" /\ \A j \in 1 .. i - 1 : b[j] # "n"

(* The reader has read the first K lines of its text, and holds the data   *)
(* since the last blank line of them.                                      *)
ReadTo(K) ==
  LET lines == LinesOf(whole)
  IN  /\ K \in 0 .. Len(lines)
      /\ Ahead(whole, buffer, text, K)
      /\ data = Joined(lines, DataBefore(lines, K + 1))
      /\ (data = <<>>) <=> (DataBefore(lines, K + 1) = {})
      /\ events = EventsAt(lines, EventEnds(lines) \cap 1 .. K)

SseInv(A) ==
  /\ whole \in Seq(A) /\ text \in Seq(A) /\ buffer \in Seq(A)
  /\ \E K \in 0 .. Len(LinesOf(whole)) : ReadTo(K)

(* A text of characters of one byte is decoded to itself.                  *)
LEMMA DecodedIs ==
  ASSUME NEW A, "c1" \notin A, "c2" \notin A, NEW f \in Seq(A)
  PROVE  Decoded(f) = f
<1>1. \A i \in 1 .. Len(f) : f[i] # "c1" /\ f[i] # "c2"
  OBVIOUS
<1>2. \A i \in 1 .. Len(f) : ~Torn(f, i)
  BY <1>1 DEF Torn
<1>3. Decoded(f) = [i \in 1 .. Len(f) |-> f[i]]
  BY <1>2 DEF Decoded
<1> QED BY <1>3

LEMMA ConcatIs ==
  ASSUME NEW A, NEW s \in Seq(A), NEW t \in Seq(A)
  PROVE  /\ s \o t \in Seq(A) /\ Len(s) \in Nat /\ Len(t) \in Nat
         /\ Len(s \o t) = Len(s) + Len(t)
         /\ \A i \in 1 .. Len(s) : (s \o t)[i] = s[i]
         /\ \A i \in 1 .. Len(t) : (s \o t)[Len(s) + i] = t[i]
OBVIOUS

LEMMA TailIs ==
  ASSUME NEW A, NEW s \in Seq(A), NEW o \in Nat, o <= Len(s)
  PROVE  /\ SubSeq(s, o + 1, Len(s)) \in Seq(A)
         /\ Len(SubSeq(s, o + 1, Len(s))) = Len(s) - o
         /\ \A i \in 1 .. Len(s) - o : SubSeq(s, o + 1, Len(s))[i] = s[o + i]
<1> DEFINE v == Len(s) + 1
<1>1. v \in Nat /\ o < v /\ v <= Len(s) + 1 /\ v - 1 = Len(s) /\ v - o - 1 = Len(s) - o
  OBVIOUS
<1> HIDE DEF v
<1>2. /\ SubSeq(s, o + 1, v - 1) \in Seq(A) /\ Len(SubSeq(s, o + 1, v - 1)) = v - o - 1
      /\ \A i \in 1 .. v - o - 1 : SubSeq(s, o + 1, v - 1)[i] = s[o + i]
  BY <1>1, SliceIs
<1> QED BY <1>1, <1>2

LEMMA HeadIs ==
  ASSUME NEW A, NEW s \in Seq(A), NEW n \in Nat, n <= Len(s)
  PROVE  /\ SubSeq(s, 1, n) \in Seq(A) /\ Len(SubSeq(s, 1, n)) = n
         /\ \A i \in 1 .. n : SubSeq(s, 1, n)[i] = s[i]
<1> DEFINE v == n + 1
           z == 0
<1>1. v \in Nat /\ z \in Nat /\ z < v /\ v <= Len(s) + 1 /\ v - 1 = n /\ v - z - 1 = n
      /\ z + 1 = 1 /\ \A i \in 1 .. n : z + i = i
  OBVIOUS
<1> HIDE DEF v, z
<1>2. /\ SubSeq(s, z + 1, v - 1) \in Seq(A) /\ Len(SubSeq(s, z + 1, v - 1)) = v - z - 1
      /\ \A i \in 1 .. v - z - 1 : SubSeq(s, z + 1, v - 1)[i] = s[z + i]
  BY <1>1, SliceIs
<1> QED BY <1>1, <1>2

LEMMA SplitIs ==
  ASSUME NEW A, NEW s \in Seq(A), NEW n \in 1 .. Len(s)
  PROVE  SubSeq(s, 1, n) \o SubSeq(s, n + 1, Len(s)) = s
<1> DEFINE f == SubSeq(s, 1, n)
           r == SubSeq(s, n + 1, Len(s))
<1>1. n \in Nat /\ n <= Len(s) /\ Len(s) \in Nat
  OBVIOUS
<1>2. /\ f \in Seq(A) /\ Len(f) = n /\ \A i \in 1 .. n : f[i] = s[i]
      /\ r \in Seq(A) /\ Len(r) = Len(s) - n
      /\ \A i \in 1 .. Len(s) - n : r[i] = s[n + i]
  BY <1>1, HeadIs, TailIs
<1> HIDE DEF f, r
<1>3. /\ f \o r \in Seq(A) /\ Len(f \o r) = Len(f) + Len(r)
      /\ \A i \in 1 .. Len(f) : (f \o r)[i] = f[i]
      /\ \A i \in 1 .. Len(r) : (f \o r)[Len(f) + i] = r[i]
  <2>1. f \in Seq(A) /\ r \in Seq(A)
    BY <1>2
  <2> QED BY <2>1, ConcatIs
<1>4. Len(f \o r) = Len(s)
  BY <1>1, <1>2, <1>3
<1>5. ASSUME NEW i \in 1 .. Len(f \o r) PROVE (f \o r)[i] = s[i]
  <2>1. CASE i <= n
    <3>1. i \in 1 .. n
      BY <2>1
    <3> QED BY <1>2, <1>3, <3>1
  <2>2. CASE i > n
    <3> DEFINE l == i - n
    <3>1. l \in 1 .. Len(s) - n /\ n + l = i
      BY <1>1, <1>4, <2>2
    <3> HIDE DEF l
    <3> QED BY <1>2, <1>3, <3>1
  <2> QED BY <1>1, <2>1, <2>2
<1>6. f \o r = s
  BY <1>3, <1>4, <1>5, SameList
<1> QED BY <1>6 DEF f, r

(* Two texts together are the rest of a third one, from o on.              *)
Rest(w, o, b, t) ==
  /\ Len(b) + Len(t) = Len(w) - o
  /\ \A i \in 1 .. Len(b) : b[i] = w[o + i]
  /\ \A i \in 1 .. Len(t) : t[i] = w[o + Len(b) + i]

LEMMA RestIs ==
  ASSUME NEW A, NEW w \in Seq(A), NEW b \in Seq(A), NEW t \in Seq(A),
         NEW o \in Nat, o <= Len(w)
  PROVE  b \o t = SubSeq(w, o + 1, Len(w)) <=> Rest(w, o, b, t)
<1> DEFINE u == b \o t
           v == SubSeq(w, o + 1, Len(w))
<1>1. /\ u \in Seq(A) /\ Len(b) \in Nat /\ Len(t) \in Nat /\ Len(u) = Len(b) + Len(t)
      /\ \A i \in 1 .. Len(b) : u[i] = b[i]
      /\ \A i \in 1 .. Len(t) : u[Len(b) + i] = t[i]
  BY ConcatIs
<1>2. /\ v \in Seq(A) /\ Len(v) = Len(w) - o /\ Len(w) \in Nat
      /\ \A i \in 1 .. Len(w) - o : v[i] = w[o + i]
  BY TailIs
<1> HIDE DEF u, v
<1>3. ASSUME u = v PROVE Rest(w, o, b, t)
  <2>1. ASSUME NEW i \in 1 .. Len(b) PROVE b[i] = w[o + i]
    <3>1. i \in 1 .. Len(w) - o
      BY <1>1, <1>2, <1>3
    <3> QED BY <1>1, <1>2, <1>3, <3>1
  <2>2. ASSUME NEW i \in 1 .. Len(t) PROVE t[i] = w[o + Len(b) + i]
    <3>1. Len(b) + i \in 1 .. Len(w) - o /\ o + (Len(b) + i) = o + Len(b) + i
      BY <1>1, <1>2, <1>3
    <3>2. v[Len(b) + i] = w[o + (Len(b) + i)]
      BY <1>2, <3>1
    <3> QED BY <1>1, <1>3, <3>1, <3>2
  <2> QED BY <1>1, <1>2, <1>3, <2>1, <2>2 DEF Rest
<1>4. ASSUME Rest(w, o, b, t) PROVE u = v
  <2>1. Len(u) = Len(v) /\ Len(u) = Len(w) - o
    BY <1>1, <1>2, <1>4 DEF Rest
  <2>2. ASSUME NEW i \in 1 .. Len(u) PROVE u[i] = v[i]
    <3>1. v[i] = w[o + i] /\ i \in Nat
      BY <1>2, <2>1
    <3>2. CASE i <= Len(b)
      <4>1. i \in 1 .. Len(b)
        BY <1>1, <3>2
      <4> QED BY <1>1, <1>4, <3>1, <4>1 DEF Rest
    <3>3. CASE i > Len(b)
      <4> DEFINE l == i - Len(b)
      <4>1. l \in 1 .. Len(t) /\ Len(b) + l = i /\ o + Len(b) + l = o + i
        BY <1>1, <3>3
      <4> HIDE DEF l
      <4>2. u[Len(b) + l] = t[l] /\ t[l] = w[o + Len(b) + l]
        BY <1>1, <1>4, <4>1 DEF Rest
      <4> QED BY <3>1, <4>1, <4>2
    <3> QED BY <1>1, <3>1, <3>2, <3>3
  <2> QED BY <1>1, <1>2, <2>1, <2>2, SameList
<1> QED BY <1>3, <1>4 DEF u, v

(* Where the line that the buffer holds first ends in the text.            *)
LEMMA NextCut ==
  ASSUME NEW A, NEW w \in Seq(A), NEW c, c = Marks(w, "n"), NEW p, p = Pieces(w, "n"),
         NEW k \in 1 .. Len(p), NEW x \in 1 .. Len(w), c[k] < x, w[x] = "n",
         \A y \in c[k] + 1 .. x - 1 : w[y] # "n"
  PROVE  k + 1 \in 1 .. Len(p) /\ c[k + 1] = x
<1> DEFINE C == Cuts(w, "n")
<1>1. Cutting(w, "n", c, p) /\ Indexed(C, c) /\ Cardinality(C) = Len(p) + 1
  BY StringIsCut
<1>2. x \in C
  BY DEF Cuts
<1> HIDE DEF C
<1>3. /\ Len(w) \in Nat /\ Len(p) \in Nat \ {0} /\ c[Len(p) + 1] = Len(w) + 1
      /\ \A j \in 1 .. Len(p) + 1 : c[j] \in Nat /\ c[j] <= Len(w) + 1
      /\ \A j \in 2 .. Len(p) : w[c[j]] = "n"
      /\ \A m, n \in 1 .. Len(p) + 1 : m < n => c[m] < c[n]
  BY <1>1 DEF Cutting
<1>4. PICK m \in 1 .. Len(p) + 1 : c[m] = x
  <2>1. Below(C, x) \in 0 .. Cardinality(C) - 1 /\ c[Below(C, x) + 1] = x
    BY <1>1, <1>2 DEF Indexed
  <2>2. Below(C, x) + 1 \in 1 .. Len(p) + 1
    BY <1>1, <1>3, <2>1
  <2> QED BY <2>1, <2>2
<1>5. k \in 1 .. Len(p) + 1 /\ k + 1 \in 1 .. Len(p) + 1 /\ k < k + 1
  BY <1>3
<1>6. m # Len(p) + 1
  BY <1>3, <1>4
<1>7. ~(m <= k)
  <2>1. m < k => c[m] < c[k]
    BY <1>3, <1>4, <1>5
  <2>2. c[m] \in Nat /\ c[k] \in Nat
    BY <1>3, <1>4, <1>5
  <2> QED BY <1>3, <1>4, <2>1, <2>2
<1>8. ~(k + 1 < m)
  <2>1. SUFFICES ASSUME k + 1 < m PROVE FALSE
    OBVIOUS
  <2>2. k + 1 \in 2 .. Len(p)
    BY <1>3, <1>4, <2>1
  <2>3. c[k] < c[k + 1] /\ c[k + 1] < x /\ w[c[k + 1]] = "n"
        /\ c[k] \in Nat /\ c[k + 1] \in Nat
    BY <1>3, <1>4, <1>5, <2>1, <2>2
  <2>4. c[k + 1] \in c[k] + 1 .. x - 1
    BY <2>3
  <2> QED BY <2>3, <2>4
<1> QED BY <1>3, <1>4, <1>6, <1>7, <1>8

(* The line that the buffer holds first is the next of the text.           *)
LEMMA NextLineIs ==
  ASSUME NEW A, NEW w \in Seq(A), NEW b \in Seq(A), NEW t \in Seq(A),
         NEW K \in 0 .. Len(LinesOf(w)), Ahead(w, b, t, K), NEW i, FirstEnd(b, i)
  PROVE  /\ K + 1 \in 1 .. Len(LinesOf(w))
         /\ LinesOf(w)[K + 1] = Trimmed(SubSeq(b, 1, i - 1))
         /\ SubSeq(b, i + 1, Len(b)) \in Seq(A)
         /\ Ahead(w, SubSeq(b, i + 1, Len(b)), t, K + 1)
<1> DEFINE c == Marks(w, "n")
           p == Pieces(w, "n")
           o == c[K + 1]
           x == o + i
<1>1. Cutting(w, "n", c, p) /\ p \in Seq(Seq(A))
  BY StringIsCut
<1>2. /\ Len(LinesOf(w)) = Len(p) - 1
      /\ \A j \in 1 .. Len(LinesOf(w)) : LinesOf(w)[j] = Trimmed(p[j])
  BY LinesAre
<1>3. p = Pieces(w, "n") /\ c = Marks(w, "n")
  OBVIOUS
<1>0. /\ i \in 1 .. Len(b) /\ b[i] = "n" /\ \A j \in 1 .. i - 1 : b[j] # "n"
      /\ b \o t = SubSeq(w, c[K + 1] + 1, Len(w))
  BY DEF FirstEnd, Ahead
<1> HIDE DEF p, c
<1>4. /\ Len(w) \in Nat /\ Len(p) \in Nat \ {0} /\ c[Len(p) + 1] = Len(w) + 1
      /\ \A k \in 1 .. Len(p) + 1 : c[k] \in Nat
      /\ \A m, n \in 1 .. Len(p) + 1 : m < n => c[m] < c[n]
      /\ \A k \in 1 .. Len(p) :
           /\ Len(p[k]) = c[k + 1] - c[k] - 1
           /\ \A j \in 1 .. c[k + 1] - c[k] - 1 : p[k][j] = w[c[k] + j]
  BY <1>1 DEF Cutting
<1>5. /\ K \in Nat /\ K + 1 \in 1 .. Len(p) /\ K + 1 \in 1 .. Len(p) + 1
      /\ K + 1 < Len(p) + 1 /\ Len(p) + 1 \in 1 .. Len(p) + 1 /\ (K + 1) + 1 = K + 2
  BY <1>2, <1>4
<1>6. o \in Nat /\ o <= Len(w)
  <2>1. o \in Nat /\ o < Len(w) + 1
    BY <1>4, <1>5
  <2> HIDE DEF o
  <2> QED BY <1>4, <2>1
<1>7. Rest(w, o, b, t)
  <2>1. b \o t = SubSeq(w, o + 1, Len(w))
    BY <1>0
  <2> HIDE DEF o
  <2> QED BY <1>6, <2>1, RestIs
<1>8. Len(b) \in Nat /\ Len(t) \in Nat /\ i \in Nat /\ 1 <= i /\ i <= Len(b)
  BY <1>0
<1>9. c[K + 1] = o
  OBVIOUS
<1> HIDE DEF o
<1>10. x \in 1 .. Len(w) /\ o < x /\ x \in Nat /\ x <= Len(w)
  <2>1. Len(b) + Len(t) = Len(w) - o
    BY <1>7 DEF Rest
  <2> QED BY <1>4, <1>6, <1>8, <2>1
<1>11. w[x] = "n"
  BY <1>0, <1>7 DEF Rest
<1>12. ASSUME NEW y \in o + 1 .. x - 1 PROVE w[y] # "n"
  <2> DEFINE j == y - o
  <2>1. j \in 1 .. i - 1 /\ j \in 1 .. Len(b) /\ o + j = y
    BY <1>6, <1>8
  <2> HIDE DEF j
  <2>2. b[j] = w[o + j] /\ b[j] # "n"
    BY <1>0, <1>7, <2>1 DEF Rest
  <2> QED BY <2>1, <2>2
<1>13. (K + 1) + 1 \in 1 .. Len(p) /\ c[(K + 1) + 1] = x
  <2>1. c[K + 1] < x /\ \A y \in c[K + 1] + 1 .. x - 1 : w[y] # "n"
    BY <1>9, <1>10, <1>12
  <2> HIDE DEF x
  <2> QED BY <1>3, <1>5, <1>10, <1>11, <2>1, NextCut
<1>14. K + 1 \in 1 .. Len(LinesOf(w))
  BY <1>2, <1>4, <1>5, <1>13
<1>15. p[K + 1] = SubSeq(b, 1, i - 1)
  <2>1. p[K + 1] \in Seq(A)
    BY <1>1, <1>5
  <2>2. x - o - 1 = i - 1 /\ i - 1 \in Nat /\ i - 1 <= Len(b)
    BY <1>6, <1>8
  <2>3. /\ Len(p[K + 1]) = c[(K + 1) + 1] - c[K + 1] - 1
        /\ \A j \in 1 .. c[(K + 1) + 1] - c[K + 1] - 1 : p[K + 1][j] = w[c[K + 1] + j]
    BY <1>4, <1>5
  <2>4. Len(p[K + 1]) = i - 1 /\ \A j \in 1 .. i - 1 : p[K + 1][j] = w[o + j]
    <3> HIDE DEF x
    <3> QED BY <1>9, <1>13, <2>2, <2>3
  <2>5. /\ SubSeq(b, 1, i - 1) \in Seq(A) /\ Len(SubSeq(b, 1, i - 1)) = i - 1
        /\ \A j \in 1 .. i - 1 : SubSeq(b, 1, i - 1)[j] = b[j]
    BY <2>2, HeadIs
  <2>6. ASSUME NEW j \in 1 .. i - 1 PROVE b[j] = w[o + j]
    <3>1. j \in 1 .. Len(b)
      BY <1>8
    <3> QED BY <1>7, <3>1 DEF Rest
  <2>7. \A j \in 1 .. Len(p[K + 1]) : p[K + 1][j] = SubSeq(b, 1, i - 1)[j]
    BY <2>4, <2>5, <2>6
  <2> DEFINE line == p[K + 1]
             head == SubSeq(b, 1, i - 1)
  <2>8. /\ line \in Seq(A) /\ head \in Seq(A) /\ Len(line) = Len(head)
        /\ \A j \in 1 .. Len(line) : line[j] = head[j]
    BY <2>1, <2>4, <2>5, <2>7
  <2> HIDE DEF line, head
  <2>9. line = head
    BY <2>8, SameList
  <2> QED BY <2>9 DEF line, head
<1>16. SubSeq(b, i + 1, Len(b)) \in Seq(A)
  BY <1>8, TailIs
<1>17. SubSeq(b, i + 1, Len(b)) \o t = SubSeq(w, x + 1, Len(w))
  <2> DEFINE u == SubSeq(b, i + 1, Len(b))
  <2>1. u \in Seq(A) /\ Len(u) = Len(b) - i /\ \A j \in 1 .. Len(b) - i : u[j] = b[i + j]
    BY <1>8, TailIs
  <2> HIDE DEF u
  <2>2. Len(b) + Len(t) = Len(w) - o
    BY <1>7 DEF Rest
  <2>3. Len(u) + Len(t) = Len(w) - x
    BY <1>4, <1>6, <1>8, <2>1, <2>2
  <2>4. ASSUME NEW j \in 1 .. Len(u) PROVE u[j] = w[x + j]
    <3>1. j \in 1 .. Len(b) - i /\ i + j \in 1 .. Len(b) /\ o + (i + j) = x + j
      BY <1>6, <1>8, <2>1
    <3>2. b[i + j] = w[o + (i + j)]
      BY <1>7, <3>1 DEF Rest
    <3> QED BY <2>1, <3>1, <3>2
  <2>5. ASSUME NEW j \in 1 .. Len(t) PROVE t[j] = w[x + Len(u) + j]
    <3>1. o + Len(b) + j = x + Len(u) + j
      BY <1>6, <1>8, <2>1
    <3>2. t[j] = w[o + Len(b) + j]
      BY <1>7 DEF Rest
    <3> QED BY <3>1, <3>2
  <2> HIDE DEF x
  <2>6. Rest(w, x, u, t)
    BY <2>3, <2>4, <2>5 DEF Rest
  <2>7. u \o t = SubSeq(w, x + 1, Len(w))
    BY <1>10, <2>1, <2>6, RestIs, SMTT(60)
  <2> QED BY <2>7 DEF u
<1> HIDE DEF x
<1>18. Ahead(w, SubSeq(b, i + 1, Len(b)), t, K + 1)
  BY <1>13, <1>17 DEF Ahead, c
<1> QED BY <1>2, <1>14, <1>15, <1>16, <1>18

(* A frame moves what comes next from the text to the buffer.              *)
LEMMA NextFrameIs ==
  ASSUME NEW A, NEW b \in Seq(A), NEW t \in Seq(A), NEW n \in 1 .. Len(t)
  PROVE  /\ b \o SubSeq(t, 1, n) \in Seq(A) /\ SubSeq(t, 1, n) \in Seq(A)
         /\ SubSeq(t, n + 1, Len(t)) \in Seq(A)
         /\ \A w, K : Ahead(w, b, t, K) =>
              Ahead(w, b \o SubSeq(t, 1, n), SubSeq(t, n + 1, Len(t)), K)
<1> DEFINE f == SubSeq(t, 1, n)
           r == SubSeq(t, n + 1, Len(t))
<1>1. f \in Seq(A) /\ r \in Seq(A)
  <2>1. n \in Nat /\ n <= Len(t)
    OBVIOUS
  <2> QED BY <2>1, HeadIs, TailIs
<1>2. f \o r = t
  BY SplitIs
<1> HIDE DEF f, r
<1>3. (b \o f) \o r = b \o (f \o r)
  BY <1>1
<1>4. b \o f \in Seq(A)
  BY <1>1
<1>5. (b \o f) \o r = b \o t
  BY <1>2, <1>3
<1>6. ASSUME NEW w, NEW K, Ahead(w, b, t, K) PROVE Ahead(w, b \o f, r, K)
  BY <1>5, <1>6 DEF Ahead
<1> QED BY <1>1, <1>4, <1>6 DEF f, r

(* When nothing is left to take, every line has been read.                 *)
LEMMA AllLinesRead ==
  ASSUME NEW A, NEW w \in Seq(A), NEW b \in Seq(A),
         NEW K \in 0 .. Len(LinesOf(w)), Ahead(w, b, <<>>, K),
         \A j \in 1 .. Len(b) : b[j] # "n"
  PROVE  K = Len(LinesOf(w))
<1> DEFINE c == Marks(w, "n")
           p == Pieces(w, "n")
           o == c[K + 1]
           x == c[K + 2]
           l == x - o
<1>1. Cutting(w, "n", c, p)
  BY StringIsCut
<1>2. Len(LinesOf(w)) = Len(p) - 1
  BY LinesAre
<1>0. b = SubSeq(w, c[K + 1] + 1, Len(w))
  <2>1. b \o <<>> = b
    OBVIOUS
  <2> QED BY <2>1 DEF Ahead
<1> HIDE DEF p, c
<1>3. /\ Len(w) \in Nat /\ Len(p) \in Nat \ {0} /\ c[Len(p) + 1] = Len(w) + 1
      /\ \A k \in 1 .. Len(p) + 1 : c[k] \in Nat
      /\ \A k \in 2 .. Len(p) : w[c[k]] = "n"
      /\ \A m, n \in 1 .. Len(p) + 1 : m < n => c[m] < c[n]
  BY <1>1 DEF Cutting
<1> SUFFICES ASSUME K + 1 < Len(p) PROVE FALSE
  BY <1>2, <1>3
<1>4. /\ K \in Nat /\ K + 1 \in 1 .. Len(p) + 1 /\ K + 2 \in 1 .. Len(p) + 1
      /\ K + 2 \in 2 .. Len(p) /\ Len(p) + 1 \in 1 .. Len(p) + 1
      /\ K + 1 < K + 2 /\ K + 2 < Len(p) + 1
  BY <1>2, <1>3
<1>5. o \in Nat /\ x \in Nat /\ o < x /\ x < Len(w) + 1 /\ w[x] = "n"
  BY <1>3, <1>4
<1>6. b = SubSeq(w, o + 1, Len(w))
  BY <1>0
<1> HIDE DEF o, x
<1>7. o <= Len(w) /\ l \in 1 .. Len(w) - o /\ o + l = x
  BY <1>3, <1>5
<1>8. Len(b) = Len(w) - o /\ \A j \in 1 .. Len(w) - o : b[j] = w[o + j]
  <2>1. /\ Len(SubSeq(w, o + 1, Len(w))) = Len(w) - o
        /\ \A j \in 1 .. Len(w) - o : SubSeq(w, o + 1, Len(w))[j] = w[o + j]
    <3> HIDE DEF l
    <3> QED BY <1>5, <1>7, TailIs
  <2> HIDE DEF l
  <2> QED BY <1>6, <2>1
<1> HIDE DEF l
<1>9. b[l] = "n" /\ l \in 1 .. Len(b)
  BY <1>5, <1>7, <1>8
<1> QED BY <1>9

LEMMA LineEndsAre ==
  ASSUME NEW A, buffer \in Seq(A), LineEnds # {},
         NEW i, i = CHOOSE e \in LineEnds : \A j \in LineEnds : e <= j
  PROVE  FirstEnd(buffer, i)
<1>1. Len(buffer) \in Nat /\ LineEnds \subseteq 1 .. Len(buffer) /\ LineEnds \in SUBSET Nat
  BY DEF LineEnds
<1>2. IsFiniteSet(LineEnds)
  <2>1. IsFiniteSet(1 .. Len(buffer))
    BY <1>1, FS_Interval
  <2> QED BY <1>1, <2>1, FS_Subset
<1>3. i \in LineEnds /\ \A j \in LineEnds : i <= j
  BY <1>1, <1>2, EndsExist
<1>4. i \in 1 .. Len(buffer) /\ buffer[i] = "n"
  BY <1>3 DEF LineEnds
<1>5. ASSUME NEW j \in 1 .. i - 1 PROVE buffer[j] # "n"
  <2>1. j \in 1 .. Len(buffer) /\ ~(i <= j)
    BY <1>1, <1>4
  <2> QED BY <1>3, <2>1 DEF LineEnds
<1> QED BY <1>4, <1>5 DEF FirstEnd

(* One line more has been read.                                            *)
LEMMA TakeLineReads ==
  ASSUME NEW A, "n" \in A, whole \in Seq(A), buffer \in Seq(A), text \in Seq(A),
         NEW K \in 0 .. Len(LinesOf(whole)), ReadTo(K), TakeLine
  PROVE  buffer' \in Seq(A) /\ K + 1 \in 1 .. Len(LinesOf(whole)) /\ ReadTo(K + 1)'
<1> DEFINE lines == LinesOf(whole)
           i == CHOOSE i \in LineEnds : \A j \in LineEnds : i <= j
           k == K + 1
           line == Trimmed(SubSeq(buffer, 1, i - 1))
           D == DataBefore(lines, k)
           E == EventEnds(lines)
<1>1. /\ Ahead(whole, buffer, text, K)
      /\ data = Joined(lines, D) /\ (data = <<>> <=> D = {})
      /\ events = EventsAt(lines, E \cap 1 .. K)
  BY DEF ReadTo
<1>2. /\ LineEnds # {} /\ buffer' = SubSeq(buffer, i + 1, Len(buffer))
      /\ whole' = whole /\ text' = text
      /\ \/ line # <<>> /\ data' = AddLine(line) /\ events' = events
         \/ line = <<>> /\ data = <<>> /\ data' = data /\ events' = events
         \/ line = <<>> /\ data # <<>> /\ events' = Append(events, data) /\ data' = <<>>
  BY DEF TakeLine
<1>3. FirstEnd(buffer, i)
  <2> HIDE DEF i
  <2>1. i = CHOOSE j \in LineEnds : \A l \in LineEnds : j <= l
    BY DEF i
  <2> QED BY <1>2, <2>1, LineEndsAre
<1> HIDE DEF i
<1>4. /\ k \in 1 .. Len(lines) /\ lines[k] = line
      /\ SubSeq(buffer, i + 1, Len(buffer)) \in Seq(A)
      /\ Ahead(whole, SubSeq(buffer, i + 1, Len(buffer)), text, k)
  BY <1>1, <1>3, NextLineIs
<1>5. lines \in Seq(Seq(A)) /\ Len(lines) \in Nat
  BY LinesAre
<1> HIDE DEF lines, line
<1>6. K \in Nat /\ k \in Nat /\ K + 2 = k + 1 /\ k - 1 = K
  BY <1>4, <1>5
<1>7. D \in SUBSET Nat /\ IsFiniteSet(D) /\ \A j \in D : j < k /\ j >= 1
  BY <1>5, <1>6, DataBeforeIs
<1>8. DataBefore(lines, k + 1) =
        IF line = <<>> THEN {} ELSE IF IsData(line) THEN D \cup {k} ELSE D
  BY <1>4, <1>5, DataBeforeNext DEF Blank
<1> HIDE DEF D
<1>9. /\ Joined(lines, D) \in Seq(A)
      /\ Joined(lines, D \cup {k}) = Joined(lines, D) \o (Payload(line) \o <<"n">>)
  BY <1>4, <1>5, <1>7, JoinedAdd
<1>10. Payload(line) \in Seq(A)
  <2>1. line \in Seq(A)
    BY <1>4, <1>5
  <2> QED BY <2>1, PayloadIs
<1>11. k \in E <=> line = <<>> /\ D # {}
  BY <1>4 DEF E, EventEnds, Blank, D
<1>12. E \subseteq 1 .. Len(lines)
  BY DEF E, EventEnds
<1> HIDE DEF E
<1>13. E \cap 1 .. k = IF k \in E THEN (E \cap 1 .. K) \cup {k} ELSE E \cap 1 .. K
  BY <1>6
<1>14. /\ data' = Joined(lines, DataBefore(lines, k + 1))
       /\ data' = <<>> <=> DataBefore(lines, k + 1) = {}
  <2>1. CASE line # <<>> /\ IsData(line)
    <3>1. data' = data \o Payload(line) \o <<"n">>
      BY <1>2, <2>1 DEF AddLine
    <3>2. data \o Payload(line) \o <<"n">> = data \o (Payload(line) \o <<"n">>)
          /\ data \o Payload(line) \o <<"n">> # <<>>
      <4>1. data \in Seq(A) /\ <<"n">> \in Seq(A)
        BY <1>1, <1>9
      <4> QED BY <1>10, <4>1, SMTT(60)
    <3>3. DataBefore(lines, k + 1) = D \cup {k}
      BY <1>8, <2>1
    <3> QED BY <1>1, <1>9, <3>1, <3>2, <3>3
  <2>2. CASE line # <<>> /\ ~IsData(line)
    BY <1>1, <1>2, <1>8, <2>2 DEF AddLine
  <2>3. CASE line = <<>>
    BY <1>2, <1>8, <2>3, JoinedNone
  <2> QED BY <2>1, <2>2, <2>3
<1>15. events' = EventsAt(lines, E \cap 1 .. k)
  <2>1. CASE line = <<>> /\ data # <<>>
    <3> DEFINE S == E \cap 1 .. K
    <3>1. k \in E /\ E \cap 1 .. k = S \cup {k}
      BY <1>1, <1>11, <1>13, <2>1
    <3>2. S \in SUBSET Nat /\ IsFiniteSet(S) /\ \A j \in S : j < k
      <4>1. IsFiniteSet(1 .. K) /\ S \subseteq 1 .. K
        BY <1>6, FS_Interval
      <4> QED BY <1>6, <4>1, FS_Subset
    <3>3. ASSUME NEW j \in S \cup {k} PROVE Joined(lines, DataBefore(lines, j)) \in Seq(A)
      <4>1. j \in 1 .. Len(lines) /\ j \in Nat
        BY <1>4, <1>12
      <4>2. DataBefore(lines, j) \in SUBSET Nat /\ IsFiniteSet(DataBefore(lines, j))
            /\ \A l \in DataBefore(lines, j) : l < j /\ l >= 1
        BY <1>5, <4>1, DataBeforeIs
      <4> QED BY <1>5, <4>1, <4>2, JoinedAdd
    <3>4. events = EventsAt(lines, S)
      BY <1>1
    <3> HIDE DEF S
    <3>5. EventsAt(lines, S \cup {k}) = Append(EventsAt(lines, S), Joined(lines, DataBefore(lines, k)))
      BY <1>6, <3>2, <3>3, EventsAtAdd
    <3>6. events' = Append(events, data)
      BY <1>2, <2>1
    <3> QED BY <1>1, <3>1, <3>4, <3>5, <3>6 DEF D
  <2>2. CASE line # <<>> \/ data = <<>>
    <3>1. events' = events /\ k \notin E
      BY <1>1, <1>2, <1>11, <2>2
    <3> QED BY <1>1, <1>13, <3>1
  <2> QED BY <2>1, <2>2
<1>16. ReadTo(K + 1)'
  <2>1. LinesOf(whole') = lines
    BY <1>2 DEF lines
  <2>2. k \in 0 .. Len(lines)
    BY <1>4, <1>6
  <2>4. Ahead(whole', buffer', text', k)
    BY <1>2, <1>4
  <2>3. EventEnds(lines) = E
    BY DEF E
  <2> QED BY <1>14, <1>15, <2>1, <2>2, <2>3, <2>4 DEF ReadTo
<1> QED BY <1>2, <1>4, <1>16 DEF lines

LEMMA TakeFrameReads ==
  ASSUME NEW A, "c1" \notin A, "c2" \notin A,
         whole \in Seq(A), buffer \in Seq(A), text \in Seq(A),
         NEW K \in 0 .. Len(LinesOf(whole)), ReadTo(K),
         NEW n \in 1 .. Len(text), TakeFrame(n)
  PROVE  buffer' \in Seq(A) /\ text' \in Seq(A) /\ ReadTo(K)'
<1> DEFINE f == SubSeq(text, 1, n)
           r == SubSeq(text, n + 1, Len(text))
<1>1. /\ buffer \o f \in Seq(A) /\ f \in Seq(A) /\ r \in Seq(A)
      /\ \A w, j : Ahead(w, buffer, text, j) => Ahead(w, buffer \o f, r, j)
  BY NextFrameIs
<1> HIDE DEF f, r
<1>2. Decoded(f) = f
  BY <1>1, DecodedIs
<1>3. buffer' = buffer \o f /\ text' = r /\ UNCHANGED <<whole, data, events>>
  BY <1>2 DEF TakeFrame, f, r
<1>4. Ahead(whole', buffer', text', K)
  BY <1>1, <1>3 DEF ReadTo
<1>5. ReadTo(K)'
  BY <1>3, <1>4 DEF ReadTo
<1> QED BY <1>1, <1>3, <1>5

LEMMA NextSseInv ==
  ASSUME NEW A, "n" \in A, "c1" \notin A, "c2" \notin A
  PROVE  SseInv(A) /\ [SseNext]_sseVars => SseInv(A)'
<1> SUFFICES ASSUME SseInv(A), [SseNext]_sseVars PROVE SseInv(A)'
  OBVIOUS
<1>1. PICK K \in 0 .. Len(LinesOf(whole)) : ReadTo(K)
  BY DEF SseInv
<1>2. whole \in Seq(A) /\ text \in Seq(A) /\ buffer \in Seq(A)
  BY DEF SseInv
<1>3. ASSUME NEW n \in 1 .. Len(text), TakeFrame(n) PROVE SseInv(A)'
  <2>1. buffer' \in Seq(A) /\ text' \in Seq(A) /\ ReadTo(K)'
    BY <1>1, <1>2, <1>3, TakeFrameReads
  <2>2. whole' = whole
    BY <1>3 DEF TakeFrame
  <2> QED BY <1>1, <1>2, <2>1, <2>2 DEF SseInv
<1>4. ASSUME TakeLine PROVE SseInv(A)'
  <2>1. buffer' \in Seq(A) /\ K + 1 \in 1 .. Len(LinesOf(whole)) /\ ReadTo(K + 1)'
    BY <1>1, <1>2, <1>4, TakeLineReads
  <2>2. whole' = whole /\ text' = text
    BY <1>4 DEF TakeLine
  <2>3. K + 1 \in 0 .. Len(LinesOf(whole'))
    BY <2>1, <2>2
  <2> QED BY <1>2, <2>1, <2>2, <2>3 DEF SseInv
<1>5. ASSUME UNCHANGED sseVars PROVE SseInv(A)'
  BY <1>1, <1>2, <1>5 DEF SseInv, ReadTo, sseVars
<1> QED BY <1>3, <1>4, <1>5 DEF SseNext, StreamEnded

LEMMA InitSseInv ==
  ASSUME NEW A, "n" \in A, Streams \subseteq Seq(A)
  PROVE  SseInit => SseInv(A)
<1> SUFFICES ASSUME SseInit PROVE SseInv(A)
  OBVIOUS
<1> DEFINE lines == LinesOf(whole)
<1>1. whole \in Seq(A) /\ text = whole /\ buffer = <<>> /\ data = <<>> /\ events = <<>>
  BY DEF SseInit
<1>2. lines \in Seq(Seq(A)) /\ Len(lines) \in Nat
  BY <1>1, LinesAre
<1> HIDE DEF lines
<1>3. Marks(whole, "n")[0 + 1] = 0
  <2>1. Marks(whole, "n")[1] = 0
    BY <1>1, StringIsCut DEF Cutting
  <2> QED BY <2>1
<1>4. Ahead(whole, buffer, text, 0)
  <2>1. buffer \o text = SubSeq(whole, 0 + 1, Len(whole))
    BY <1>1
  <2> QED BY <1>3, <2>1 DEF Ahead
<1>5. DataBefore(lines, 0 + 1) = {} /\ Joined(lines, {}) = <<>>
  <2>1. DataBefore(lines, 1) = {}
    BY <1>2, DataBeforeIs
  <2> QED BY <2>1, JoinedNone
<1>6. EventsAt(lines, EventEnds(lines) \cap 1 .. 0) = <<>>
  <2>1. EventEnds(lines) \cap 1 .. 0 = {}
    OBVIOUS
  <2>2. Ascending({}) \in [1 .. 0 -> {}] /\ Len(Ascending({})) = 0
    <3>1. {} \in SUBSET Nat /\ IsFiniteSet({}) /\ Cardinality({}) = 0
      BY FS_EmptySet
    <3> QED BY <3>1, AscendingIs
  <2> DEFINE f == [j \in 1 .. Len(Ascending({})) |-> Joined(lines, DataBefore(lines, Ascending({})[j]))]
  <2>3. f = <<>>
    BY <2>2
  <2> QED BY <2>1, <2>3 DEF EventsAt
<1>7. ReadTo(0)
  <2>1. 0 \in 0 .. Len(lines)
    BY <1>2
  <2>2. (data = <<>>) <=> (DataBefore(lines, 0 + 1) = {})
    BY <1>1, <1>5
  <2> QED BY <1>1, <1>3, <1>4, <1>5, <1>6, <2>1, <2>2 DEF ReadTo, lines
<1> QED BY <1>1, <1>2, <1>7 DEF SseInv, lines

LEMMA SseInvWhole == ASSUME NEW A, "n" \in A PROVE SseInv(A) => EventsWhole
<1> SUFFICES ASSUME SseInv(A) PROVE EventsWhole
  OBVIOUS
<1> DEFINE lines == LinesOf(whole)
           E == EventEnds(lines)
<1>1. PICK K \in 0 .. Len(lines) : ReadTo(K)
  BY DEF SseInv
<1>2. whole \in Seq(A) /\ text \in Seq(A) /\ buffer \in Seq(A)
  BY DEF SseInv
<1>3. lines \in Seq(Seq(A)) /\ Len(lines) \in Nat
  BY <1>2, LinesAre
<1>4. /\ Ahead(whole, buffer, text, K)
      /\ events = EventsAt(lines, E \cap 1 .. K)
  BY <1>1 DEF ReadTo
<1>5. EventsOf(whole) = EventsAt(lines, E)
  BY DEF EventsOf
<1>6. E \subseteq 1 .. Len(lines)
  BY DEF EventEnds
<1> HIDE DEF E
<1>7. IsPrefix(events, EventsOf(whole))
  <2>1. E \in SUBSET Nat /\ IsFiniteSet(E)
    <3>1. IsFiniteSet(1 .. Len(lines))
      BY <1>3, FS_Interval
    <3>2. IsFiniteSet(E)
      BY <1>6, <3>1, FS_Subset
    <3> QED BY <1>6, <3>2
  <2> DEFINE T == E \cap 1 .. K
  <2>2. T \in SUBSET E /\ \A x \in T, y \in E \ T : x < y
    <3>1. K \in Nat /\ \A y \in E : y \in Nat /\ y >= 1
      BY <1>3, <1>6
    <3> QED BY <3>1
  <2>3. ASSUME NEW j \in E PROVE Joined(lines, DataBefore(lines, j)) \in Seq(A)
    <3>1. j \in 1 .. Len(lines) /\ j \in Nat
      BY <1>3, <1>6
    <3>2. DataBefore(lines, j) \in SUBSET Nat /\ IsFiniteSet(DataBefore(lines, j))
          /\ \A l \in DataBefore(lines, j) : l < j /\ l >= 1
      BY <1>3, <3>1, DataBeforeIs
    <3> HIDE DEF lines
    <3> QED BY <1>3, <3>1, <3>2, JoinedAdd
  <2>4. events = EventsAt(lines, T)
    BY <1>4
  <2> HIDE DEF T, lines
  <2>5. IsPrefix(EventsAt(lines, T), EventsAt(lines, E))
    BY <2>1, <2>2, <2>3, EventsAtPrefix
  <2> QED BY <1>5, <2>4, <2>5
<1>8. ASSUME AtEnd PROVE events = EventsOf(whole)
  <2>1. text = <<>> /\ \A j \in 1 .. Len(buffer) : buffer[j] # "n"
    BY <1>8 DEF AtEnd, LineEnds
  <2>2. Ahead(whole, buffer, <<>>, K)
    BY <1>4, <2>1
  <2>4. K = Len(lines)
    BY <1>2, <2>1, <2>2, AllLinesRead
  <2>5. E \cap 1 .. K = E
    BY <1>6, <2>4
  <2> QED BY <1>4, <1>5, <2>5
<1> QED BY <1>7, <1>8 DEF EventsWhole

(* However a stream of characters of one byte each is cut into frames, the *)
(* reader returns the events of its text, whole and in order, and none is  *)
(* missing when it ends (read_sse_event).                                  *)
THEOREM EventsAreWhole ==
  ASSUME NEW A, Streams \subseteq Seq(A), "c1" \notin A, "c2" \notin A
  PROVE  SseSpec => []EventsWhole
<1> DEFINE B == A \cup {"n"}
<1>1. "n" \in B /\ "c1" \notin B /\ "c2" \notin B /\ Streams \subseteq Seq(B)
  <2>1. ASSUME NEW s \in Seq(A) PROVE s \in Seq(B)
    OBVIOUS
  <2>2. "n" # "c1" /\ "n" # "c2"
    OBVIOUS
  <2> QED BY <2>1, <2>2
<1> HIDE DEF B
<1>2. SseInit => SseInv(B)
  BY <1>1, InitSseInv
<1>3. SseInv(B) /\ [SseNext]_sseVars => SseInv(B)'
  BY <1>1, NextSseInv
<1>4. SseInv(B) => EventsWhole
  BY <1>1, SseInvWhole
<1> QED BY <1>2, <1>3, <1>4, PTL DEF SseSpec

-----------------------------------------------------------------------------

(* A function of the numbers up to n, each value made from the one before. *)
Steps(h, B, b, n, G) ==
  h \in [0 .. n -> B] /\ h[0] = b /\ \A i \in 1 .. n : h[i] = G[<<i, h[i - 1]>>]

LEMMA StepsExist ==
  ASSUME NEW B, NEW b \in B, NEW n \in Nat, NEW G \in [Nat \X B -> B]
  PROVE  \E h : Steps(h, B, b, n, G)
<1> DEFINE upto(h, m) == h \in [0 .. m -> B] /\ h[0] = b
                         /\ \A i \in 1 .. m : h[i] = G[<<i, h[i - 1]>>]
           S == {m \in Nat : \E h : upto(h, m)}
<1>1. 0 \in S
  <2>1. upto([i \in 0 .. 0 |-> b], 0)
    OBVIOUS
  <2> HIDE DEF upto
  <2> QED BY <2>1
<1>2. ASSUME NEW m \in S PROVE m + 1 \in S
  <2>1. m \in Nat
    OBVIOUS
  <2>2. PICK h : upto(h, m)
    OBVIOUS
  <2> DEFINE v == G[<<m + 1, h[m]>>]
             g == [i \in 0 .. m + 1 |-> IF i = m + 1 THEN v ELSE h[i]]
  <2>3. v \in B
    <3>1. h[m] \in B /\ m + 1 \in Nat
      BY <2>1, <2>2
    <3> QED BY <3>1
  <2> HIDE DEF v
  <2>4. g \in [0 .. m + 1 -> B] /\ g[0] = b
    BY <2>1, <2>2, <2>3
  <2>5. ASSUME NEW i \in 1 .. m + 1 PROVE g[i] = G[<<i, g[i - 1]>>]
    <3>1. CASE i = m + 1
      <4>1. i - 1 = m /\ m \in 0 .. m + 1 /\ m + 1 \in 0 .. m + 1 /\ m # m + 1
        BY <2>1, <3>1
      <4>2. g[m + 1] = v /\ g[m] = h[m]
        BY <4>1
      <4> QED BY <3>1, <4>1, <4>2 DEF v
    <3>2. CASE i # m + 1
      <4>1. i \in 1 .. m /\ i - 1 \in 0 .. m + 1 /\ i \in 0 .. m + 1 /\ i - 1 # m + 1
        BY <2>1, <3>2
      <4>2. g[i] = h[i] /\ g[i - 1] = h[i - 1]
        BY <3>2, <4>1
      <4> QED BY <2>2, <4>1, <4>2
    <3> QED BY <3>1, <3>2
  <2> HIDE DEF g
  <2>6. upto(g, m + 1)
    BY <2>4, <2>5
  <2> HIDE DEF upto
  <2> QED BY <2>1, <2>6
<1>3. S = Nat
  <2> HIDE DEF S
  <2>1. S \in SUBSET Nat
    BY DEF S
  <2> QED BY <1>1, <1>2, <2>1, Induction
<1>4. PICK h : upto(h, n)
  <2> HIDE DEF upto
  <2> QED BY <1>3
<1> QED BY <1>4 DEF Steps

(* The value of a text of digits, digit by digit.                          *)
Digits == {Digit[d] : d \in 1 .. 10}

LEMMA NumeralIs ==
  ASSUME NEW c \in Digits
  PROVE  Numeral(c) \in 0 .. 9 /\ \A d \in 1 .. 10 : Digit[d] = c => Numeral(c) = d - 1
<1>1. \A d, e \in 1 .. 10 : Digit[d] = Digit[e] => d = e
  BY DEF Digit
<1>2. PICK d \in 1 .. 10 : Digit[d] = c
  BY DEF Digits
<1> QED BY <1>1, <1>2 DEF Numeral

LEMMA ValueIs ==
  ASSUME NEW s \in Seq(Digits)
  PROVE  \E v \in [0 .. Len(s) -> Nat] :
           /\ v[0] = 0 /\ Value(s) = v[Len(s)]
           /\ \A i \in 1 .. Len(s) : v[i] = 10 * v[i - 1] + Numeral(s[i])
<1> DEFINE n == Len(s)
           body(v) == [i \in 0 .. n |-> IF i = 0 THEN 0 ELSE 10 * v[i - 1] + Numeral(s[i])]
           G == [p \in Nat \X Nat |-> IF p[1] \in 1 .. n THEN 10 * p[2] + Numeral(s[p[1]]) ELSE 0]
           v == CHOOSE v : v = body(v)
<1>1. n \in Nat /\ \A i \in 1 .. n : Numeral(s[i]) \in Nat
  BY NumeralIs
<1>2. G \in [Nat \X Nat -> Nat]
  BY <1>1
<1>3. PICK h \in [0 .. n -> Nat] : h[0] = 0 /\ \A i \in 1 .. n : h[i] = G[<<i, h[i - 1]>>]
  <2> HIDE DEF G, n
  <2>1. \E h : Steps(h, Nat, 0, n, G)
    BY <1>1, <1>2, StepsExist
  <2> QED BY <2>1 DEF Steps
<1>4. h = body(h)
  <2>1. ASSUME NEW i \in 0 .. n PROVE h[i] = body(h)[i]
    <3>1. CASE i = 0
      BY <1>3, <3>1
    <3>2. CASE i # 0
      <4>1. i \in 1 .. n /\ i - 1 \in 0 .. n /\ i \in Nat
        BY <1>1, <3>2
      <4>2. h[i - 1] \in Nat
        BY <1>3, <4>1
      <4>3. h[i] = G[<<i, h[i - 1]>>]
        BY <1>3, <4>1
      <4>4. G[<<i, h[i - 1]>>] = 10 * h[i - 1] + Numeral(s[i])
        BY <4>1, <4>2
      <4> QED BY <3>2, <4>3, <4>4
    <3> QED BY <3>1, <3>2
  <2> QED BY <1>3, <2>1
<1>5. v = body(v)
  <2> HIDE DEF body
  <2> QED BY <1>4
<1>6. Value(s) = v[n]
  BY DEF Value
<1> HIDE DEF v
<1>7. v[0] = 0 /\ \A i \in 1 .. n : v[i] = 10 * v[i - 1] + Numeral(s[i])
  <2>1. v[0] = body(v)[0] /\ \A i \in 1 .. n : v[i] = body(v)[i]
    <3> HIDE DEF body
    <3> QED BY <1>5
  <2>2. v[0] = 0
    BY <1>1, <2>1
  <2>3. ASSUME NEW i \in 1 .. n PROVE v[i] = 10 * v[i - 1] + Numeral(s[i])
    <3>1. i \in 0 .. n /\ i # 0
      BY <1>1
    <3>2. v[i] = body(v)[i]
      BY <2>1
    <3> QED BY <3>1, <3>2
  <2> QED BY <2>2, <2>3
<1>8. v \in [0 .. n -> Nat]
  <2> DEFINE S == {i \in Nat : i <= n => v[i] \in Nat}
  <2>1. 0 \in S
    BY <1>7
  <2>2. ASSUME NEW i \in S PROVE i + 1 \in S
    <3>1. i \in Nat
      OBVIOUS
    <3>2. ASSUME i + 1 <= n PROVE v[i + 1] \in Nat
      <4>1. i + 1 \in 1 .. n /\ (i + 1) - 1 = i /\ v[i] \in Nat
        BY <1>1, <3>1, <3>2
      <4>2. v[i + 1] = 10 * v[i] + Numeral(s[i + 1]) /\ Numeral(s[i + 1]) \in Nat
        BY <1>1, <1>7, <4>1
      <4> QED BY <4>1, <4>2
    <3> QED BY <3>1, <3>2
  <2>3. S = Nat
    <3> HIDE DEF S
    <3>1. S \in SUBSET Nat
      BY DEF S
    <3> QED BY <2>1, <2>2, <3>1, Induction
  <2>4. \A i \in 0 .. n : v[i] \in Nat
    BY <1>1, <2>3
  <2>5. v = [i \in 0 .. n |-> v[i]]
    BY <1>5
  <2> QED BY <2>4, <2>5
<1> QED BY <1>6, <1>7, <1>8

LEMMA ValueEmpty == Value(<<>>) = 0
<1>1. <<>> \in Seq(Digits) /\ Len(<<>>) = 0
  OBVIOUS
<1> QED BY <1>1, ValueIs

LEMMA ValueAppend ==
  ASSUME NEW s \in Seq(Digits), NEW c \in Digits
  PROVE  Value(Append(s, c)) = 10 * Value(s) + Numeral(c) /\ Value(s) \in Nat
<1> DEFINE t == Append(s, c)
           n == Len(s)
<1>1. t \in Seq(Digits) /\ Len(t) = n + 1 /\ n \in Nat /\ t[n + 1] = c
      /\ \A i \in 1 .. n : t[i] = s[i]
  OBVIOUS
<1>2. PICK v \in [0 .. n -> Nat] :
        /\ v[0] = 0 /\ Value(s) = v[n]
        /\ \A i \in 1 .. n : v[i] = 10 * v[i - 1] + Numeral(s[i])
  BY ValueIs
<1> HIDE DEF t
<1>3. PICK w \in [0 .. n + 1 -> Nat] :
        /\ w[0] = 0 /\ Value(t) = w[n + 1]
        /\ \A i \in 1 .. n + 1 : w[i] = 10 * w[i - 1] + Numeral(t[i])
  <2>1. PICK w \in [0 .. Len(t) -> Nat] :
        /\ w[0] = 0 /\ Value(t) = w[Len(t)]
        /\ \A i \in 1 .. Len(t) : w[i] = 10 * w[i - 1] + Numeral(t[i])
    BY <1>1, ValueIs
  <2> HIDE DEF n
  <2> QED BY <1>1, <2>1
<1> HIDE DEF n
<1> DEFINE S == {i \in Nat : i <= n => v[i] = w[i]}
<1>4. 0 \in S
  BY <1>2, <1>3
<1>5. ASSUME NEW i \in S PROVE i + 1 \in S
  <2>1. i \in Nat
    OBVIOUS
  <2>2. ASSUME i + 1 <= n PROVE v[i + 1] = w[i + 1]
    <3>1. i + 1 \in 1 .. n /\ i + 1 \in 1 .. n + 1 /\ (i + 1) - 1 = i /\ v[i] = w[i]
      BY <1>1, <2>1, <2>2
    <3>2. v[i + 1] = 10 * v[i] + Numeral(s[i + 1]) /\ w[i + 1] = 10 * w[i] + Numeral(t[i + 1])
      BY <1>2, <1>3, <3>1
    <3> QED BY <1>1, <3>1, <3>2
  <2> QED BY <2>1, <2>2
<1>6. S = Nat
  <2> HIDE DEF S
  <2>1. S \in SUBSET Nat
    BY DEF S
  <2> QED BY <1>4, <1>5, <2>1, Induction
<1>7. v[n] = w[n]
  BY <1>1, <1>6
<1>8. w[n + 1] = 10 * w[n] + Numeral(c) /\ v[n] \in Nat
  <2>1. n + 1 \in 1 .. n + 1 /\ (n + 1) - 1 = n /\ n \in 0 .. n
    BY <1>1
  <2>2. w[n + 1] = 10 * w[(n + 1) - 1] + Numeral(t[n + 1])
    BY <1>3, <2>1
  <2> QED BY <1>1, <1>2, <2>1, <2>2
<1> QED BY <1>2, <1>3, <1>7, <1>8 DEF t

(* The decimal digits of every number: those of a tenth of it, and its last.*)
LastDigit(n) == Digit[(n % 10) + 1]

LEMMA TenthIs ==
  ASSUME NEW n \in Nat
  PROVE  /\ n \div 10 \in Nat /\ n % 10 \in 0 .. 9 /\ n = 10 * (n \div 10) + (n % 10)
         /\ n >= 10 => n \div 10 < n /\ n \div 10 >= 1
OBVIOUS

LEMMA DigitsAre ==
  /\ \A d \in 1 .. 10 : Digit[d] \in Digits
  /\ \A n \in Nat : LastDigit(n) \in Digits /\ (n < 10 => Digit[n + 1] \in Digits)
<1>1. \A d \in 1 .. 10 : Digit[d] \in Digits
  BY DEF Digits
<1>2. ASSUME NEW n \in Nat PROVE LastDigit(n) \in Digits /\ (n < 10 => Digit[n + 1] \in Digits)
  <2>1. (n % 10) + 1 \in 1 .. 10 /\ (n < 10 => n + 1 \in 1 .. 10)
    BY TenthIs
  <2> QED BY <1>1, <2>1 DEF LastDigit
<1> QED BY <1>1, <1>2

LEMMA DecimalIs ==
  ASSUME NEW n \in Nat
  PROVE  /\ n < 10 => Decimal[n] = <<Digit[n + 1]>>
         /\ n >= 10 => Decimal[n] = Append(Decimal[n \div 10], LastDigit(n))
<1> DEFINE step(f, m) == IF m < 10 THEN <<Digit[m + 1]>> ELSE Append(f[m \div 10], LastDigit(m))
           upto(f, N) == f \in [0 .. N -> Seq(Digits)] /\ \A m \in 0 .. N : f[m] = step(f, m)
           S == {N \in Nat : \E f : upto(f, N)}
<1>1. \A m \in Nat : m < 10 => <<Digit[m + 1]>> \in Seq(Digits)
  BY DigitsAre
<1>2. 0 \in S
  <2>1. <<Digit[0 + 1]>> \in Seq(Digits)
    BY <1>1
  <2>2. upto([i \in 0 .. 0 |-> <<Digit[0 + 1]>>], 0)
    BY <2>1
  <2> HIDE DEF upto
  <2> QED BY <2>2
<1>3. ASSUME NEW N \in S PROVE N + 1 \in S
  <2>1. N \in Nat /\ N + 1 \in Nat
    OBVIOUS
  <2>2. PICK f : upto(f, N)
    OBVIOUS
  <2> DEFINE v == step(f, N + 1)
             g == [i \in 0 .. N + 1 |-> IF i = N + 1 THEN v ELSE f[i]]
  <2>3. v \in Seq(Digits)
    <3>1. CASE N + 1 < 10
      BY <1>1, <2>1, <3>1
    <3>2. CASE ~(N + 1 < 10)
      <4>1. (N + 1) \div 10 \in 0 .. N
        BY <2>1, <3>2, TenthIs
      <4>2. f[(N + 1) \div 10] \in Seq(Digits) /\ LastDigit(N + 1) \in Digits
        BY <2>1, <2>2, <4>1, DigitsAre
      <4> QED BY <3>2, <4>2
    <3> QED BY <3>1, <3>2
  <2>4. ASSUME NEW m \in 0 .. N + 1 PROVE step(g, m) = step(f, m)
    <3>1. CASE m < 10
      BY <3>1
    <3>2. CASE ~(m < 10)
      <4>1. m \div 10 \in 0 .. N + 1 /\ m \div 10 # N + 1
        BY <2>1, <3>2, TenthIs
      <4>2. g[m \div 10] = f[m \div 10]
        BY <4>1
      <4> QED BY <3>2, <4>2, SMTT(60)
    <3> QED BY <3>1, <3>2
  <2> HIDE DEF step
  <2>5. ASSUME NEW m \in 0 .. N + 1 PROVE g[m] = step(g, m)
    <3>1. CASE m = N + 1
      BY <2>1, <2>4, <3>1
    <3>2. CASE m # N + 1
      <4>1. m \in 0 .. N
        BY <2>1, <3>2
      <4> QED BY <2>2, <2>4, <3>2, <4>1
    <3> QED BY <3>1, <3>2
  <2>6. g \in [0 .. N + 1 -> Seq(Digits)]
    <3> HIDE DEF v
    <3> QED BY <2>1, <2>2, <2>3
  <2> HIDE DEF g
  <2>7. upto(g, N + 1)
    BY <2>5, <2>6
  <2> HIDE DEF upto
  <2> QED BY <2>1, <2>7
<1>4. S = Nat
  <2> HIDE DEF S
  <2>1. S \in SUBSET Nat
    BY DEF S
  <2> QED BY <1>2, <1>3, <2>1, Induction
<1>5. ASSUME NEW N \in Nat, NEW M \in Nat, NEW f, NEW g, upto(f, N), upto(g, M), N <= M
      PROVE  f[N] = g[N]
  <2> DEFINE T == {k \in Nat : \A m \in 0 .. k : m <= N => f[m] = g[m]}
  <2>1. ASSUME NEW k \in Nat, \A m \in Nat : m < k /\ m <= N => f[m] = g[m], k <= N
        PROVE  f[k] = g[k]
    <3>1. k \in 0 .. N /\ k \in 0 .. M
      BY <1>5, <2>1
    <3>2. f[k] = step(f, k) /\ g[k] = step(g, k)
      <4> HIDE DEF step
      <4> QED BY <1>5, <3>1
    <3>3. k >= 10 => f[k \div 10] = g[k \div 10]
      <4>1. k >= 10 => k \div 10 \in Nat /\ k \div 10 < k /\ k \div 10 <= N
        BY <1>5, <2>1, TenthIs
      <4> QED BY <2>1, <4>1
    <3> QED BY <3>2, <3>3
  <2>2. 0 \in T
    <3>1. \A m \in 0 .. 0 : m = 0
      OBVIOUS
    <3>2. \A m \in Nat : ~(m < 0)
      OBVIOUS
    <3>3. f[0] = g[0]
      BY <1>5, <2>1, <3>2
    <3> QED BY <3>1, <3>3
  <2>3. ASSUME NEW k \in T PROVE k + 1 \in T
    <3>1. k \in Nat /\ \A m \in Nat : m < k + 1 /\ m <= N => f[m] = g[m]
      <4>1. \A m \in Nat : m < k + 1 => m \in 0 .. k
        OBVIOUS
      <4> QED BY <4>1
    <3>2. k + 1 <= N => f[k + 1] = g[k + 1]
      BY <2>1, <3>1
    <3>3. \A m \in 0 .. k + 1 : m = k + 1 \/ (m \in Nat /\ m < k + 1)
      BY <3>1
    <3> QED BY <3>1, <3>2, <3>3
  <2>4. T = Nat
    <3> HIDE DEF T
    <3>1. T \in SUBSET Nat
      BY DEF T
    <3> QED BY <2>2, <2>3, <3>1, Induction
  <2> QED BY <2>4
<1> DEFINE F(m) == CHOOSE f : upto(f, m)
           D == [m \in Nat |-> F(m)[m]]
           body(d) == [m \in Nat |-> step(d, m)]
<1>6. \A m \in Nat : upto(F(m), m)
  <2>1. \A m \in Nat : \E f : upto(f, m)
    <3> HIDE DEF upto
    <3> QED BY <1>4
  <2> HIDE DEF upto
  <2> QED BY <2>1
<1> HIDE DEF F
<1>7. D = body(D)
  <2>1. ASSUME NEW m \in Nat PROVE D[m] = step(D, m)
    <3>1. F(m)[m] = step(F(m), m)
      <4>1. m \in 0 .. m
        OBVIOUS
      <4> HIDE DEF step
      <4> QED BY <1>6, <4>1
    <3>2. m >= 10 => F(m)[m \div 10] = D[m \div 10]
      <4> SUFFICES ASSUME m >= 10 PROVE F(m)[m \div 10] = D[m \div 10]
        OBVIOUS
      <4>1. m \div 10 \in Nat /\ m \div 10 <= m
        BY TenthIs
      <4>2. upto(F(m), m) /\ upto(F(m \div 10), m \div 10)
        <5> HIDE DEF upto
        <5> QED BY <1>6, <4>1
      <4>3. F(m \div 10)[m \div 10] = F(m)[m \div 10]
        <5> HIDE DEF upto
        <5> QED BY <1>5, <4>1, <4>2
      <4> QED BY <4>1, <4>3
    <3>3. D[m] = F(m)[m]
      OBVIOUS
    <3> HIDE DEF D
    <3> QED BY <3>1, <3>2, <3>3
  <2> HIDE DEF step
  <2> QED BY <2>1
<1>8. Decimal = CHOOSE d : d = body(d)
  BY DEF Decimal, LastDigit
<1>9. Decimal = body(Decimal)
  <2> HIDE DEF D, body
  <2> QED BY <1>7, <1>8
<1>10. Decimal[n] = step(Decimal, n)
  <2> HIDE DEF step
  <2> QED BY <1>9
<1> QED BY <1>10

(* Zeros, before whatever digits, do not change a value.                   *)
Zeros(k) == [i \in 1 .. k |-> "0"]

LEMMA ZerosAre ==
  ASSUME NEW k \in Nat
  PROVE  Zeros(k) \in Seq(Digits) /\ Len(Zeros(k)) = k /\ Value(Zeros(k)) = 0
<1>1. "0" \in Digits /\ "0" = Digit[1]
  <2>1. "0" = Digit[1] /\ 1 \in 1 .. 10
    BY DEF Digit
  <2> QED BY <2>1, DigitsAre
<1>2. ASSUME NEW m \in Nat PROVE Zeros(m) \in Seq(Digits) /\ Len(Zeros(m)) = m
  <2>1. Zeros(m) \in [1 .. m -> Digits]
    BY <1>1 DEF Zeros
  <2> QED BY <2>1, IsList
<1> DEFINE S == {m \in Nat : Value(Zeros(m)) = 0}
<1>3. 0 \in S
  <2>1. Zeros(0) = <<>>
    BY DEF Zeros
  <2> QED BY <2>1, ValueEmpty
<1>4. ASSUME NEW m \in S PROVE m + 1 \in S
  <2>1. m \in Nat /\ m + 1 \in Nat
    OBVIOUS
  <2>2. Zeros(m + 1) = Append(Zeros(m), "0")
    <3> DEFINE z == Zeros(m)
               y == Zeros(m + 1)
    <3>1. z \in Seq(Digits) /\ Len(z) = m /\ y \in Seq(Digits) /\ Len(y) = m + 1
      BY <1>2, <2>1
    <3>2. (\A i \in 1 .. m : z[i] = "0") /\ \A i \in 1 .. m + 1 : y[i] = "0"
      BY DEF Zeros
    <3> HIDE DEF z, y
    <3>3. /\ Append(z, "0") \in Seq(Digits) /\ Len(Append(z, "0")) = m + 1
          /\ \A i \in 1 .. m + 1 : Append(z, "0")[i] = "0"
      BY <1>1, <2>1, <3>1, <3>2
    <3>4. y = Append(z, "0")
      BY <3>1, <3>2, <3>3, SameList
    <3> QED BY <3>4 DEF z, y
  <2>3. Value(Append(Zeros(m), "0")) = 10 * Value(Zeros(m)) + Numeral("0")
    BY <1>1, <1>2, <2>1, ValueAppend
  <2>4. Numeral("0") = 0
    <3>1. 1 \in 1 .. 10 /\ 1 - 1 = 0
      OBVIOUS
    <3> QED BY <1>1, <3>1, NumeralIs
  <2>5. Value(Zeros(m)) = 0
    OBVIOUS
  <2>6. Value(Zeros(m + 1)) = 0
    <3>1. Value(Zeros(m + 1)) = 10 * 0 + 0
      BY <2>2, <2>3, <2>4, <2>5, Zenon
    <3> QED BY <3>1
  <2> QED BY <2>1, <2>6
<1>5. S = Nat
  <2> HIDE DEF S
  <2>1. S \in SUBSET Nat
    BY DEF S
  <2> QED BY <1>3, <1>4, <2>1, Induction
<1> QED BY <1>2, <1>5

LEMMA StrongInduction ==
  ASSUME NEW G \in SUBSET Nat, \A n \in Nat : (\A m \in Nat : m < n => m \in G) => n \in G
  PROVE  G = Nat
<1> SUFFICES ASSUME G # Nat PROVE FALSE
  OBVIOUS
<1> DEFINE T == Nat \ G
<1>1. T \in SUBSET Nat /\ T # {}
  OBVIOUS
<1>2. PICK n \in T : \A k \in T : n <= k
  <2> HIDE DEF T
  <2> QED BY <1>1, LeastNumber
<1>3. n \in Nat /\ \A m \in Nat : m < n => m \in G
  BY <1>2
<1> QED BY <1>2, <1>3

(* What the digits of a number are, with zeros before them.                *)
Written(n) ==
  /\ Decimal[n] \in Seq(Digits) /\ Len(Decimal[n]) \in Nat \ {0}
  /\ n < 10 => Len(Decimal[n]) = 1
  /\ n > 0 => Decimal[n][1] # "0"
  /\ \A k \in Nat : Value(Zeros(k) \o Decimal[n]) = n

LEMMA DigitsDiffer == \A d, e \in 1 .. 10 : Digit[d] = Digit[e] => d = e
BY DEF Digit

LEMMA AppendAfter ==
  ASSUME NEW A, NEW s \in Seq(A), NEW t \in Seq(A), NEW c \in A
  PROVE  s \o Append(t, c) = Append(s \o t, c) /\ s \o <<c>> = Append(s, c)
OBVIOUS

LEMMA DecimalsAre == \A n \in Nat : Written(n)
<1> DEFINE S == {n \in Nat : Written(n)}
<1>1. ASSUME NEW n \in Nat, n < 10 PROVE Written(n)
  <2> DEFINE c == Digit[n + 1]
  <2>1. Decimal[n] = <<c>> /\ c \in Digits /\ n + 1 \in 1 .. 10 /\ 1 \in 1 .. 10
    BY <1>1, DecimalIs, DigitsAre
  <2>2. n > 0 => c # "0"
    <3>1. n > 0 => n + 1 # 1
      BY <1>1
    <3>2. Digit[1] = "0"
      BY DEF Digit
    <3> QED BY <2>1, <3>1, <3>2, DigitsDiffer
  <2>3. Numeral(c) = n
    <3>1. (n + 1) - 1 = n
      BY <1>1
    <3> QED BY <2>1, <3>1, NumeralIs
  <2> HIDE DEF c
  <2>4. ASSUME NEW k \in Nat PROVE Value(Zeros(k) \o <<c>>) = n
    <3>1. Zeros(k) \in Seq(Digits) /\ Value(Zeros(k)) = 0
      BY ZerosAre
    <3>2. Zeros(k) \o <<c>> = Append(Zeros(k), c)
      BY <2>1, <3>1, AppendAfter
    <3>3. Value(Append(Zeros(k), c)) = 10 * Value(Zeros(k)) + Numeral(c)
      BY <2>1, <3>1, ValueAppend
    <3>4. Value(Zeros(k) \o <<c>>) = 10 * 0 + n
      BY <2>3, <3>1, <3>2, <3>3, Zenon
    <3> QED BY <3>4
  <2>5. <<c>> \in Seq(Digits) /\ Len(<<c>>) = 1 /\ <<c>>[1] = c
    BY <2>1
  <2> QED BY <2>1, <2>2, <2>4, <2>5 DEF Written
<1>2. ASSUME NEW n \in Nat, ~(n < 10), Written(n \div 10) PROVE Written(n)
  <2> DEFINE t == Decimal[n \div 10]
             c == LastDigit(n)
             q == n \div 10
  <2>1. /\ q \in Nat /\ n % 10 \in 0 .. 9 /\ n = 10 * q + (n % 10) /\ q >= 1
    BY <1>2, TenthIs
  <2>2. Decimal[n] = Append(t, c) /\ c \in Digits
    BY <1>2, DecimalIs, DigitsAre
  <2>3. /\ t \in Seq(Digits) /\ Len(t) \in Nat \ {0} /\ (q > 0 => t[1] # "0")
        /\ \A k \in Nat : Value(Zeros(k) \o t) = q
    BY <1>2 DEF Written
  <2>4. Numeral(c) = n % 10
    <3>1. (n % 10) + 1 \in 1 .. 10 /\ ((n % 10) + 1) - 1 = n % 10
      BY <2>1
    <3> QED BY <2>2, <3>1, NumeralIs DEF LastDigit
  <2> HIDE DEF t, c, q
  <2>5. ASSUME NEW k \in Nat PROVE Value(Zeros(k) \o Append(t, c)) = n
    <3>1. Zeros(k) \in Seq(Digits)
      BY ZerosAre
    <3>2. Zeros(k) \o Append(t, c) = Append(Zeros(k) \o t, c) /\ Zeros(k) \o t \in Seq(Digits)
      BY <2>2, <2>3, <3>1, AppendAfter, SMTT(30)
    <3>3. Value(Append(Zeros(k) \o t, c)) = 10 * Value(Zeros(k) \o t) + Numeral(c)
      BY <2>2, <3>2, ValueAppend
    <3> QED BY <2>1, <2>3, <2>4, <3>2, <3>3
  <2>6. Append(t, c) \in Seq(Digits) /\ Len(Append(t, c)) \in Nat \ {0} /\ Append(t, c)[1] = t[1]
    BY <2>2, <2>3
  <2>7. q > 0
    BY <2>1
  <2> QED BY <1>2, <2>2, <2>3, <2>5, <2>6, <2>7 DEF Written
<1>3. ASSUME NEW n \in Nat, \A m \in Nat : m < n => m \in S PROVE n \in S
  <2>1. CASE n < 10
    BY <1>1, <2>1
  <2>2. CASE ~(n < 10)
    <3>1. n \div 10 \in Nat /\ n \div 10 < n
      BY <2>2, TenthIs
    <3> QED BY <1>2, <1>3, <2>2, <3>1
  <2> QED BY <2>1, <2>2
<1>4. S = Nat
  <2> HIDE DEF S
  <2>1. S \in SUBSET Nat
    BY DEF S
  <2> QED BY <1>3, <2>1, StrongInduction
<1> QED BY <1>4

(* The number at the beginning of a range.                                 *)
LEMMA PaddedIs ==
  ASSUME NEW n \in Nat, NEW width \in Nat, NEW s, s = Padded(n, width)
  PROVE  /\ s \in Seq(Digits) /\ Len(s) \in Nat \ {0} /\ IsNumber(s) /\ Value(s) = n
         /\ width = 0 => ~(Len(s) > 1 /\ s[1] = "0")
         /\ width > Len(Decimal[n]) => Len(s) = width /\ Len(s) > 1 /\ s[1] = "0"
<1> DEFINE d == Decimal[n]
           k == IF width > Len(d) THEN width - Len(d) ELSE 0
           z == Zeros(k)
<1>1. /\ d \in Seq(Digits) /\ Len(d) \in Nat \ {0} /\ (n < 10 => Len(d) = 1)
      /\ (n > 0 => d[1] # "0") /\ \A m \in Nat : Value(Zeros(m) \o d) = n
  BY DecimalsAre DEF Written
<1>2. s = z \o d
  BY DEF Padded, Zeros
<1> HIDE DEF d
<1>3. k \in Nat
  BY <1>1
<1>4. z \in Seq(Digits) /\ Len(z) = k
  <2> HIDE DEF k
  <2> QED BY <1>3, ZerosAre
<1>5. Value(s) = n
  <2> HIDE DEF k
  <2> QED BY <1>1, <1>2, <1>3
<1>6. k > 0 => z[1] = "0"
  <2> HIDE DEF k
  <2> QED BY <1>3 DEF Zeros
<1> HIDE DEF z
<1>7. /\ s \in Seq(Digits) /\ Len(s) = k + Len(d)
      /\ (k > 0 => s[1] = z[1]) /\ (k = 0 => s[1] = d[1])
  <2> HIDE DEF k
  <2>1. /\ z \o d \in Seq(Digits) /\ Len(z \o d) = Len(z) + Len(d)
        /\ \A i \in 1 .. Len(z) : (z \o d)[i] = z[i]
        /\ \A i \in 1 .. Len(d) : (z \o d)[Len(z) + i] = d[i]
    <3>1. z \in Seq(Digits) /\ d \in Seq(Digits)
      BY <1>1, <1>4
    <3> QED BY <3>1, ConcatIs
  <2>2. k > 0 => 1 \in 1 .. k
    BY <1>3
  <2>3. 1 \in 1 .. Len(d) /\ 0 + 1 = 1
    BY <1>1
  <2> QED BY <1>2, <1>4, <2>1, <2>2, <2>3
<1>8. IsNumber(s)
  <2>1. s # <<>>
    BY <1>1, <1>3, <1>7
  <2>2. \A i \in 1 .. Len(s) : s[i] \in Digits
    BY <1>7
  <2> QED BY <2>1, <2>2 DEF IsNumber, Digits
<1>9. width = 0 => ~(Len(s) > 1 /\ s[1] = "0")
  <2> SUFFICES ASSUME width = 0 PROVE ~(Len(s) > 1 /\ s[1] = "0")
    OBVIOUS
  <2>1. k = 0
    BY <1>1
  <2> HIDE DEF k
  <2> QED BY <1>1, <1>7, <2>1
<1>10. width > Len(d) => Len(s) = width /\ Len(s) > 1 /\ s[1] = "0"
  <2> SUFFICES ASSUME width > Len(d) PROVE Len(s) = width /\ Len(s) > 1 /\ s[1] = "0"
    OBVIOUS
  <2>1. k = width - Len(d) /\ k > 0
    BY <1>1
  <2> HIDE DEF k
  <2> QED BY <1>1, <1>3, <1>6, <1>7, <2>1
<1>11. Len(s) \in Nat \ {0}
  BY <1>1, <1>3, <1>7
<1> QED BY <1>5, <1>7, <1>8, <1>9, <1>10, <1>11 DEF d

(* The first c of s after the i-th character.                              *)
FirstAt(s, c, i, j) == j \in i + 1 .. Len(s) /\ s[j] = c /\ \A m \in i + 1 .. j - 1 : s[m] # c

LEMMA FindIs ==
  ASSUME NEW s, Len(s) \in Nat, NEW c, NEW i \in Nat
  PROVE  \/ Find(s, c, i) = 0 /\ \A j \in i + 1 .. Len(s) : s[j] # c
         \/ Find(s, c, i) # 0 /\ FirstAt(s, c, i, Find(s, c, i))
<1> DEFINE at == {j \in i + 1 .. Len(s) : s[j] = c}
<1>1. CASE at = {}
  BY <1>1 DEF Find
<1>2. CASE at # {}
  <2>1. at \in SUBSET Nat
    OBVIOUS
  <2>2. PICK m \in at : \A k \in at : m <= k
    <3> HIDE DEF at
    <3> QED BY <1>2, <2>1, LeastNumber
  <2> DEFINE j == CHOOSE j \in at : \A k \in at : j <= k
  <2>3. j \in at /\ \A k \in at : j <= k
    <3> HIDE DEF at
    <3> QED BY <2>2
  <2>4. Find(s, c, i) = j
    BY <1>2 DEF Find
  <2> HIDE DEF j
  <2>5. j \in i + 1 .. Len(s) /\ s[j] = c /\ j # 0
    BY <2>3
  <2>6. ASSUME NEW o \in i + 1 .. j - 1 PROVE s[o] # c
    <3>1. o \in i + 1 .. Len(s) /\ ~(j <= o)
      BY <2>5
    <3> QED BY <2>3, <3>1
  <2> QED BY <2>4, <2>5, <2>6 DEF FirstAt
<1> QED BY <1>1, <1>2

LEMMA FindFirst ==
  ASSUME NEW s, Len(s) \in Nat, NEW c, NEW i \in Nat, NEW j, FirstAt(s, c, i, j)
  PROVE  Find(s, c, i) = j
<1>1. j \in i + 1 .. Len(s) /\ s[j] = c /\ \A m \in i + 1 .. j - 1 : s[m] # c
  BY DEF FirstAt
<1>2. Find(s, c, i) # 0 /\ FirstAt(s, c, i, Find(s, c, i))
  BY <1>1, FindIs
<1> DEFINE f == Find(s, c, i)
<1>3. f \in i + 1 .. Len(s) /\ s[f] = c /\ \A m \in i + 1 .. f - 1 : s[m] # c
  BY <1>2 DEF FirstAt
<1> HIDE DEF f
<1>4. ~(f < j) /\ ~(j < f)
  BY <1>1, <1>3
<1>5. f = j
  BY <1>1, <1>3, <1>4
<1> QED BY <1>5 DEF f

LEMMA DigitsAreNoSigns == \A c \in Digits : c # "[" /\ c # "]" /\ c # "-"
<1>1. \A d \in 1 .. 10 : Digit[d] # "[" /\ Digit[d] # "]" /\ Digit[d] # "-"
  BY DEF Digit
<1> QED BY <1>1 DEF Digits

(* A range written at the L-th character of s, as a and b with a dash.     *)
WrittenAt(s, L, a, b) ==
  /\ L + Len(a) + Len(b) + 3 <= Len(s)
  /\ s[L + 1] = "["
  /\ \A i \in 1 .. Len(a) : s[L + 1 + i] = a[i]
  /\ s[L + Len(a) + 2] = "-"
  /\ \A i \in 1 .. Len(b) : s[L + Len(a) + 2 + i] = b[i]
  /\ s[L + Len(a) + Len(b) + 3] = "]"

Ranged(a, b) == <<"[">> \o a \o <<"-">> \o b \o <<"]">>

LEMMA RangeIsWritten ==
  ASSUME NEW A, NEW a \in Seq(A), NEW b \in Seq(A), "[" \in A, "-" \in A, "]" \in A
  PROVE  /\ Ranged(a, b) \in Seq(A) /\ Len(Ranged(a, b)) = Len(a) + Len(b) + 3
         /\ WrittenAt(Ranged(a, b), 0, a, b)
<1> DEFINE t == Ranged(a, b)
           m == Len(a)
           n == Len(b)
           c == <<"[">> \o a
           d == c \o <<"-">>
           e == d \o b
<1>1. m \in Nat /\ n \in Nat
  OBVIOUS
<1>2. \A x \in A : <<x>> \in Seq(A) /\ Len(<<x>>) = 1 /\ <<x>>[1] = x
  OBVIOUS
<1>3. /\ c \in Seq(A) /\ Len(c) = m + 1 /\ c[1] = "[" /\ \A i \in 1 .. m : c[1 + i] = a[i]
  OBVIOUS
<1> HIDE DEF c
<1>4. /\ d \in Seq(A) /\ Len(d) = m + 2 /\ d[m + 2] = "-"
      /\ \A i \in 1 .. m + 1 : d[i] = c[i]
  BY <1>1, <1>3
<1> HIDE DEF d
<1>5. /\ e \in Seq(A) /\ Len(e) = m + n + 2 /\ \A i \in 1 .. m + 2 : e[i] = d[i]
      /\ \A i \in 1 .. n : e[m + 2 + i] = b[i]
  <2>1. /\ e \in Seq(A) /\ Len(e) = Len(d) + Len(b)
        /\ \A i \in 1 .. Len(d) : e[i] = d[i]
        /\ \A i \in 1 .. Len(b) : e[Len(d) + i] = b[i]
    <3>1. d \in Seq(A) /\ b \in Seq(A)
      BY <1>4
    <3> QED BY <3>1, ConcatIs
  <2>2. Len(d) + Len(b) = m + n + 2
    BY <1>1, <1>4
  <2> HIDE DEF e
  <2> QED BY <1>4, <2>1, <2>2
<1> HIDE DEF e
<1>6. t = e \o <<"]">>
  BY DEF e, d, c, Ranged
<1> HIDE DEF t
<1>7. /\ t \in Seq(A) /\ Len(t) = m + n + 3 /\ t[m + n + 3] = "]"
      /\ \A i \in 1 .. m + n + 2 : t[i] = e[i]
  <2>1. /\ e \o <<"]">> \in Seq(A) /\ Len(e \o <<"]">>) = m + n + 3
        /\ (e \o <<"]">>)[m + n + 3] = "]"
        /\ \A i \in 1 .. m + n + 2 : (e \o <<"]">>)[i] = e[i]
    BY <1>1, <1>5
  <2> QED BY <1>6, <2>1
<1>8. t[1] = "["
  <2>1. 1 \in 1 .. m + 1 /\ 1 \in 1 .. m + 2 /\ 1 \in 1 .. m + n + 2
    BY <1>1
  <2> QED BY <1>3, <1>4, <1>5, <1>7, <2>1
<1>9. ASSUME NEW i \in 1 .. m PROVE t[1 + i] = a[i]
  <2>1. 1 + i \in 1 .. m + 1 /\ 1 + i \in 1 .. m + 2 /\ 1 + i \in 1 .. m + n + 2
    BY <1>1
  <2> QED BY <1>3, <1>4, <1>5, <1>7, <2>1
<1>10. t[m + 2] = "-"
  <2>1. m + 2 \in 1 .. m + 2 /\ m + 2 \in 1 .. m + n + 2
    BY <1>1
  <2> QED BY <1>4, <1>5, <1>7, <2>1
<1>11. ASSUME NEW i \in 1 .. n PROVE t[m + 2 + i] = b[i]
  <2>1. m + 2 + i \in 1 .. m + n + 2
    BY <1>1
  <2> QED BY <1>5, <1>7, <2>1
<1>12. \A i \in Nat : 0 + i = i
  OBVIOUS
<1>13. /\ 0 + m + n + 3 <= Len(t) /\ t[0 + 1] = "["
       /\ \A i \in 1 .. m : t[0 + 1 + i] = a[i]
       /\ t[0 + m + 2] = "-"
       /\ \A i \in 1 .. n : t[0 + m + 2 + i] = b[i]
       /\ t[0 + m + n + 3] = "]"
  <2> HIDE DEF m, n
  <2> QED BY <1>1, <1>7, <1>8, <1>9, <1>10, <1>11
<1>14. WrittenAt(t, 0, a, b)
  BY <1>13 DEF WrittenAt
<1> QED BY <1>7, <1>14 DEF t

(* What the search finds there.                                            *)
LEMMA RangeIsFound ==
  ASSUME NEW A, NEW s \in Seq(A), NEW a \in Seq(Digits), NEW b \in Seq(Digits),
         NEW L \in Nat, WrittenAt(s, L, a, b), NEW i \in 0 .. L,
         \A j \in i + 1 .. L : s[j] # "[",
         NEW c, c = L + Len(a) + Len(b) + 3, NEW u, u = Slice(s, L + 1, c)
  PROVE  /\ Find(s, "[", i) = L + 1 /\ Find(s, "]", L + 1) = c
         /\ LowOf(u) = a /\ HighOf(u) = b /\ Dash(u) > 0
<1> DEFINE m == Len(a)
           n == Len(b)
<1>1. m \in Nat /\ n \in Nat /\ c \in Nat /\ c = L + m + n + 3 /\ Len(s) \in Nat
  OBVIOUS
<1>2. /\ c <= Len(s) /\ s[L + 1] = "["
      /\ \A k \in 1 .. m : s[L + 1 + k] = a[k]
      /\ s[L + m + 2] = "-"
      /\ \A k \in 1 .. n : s[L + m + 2 + k] = b[k]
      /\ s[c] = "]"
  BY DEF WrittenAt
<1>3. (\A k \in 1 .. m : a[k] \in Digits) /\ \A k \in 1 .. n : b[k] \in Digits
  OBVIOUS
<1> HIDE DEF m, n
<1>4. Find(s, "[", i) = L + 1
  <2>1. L + 1 \in i + 1 .. Len(s) /\ (L + 1) - 1 = L
    BY <1>1, <1>2
  <2>2. FirstAt(s, "[", i, L + 1)
    BY <1>2, <2>1 DEF FirstAt
  <2> QED BY <1>1, <2>2, FindFirst
<1>5. ASSUME NEW j \in L + 2 .. c - 1
      PROVE  s[j] # "]" /\ (j < L + m + 2 => s[j] # "-")
  <2>1. CASE j < L + m + 2
    <3> DEFINE k == j - (L + 1)
    <3>1. k \in 1 .. m /\ L + 1 + k = j
      BY <1>1, <2>1
    <3> HIDE DEF k
    <3>2. s[j] = a[k] /\ a[k] \in Digits
      BY <1>2, <1>3, <3>1
    <3> QED BY <3>2, DigitsAreNoSigns
  <2>2. CASE j = L + m + 2
    <3>1. s[j] = "-" /\ ~(j < L + m + 2)
      BY <1>1, <1>2, <2>2
    <3> QED BY <3>1
  <2>3. CASE j > L + m + 2
    <3> DEFINE k == j - (L + m + 2)
    <3>1. k \in 1 .. n /\ L + m + 2 + k = j /\ ~(j < L + m + 2)
      BY <1>1, <2>3
    <3> HIDE DEF k
    <3>2. s[j] = b[k] /\ b[k] \in Digits
      BY <1>2, <1>3, <3>1
    <3> QED BY <3>1, <3>2, DigitsAreNoSigns
  <2>4. j \in Int /\ L + m + 2 \in Int
    BY <1>1
  <2> QED BY <2>1, <2>2, <2>3, <2>4
<1>6. Find(s, "]", L + 1) = c
  <2>1. c \in (L + 1) + 1 .. Len(s) /\ \A j \in (L + 1) + 1 .. c - 1 : j \in L + 2 .. c - 1
    BY <1>1, <1>2
  <2>2. FirstAt(s, "]", L + 1, c)
    BY <1>2, <1>5, <2>1 DEF FirstAt
  <2> QED BY <1>1, <2>2, FindFirst
<1>7. /\ u \in Seq(A) /\ Len(u) = m + n + 1
      /\ \A k \in 1 .. m + n + 1 : u[k] = s[L + 1 + k]
  <2> DEFINE v == L + 1
  <2>1. v \in Nat /\ v < c /\ c <= Len(s) + 1 /\ c - v - 1 = m + n + 1
    <3>1. v < c /\ c - v - 1 = m + n + 1
      BY <1>1, SMTT(60)
    <3>2. c <= Len(s) + 1
      BY <1>1, <1>2
    <3> QED BY <3>1, <3>2
  <2>2. u = SubSeq(s, v + 1, c - 1)
    BY DEF Slice
  <2> HIDE DEF v
  <2> DEFINE w == SubSeq(s, v + 1, c - 1)
  <2>5. /\ w \in Seq(A) /\ Len(w) = c - v - 1 /\ \A k \in 1 .. c - v - 1 : w[k] = s[v + k]
    BY <1>1, <2>1, SliceIs
  <2> HIDE DEF w
  <2>6. u = w
    BY <2>2 DEF w
  <2>3. /\ u \in Seq(A) /\ Len(u) = c - v - 1 /\ \A k \in 1 .. c - v - 1 : u[k] = s[v + k]
    BY <2>5, <2>6
  <2>4. /\ u \in Seq(A) /\ Len(u) = m + n + 1 /\ \A k \in 1 .. m + n + 1 : u[k] = s[v + k]
    BY <2>1, <2>3
  <2> QED BY <2>4 DEF v
<1>8. Dash(u) = m + 1
  <2>1. u[m + 1] = "-"
    <3>1. m + 1 \in 1 .. m + n + 1 /\ L + 1 + (m + 1) = L + m + 2
      BY <1>1
    <3> QED BY <1>2, <1>7, <3>1
  <2>2. ASSUME NEW k \in 1 .. m PROVE u[k] # "-"
    <3>1. k \in 1 .. m + n + 1 /\ L + 1 + k \in L + 2 .. c - 1 /\ L + 1 + k < L + m + 2
      BY <1>1
    <3> QED BY <1>5, <1>7, <3>1
  <2>3. m + 1 \in 0 + 1 .. Len(u) /\ \A k \in 0 + 1 .. (m + 1) - 1 : k \in 1 .. m
    BY <1>1, <1>7
  <2>4. FirstAt(u, "-", 0, m + 1)
    BY <2>1, <2>2, <2>3 DEF FirstAt
  <2>5. Len(u) \in Nat /\ 0 \in Nat
    BY <1>7
  <2> QED BY <2>4, <2>5, FindFirst DEF Dash
<1>9. LowOf(u) = a
  <2> DEFINE w == SubSeq(u, 1, m)
  <2>1. w \in Seq(A) /\ Len(w) = m /\ \A k \in 1 .. m : w[k] = u[k]
    <3>1. m <= Len(u)
      BY <1>1, <1>7
    <3> QED BY <1>1, <1>7, <3>1, HeadIs
  <2>2. LowOf(u) = w
    <3>1. Dash(u) - 1 = m
      BY <1>1, <1>8
    <3> QED BY <3>1 DEF LowOf
  <2> HIDE DEF w
  <2>3. ASSUME NEW k \in 1 .. m PROVE w[k] = a[k]
    <3>1. k \in 1 .. m + n + 1
      BY <1>1
    <3> QED BY <1>2, <1>7, <2>1, <3>1
  <2>4. w \in Seq(A \cup Digits) /\ a \in Seq(A \cup Digits) /\ Len(w) = Len(a)
    BY <2>1 DEF m
  <2>5. w = a
    BY <2>1, <2>3, <2>4, SameList
  <2> QED BY <2>2, <2>5
<1>10. HighOf(u) = b
  <2> DEFINE o == m + 1
             w == SubSeq(u, o + 1, Len(u))
  <2>1. w \in Seq(A) /\ Len(w) = n /\ \A k \in 1 .. n : w[k] = u[m + 1 + k]
    <3>1. o \in Nat /\ o <= Len(u) /\ Len(u) - o = n
      BY <1>1, <1>7
    <3>2. w \in Seq(A) /\ Len(w) = Len(u) - o /\ \A k \in 1 .. Len(u) - o : w[k] = u[o + k]
      <4> HIDE DEF o
      <4>1. u \in Seq(A) /\ o \in Nat /\ o <= Len(u)
        BY <1>7, <3>1
      <4> QED BY <4>1, TailIs
    <3> HIDE DEF w
    <3>3. \A k \in 1 .. n : w[k] = u[o + k]
      <4> HIDE DEF o
      <4> QED BY <3>1, <3>2
    <3>4. Len(w) = n
      <4> HIDE DEF o
      <4> QED BY <3>1, <3>2
    <3> QED BY <3>2, <3>3, <3>4
  <2>2. HighOf(u) = w
    BY <1>8 DEF HighOf
  <2> HIDE DEF w
  <2>3. ASSUME NEW k \in 1 .. n PROVE w[k] = b[k]
    <3>1. m + 1 + k \in 1 .. m + n + 1 /\ L + 1 + (m + 1 + k) = L + m + 2 + k
      BY <1>1
    <3>2. w[k] = s[L + 1 + (m + 1 + k)]
      BY <1>7, <2>1, <3>1
    <3> QED BY <1>2, <3>1, <3>2
  <2>4. w \in Seq(A \cup Digits) /\ b \in Seq(A \cup Digits) /\ Len(w) = Len(b)
    BY <2>1 DEF n
  <2>5. w = b
    BY <2>1, <2>3, <2>4, SameList
  <2> QED BY <2>2, <2>5
<1>11. Dash(u) > 0
  BY <1>1, <1>8
<1> QED BY <1>4, <1>6, <1>9, <1>10, <1>11

(* Texts put together in every way: the lists of a product.                *)
LEMMA ConcatAssoc ==
  ASSUME NEW A, NEW s \in Seq(A), NEW t \in Seq(A), NEW u \in Seq(A)
  PROVE  (s \o t) \o u = s \o (t \o u)
<1> DEFINE l == Len(s)
           m == Len(t)
           n == Len(u)
           v == s \o t
           w == t \o u
           x == v \o u
           y == s \o w
<1>1. l \in Nat /\ m \in Nat /\ n \in Nat
  OBVIOUS
<1>2. /\ v \in Seq(A) /\ Len(v) = l + m /\ (\A i \in 1 .. l : v[i] = s[i])
      /\ \A i \in 1 .. m : v[l + i] = t[i]
  BY ConcatIs
<1>3. /\ w \in Seq(A) /\ Len(w) = m + n /\ (\A i \in 1 .. m : w[i] = t[i])
      /\ \A i \in 1 .. n : w[m + i] = u[i]
  BY ConcatIs
<1> HIDE DEF v, w
<1>4. /\ x \in Seq(A) /\ Len(x) = l + m + n /\ (\A i \in 1 .. l + m : x[i] = v[i])
      /\ \A i \in 1 .. n : x[l + m + i] = u[i]
  <2>1. v \in Seq(A) /\ u \in Seq(A)
    BY <1>2
  <2>2. /\ x \in Seq(A) /\ Len(x) = Len(v) + Len(u) /\ (\A i \in 1 .. Len(v) : x[i] = v[i])
        /\ \A i \in 1 .. Len(u) : x[Len(v) + i] = u[i]
    BY <2>1, ConcatIs
  <2> HIDE DEF x
  <2> QED BY <1>1, <1>2, <2>2
<1>5. /\ y \in Seq(A) /\ Len(y) = l + (m + n) /\ (\A i \in 1 .. l : y[i] = s[i])
      /\ \A i \in 1 .. m + n : y[l + i] = w[i]
  <2>1. s \in Seq(A) /\ w \in Seq(A)
    BY <1>3
  <2>2. /\ y \in Seq(A) /\ Len(y) = Len(s) + Len(w) /\ (\A i \in 1 .. Len(s) : y[i] = s[i])
        /\ \A i \in 1 .. Len(w) : y[Len(s) + i] = w[i]
    BY <2>1, ConcatIs
  <2> HIDE DEF y
  <2> QED BY <1>1, <1>3, <2>2
<1> HIDE DEF x, y, l, m, n
<1>6. ASSUME NEW i \in 1 .. Len(x) PROVE x[i] = y[i]
  <2>1. CASE i <= l
    <3>1. i \in 1 .. l /\ i \in 1 .. l + m
      BY <1>1, <2>1
    <3> QED BY <1>2, <1>4, <1>5, <3>1
  <2>2. CASE l < i /\ i <= l + m
    <3> DEFINE k == i - l
    <3>1. k \in 1 .. m /\ k \in 1 .. m + n /\ l + k = i /\ i \in 1 .. l + m
      BY <1>1, <2>2
    <3> HIDE DEF k
    <3>2. x[i] = v[i] /\ v[i] = v[l + k]
      BY <1>4, <3>1
    <3>3. v[l + k] = t[k] /\ w[k] = t[k]
      BY <1>2, <1>3, <3>1
    <3>4. y[i] = w[k]
      <4>1. y[l + k] = w[k]
        BY <1>5, <3>1
      <4> QED BY <3>1, <4>1
    <3> QED BY <3>2, <3>3, <3>4
  <2>3. CASE l + m < i
    <3> DEFINE k == i - (l + m)
    <3>1. k \in 1 .. n /\ m + k \in 1 .. m + n /\ l + m + k = i /\ l + (m + k) = i
      BY <1>1, <1>4, <2>3
    <3> HIDE DEF k
    <3>2. x[i] = u[k]
      <4>1. x[l + m + k] = u[k]
        BY <1>4, <3>1
      <4> QED BY <3>1, <4>1
    <3>3. w[m + k] = u[k]
      BY <1>3, <3>1
    <3>4. y[i] = w[m + k]
      <4>1. y[l + (m + k)] = w[m + k]
        BY <1>5, <3>1
      <4> QED BY <3>1, <4>1
    <3> QED BY <3>2, <3>3, <3>4
  <2>4. i \in Int /\ l + m \in Int
    BY <1>1
  <2> QED BY <1>1, <2>1, <2>2, <2>3, <2>4
<1>7. Len(x) = Len(y)
  BY <1>1, <1>4, <1>5
<1>8. x = y
  BY <1>4, <1>5, <1>6, <1>7, SameList
<1> QED BY <1>8 DEF x, y, v, w

(* The same text after each string of a list.                              *)
Followed(ss, u) == [i \in 1 .. Len(ss) |-> ss[i] \o u]

LEMMA FollowedIs ==
  ASSUME NEW A, NEW ss \in Seq(Seq(A)), NEW u \in Seq(A)
  PROVE  /\ Followed(ss, u) \in Seq(Seq(A)) /\ Len(Followed(ss, u)) = Len(ss)
         /\ \A i \in 1 .. Len(ss) : Followed(ss, u)[i] = ss[i] \o u
<1>1. \A i \in 1 .. Len(ss) : ss[i] \o u \in Seq(A)
  OBVIOUS
<1>2. Followed(ss, u) \in [1 .. Len(ss) -> Seq(A)] /\ Len(ss) \in Nat
  BY <1>1 DEF Followed
<1>3. Followed(ss, u) \in Seq(Seq(A)) /\ Len(Followed(ss, u)) = Len(ss)
  BY <1>2, IsList
<1> QED BY <1>3 DEF Followed

LEMMA FollowedConcat ==
  ASSUME NEW A, NEW ss \in Seq(Seq(A)), NEW tt \in Seq(Seq(A)), NEW u \in Seq(A)
  PROVE  Followed(ss \o tt, u) = Followed(ss, u) \o Followed(tt, u)
<1> DEFINE l == Len(ss)
           m == Len(tt)
           v == ss \o tt
           x == Followed(ss, u)
           y == Followed(tt, u)
           z == Followed(v, u)
           w == x \o y
<1>1. l \in Nat /\ m \in Nat
  OBVIOUS
<1>2. /\ v \in Seq(Seq(A)) /\ Len(v) = l + m /\ (\A i \in 1 .. l : v[i] = ss[i])
      /\ \A i \in 1 .. m : v[l + i] = tt[i]
  BY ConcatIs
<1> HIDE DEF v
<1>3. /\ x \in Seq(Seq(A)) /\ Len(x) = l /\ \A i \in 1 .. l : x[i] = ss[i] \o u
  BY FollowedIs
<1>4. /\ y \in Seq(Seq(A)) /\ Len(y) = m /\ \A i \in 1 .. m : y[i] = tt[i] \o u
  BY FollowedIs
<1>5. /\ z \in Seq(Seq(A)) /\ Len(z) = l + m /\ \A i \in 1 .. l + m : z[i] = v[i] \o u
  <2>1. v \in Seq(Seq(A))
    BY <1>2
  <2>2. /\ z \in Seq(Seq(A)) /\ Len(z) = Len(v)
        /\ \A i \in 1 .. Len(v) : z[i] = v[i] \o u
    BY <2>1, FollowedIs
  <2> HIDE DEF z
  <2> QED BY <1>2, <2>2
<1> HIDE DEF x, y, z
<1>6. /\ w \in Seq(Seq(A)) /\ Len(w) = l + m /\ (\A i \in 1 .. l : w[i] = x[i])
      /\ \A i \in 1 .. m : w[l + i] = y[i]
  <2>1. x \in Seq(Seq(A)) /\ y \in Seq(Seq(A))
    BY <1>3, <1>4
  <2>2. /\ w \in Seq(Seq(A)) /\ Len(w) = Len(x) + Len(y)
        /\ (\A i \in 1 .. Len(x) : w[i] = x[i])
        /\ \A i \in 1 .. Len(y) : w[Len(x) + i] = y[i]
    BY <2>1, ConcatIs
  <2> HIDE DEF w
  <2> QED BY <1>3, <1>4, <2>2
<1> HIDE DEF w, l, m
<1>7. ASSUME NEW i \in 1 .. Len(z) PROVE z[i] = w[i]
  <2>1. CASE i <= l
    <3>1. i \in 1 .. l /\ i \in 1 .. l + m
      BY <1>1, <2>1
    <3> QED BY <1>2, <1>3, <1>5, <1>6, <3>1, ZenonT(60)
  <2>2. CASE ~(i <= l)
    <3> DEFINE k == i - l
    <3>1. k \in 1 .. m /\ l + k = i /\ i \in 1 .. l + m
      BY <1>1, <1>5, <2>2
    <3> HIDE DEF k
    <3> QED BY <1>2, <1>4, <1>5, <1>6, <3>1, ZenonT(60)
  <2> QED BY <2>1, <2>2
<1>8. z = w
  <2>1. Len(z) = Len(w)
    BY <1>5, <1>6
  <2> QED BY <1>5, <1>6, <1>7, <2>1, SameList
<1> QED BY <1>8 DEF z, w, x, y, v

EachFollowed(tt, ss, u, n) == \A i \in 1 .. n : tt[i] = Followed(ss[i], u)

(* A text after each string of several lists comes after each string of    *)
(* their concatenation.                                                    *)
LEMMA FollowedFlatten ==
  ASSUME NEW A, NEW n \in Nat, NEW u \in Seq(A),
         NEW ss, ss \in [1 .. n -> Seq(Seq(A))],
         NEW tt, tt \in [1 .. n -> Seq(Seq(A))],
         EachFollowed(tt, ss, u, n)
  PROVE  FlattenSeq(tt) = Followed(FlattenSeq(ss), u) /\ FlattenSeq(ss) \in Seq(Seq(A))
<1> DEFINE B == Seq(A)
<1>1. ss \in Seq(Seq(B)) /\ Len(ss) = n /\ tt \in Seq(Seq(B)) /\ Len(tt) = n
  BY IsList
<1>2. PICK f : Joining(f, B, ss)
  <2> HIDE DEF B
  <2> QED BY <1>1, JoinExists
<1>3. PICK g : Joining(g, B, tt)
  <2> HIDE DEF B
  <2> QED BY <1>1, JoinExists
<1>4. /\ f \in [0 .. n -> Seq(B)] /\ f[0] = <<>> /\ \A i \in 1 .. n : f[i] = f[i - 1] \o ss[i]
      /\ g \in [0 .. n -> Seq(B)] /\ g[0] = <<>> /\ \A i \in 1 .. n : g[i] = g[i - 1] \o tt[i]
  <2> HIDE DEF B
  <2> QED BY <1>1, <1>2, <1>3 DEF Joining
<1> DEFINE S == {i \in Nat : i <= n => g[i] = Followed(f[i], u)}
<1>a. \A i \in 1 .. n : tt[i] = Followed(ss[i], u)
  BY DEF EachFollowed
<1>5. 0 \in S
  <2>1. Followed(<<>>, u) = <<>>
    BY DEF Followed
  <2> QED BY <1>4, <2>1
<1>6. ASSUME NEW i \in S PROVE i + 1 \in S
  <2>1. i \in Nat /\ i + 1 \in Nat
    OBVIOUS
  <2>2. ASSUME i + 1 <= n PROVE g[i + 1] = Followed(f[i + 1], u)
    <3>1. i + 1 \in 1 .. n /\ i \in 0 .. n /\ (i + 1) - 1 = i /\ g[i] = Followed(f[i], u)
      BY <2>1, <2>2
    <3>2. f[i] \in Seq(B) /\ ss[i + 1] \in Seq(B)
      BY <1>4, <3>1
    <3>3. f[i + 1] = f[i] \o ss[i + 1] /\ g[i + 1] = g[i] \o tt[i + 1]
      BY <1>4, <3>1
    <3>4. Followed(f[i] \o ss[i + 1], u) = Followed(f[i], u) \o Followed(ss[i + 1], u)
      <4> DEFINE x == f[i]
                 y == ss[i + 1]
      <4>1. x \in Seq(Seq(A)) /\ y \in Seq(Seq(A))
        BY <3>2
      <4> HIDE DEF x, y
      <4>2. Followed(x \o y, u) = Followed(x, u) \o Followed(y, u)
        BY <4>1, FollowedConcat
      <4> QED BY <4>2 DEF x, y
    <3>5. tt[i + 1] = Followed(ss[i + 1], u)
      BY <1>a, <3>1
    <3> HIDE DEF S, B
    <3> QED BY <3>1, <3>3, <3>4, <3>5
  <2> QED BY <2>1, <2>2
<1>7. S = Nat
  <2> HIDE DEF S
  <2>1. S \in SUBSET Nat
    BY DEF S
  <2> QED BY <1>5, <1>6, <2>1, Induction
<1>8. g[n] = Followed(f[n], u)
  <2>1. n \in S
    <3> HIDE DEF S
    <3> QED BY <1>7
  <2> QED BY <2>1
<1>9. FlattenSeq(ss) = f[n] /\ FlattenSeq(tt) = g[n] /\ f[n] \in Seq(B)
  <2> HIDE DEF B
  <2> QED BY <1>1, <1>2, <1>3, FlattenIs
<1> QED BY <1>8, <1>9

(* A flattened list begins with what its first list begins with.           *)
LEMMA FlattenFirst ==
  ASSUME NEW B, NEW n \in Nat \ {0}, NEW ss, ss \in [1 .. n -> Seq(B)], Len(ss[1]) >= 1
  PROVE  Len(FlattenSeq(ss)) >= 1 /\ FlattenSeq(ss)[1] = ss[1][1]
<1>1. ss \in Seq(Seq(B)) /\ Len(ss) = n
  BY IsList
<1>2. PICK f : Joining(f, B, ss)
  BY <1>1, JoinExists
<1>4. f \in [0 .. n -> Seq(B)] /\ f[0] = <<>> /\ \A i \in 1 .. n : f[i] = f[i - 1] \o ss[i]
  BY <1>1, <1>2 DEF Joining
<1> DEFINE S == {i \in Nat : i + 1 <= n => Len(f[i + 1]) >= 1 /\ f[i + 1][1] = ss[1][1]}
<1>5. 0 \in S
  <2>1. 1 \in 1 .. n /\ 1 - 1 = 0 /\ ss[1] \in Seq(B)
    OBVIOUS
  <2>2. f[1] = <<>> \o ss[1]
    BY <1>4, <2>1
  <2>3. f[1] = ss[1]
    BY <2>1, <2>2
  <2> QED BY <2>3
<1>6. ASSUME NEW i \in S PROVE i + 1 \in S
  <2>1. i \in Nat /\ i + 1 \in Nat
    OBVIOUS
  <2>2. ASSUME i + 1 + 1 <= n PROVE Len(f[i + 1 + 1]) >= 1 /\ f[i + 1 + 1][1] = ss[1][1]
    <3>1. /\ i + 1 + 1 \in 1 .. n /\ i + 1 \in 0 .. n /\ (i + 1 + 1) - 1 = i + 1
          /\ Len(f[i + 1]) >= 1 /\ f[i + 1][1] = ss[1][1]
      BY <2>1, <2>2
    <3> DEFINE x == f[i + 1]
               y == ss[i + 1 + 1]
    <3>2. x \in Seq(B) /\ y \in Seq(B) /\ f[i + 1 + 1] = x \o y
      BY <1>4, <3>1
    <3> HIDE DEF y
    <3>3. Len(x) >= 1 /\ x[1] = ss[1][1]
      BY <3>1
    <3> HIDE DEF x
    <3>4. Len(x \o y) >= 1 /\ (x \o y)[1] = x[1]
      BY <3>2, <3>3
    <3> QED BY <3>2, <3>3, <3>4
  <2> QED BY <2>1, <2>2
<1>7. S = Nat
  <2> HIDE DEF S
  <2>1. S \in SUBSET Nat
    BY DEF S
  <2> QED BY <1>5, <1>6, <2>1, Induction
<1>8. n - 1 \in Nat /\ (n - 1) + 1 = n
  OBVIOUS
<1>9. n - 1 \in S
  <2> HIDE DEF S
  <2> QED BY <1>7, <1>8
<1>10. FlattenSeq(ss) = f[n]
  BY <1>1, <1>2, FlattenIs
<1>11. Len(f[n]) >= 1 /\ f[n][1] = ss[1][1]
  BY <1>8, <1>9
<1> QED BY <1>10, <1>11

(* Lists of one string each.                                               *)
LEMMA FlattenSingles ==
  ASSUME NEW B, NEW s \in Seq(B), NEW ss, ss = [i \in 1 .. Len(s) |-> <<s[i]>>]
  PROVE  FlattenSeq(ss) = s
<1> DEFINE n == Len(s)
<1>1. n \in Nat /\ \A i \in 1 .. n : <<s[i]>> \in Seq(B)
  OBVIOUS
<1>2. ss \in Seq(Seq(B)) /\ Len(ss) = n
  <2>1. ss \in [1 .. n -> Seq(B)]
    BY <1>1
  <2> QED BY <1>1, <2>1, IsList
<1>3. PICK f : Joining(f, B, ss)
  BY <1>2, JoinExists
<1>4. f \in [0 .. n -> Seq(B)] /\ f[0] = <<>> /\ \A i \in 1 .. n : f[i] = f[i - 1] \o ss[i]
  BY <1>2, <1>3 DEF Joining
<1> DEFINE S == {i \in Nat : i <= n => Len(f[i]) = i /\ \A k \in 1 .. i : f[i][k] = s[k]}
<1>5. 0 \in S
  BY <1>4
<1>6. ASSUME NEW i \in S PROVE i + 1 \in S
  <2>1. i \in Nat /\ i + 1 \in Nat
    OBVIOUS
  <2>2. ASSUME i + 1 <= n
        PROVE  Len(f[i + 1]) = i + 1 /\ \A k \in 1 .. i + 1 : f[i + 1][k] = s[k]
    <3> DEFINE x == f[i]
    <3>1. /\ i + 1 \in 1 .. n /\ i \in 0 .. n /\ (i + 1) - 1 = i
          /\ Len(x) = i /\ \A k \in 1 .. i : x[k] = s[k]
      BY <1>1, <2>1, <2>2
    <3>2. x \in Seq(B) /\ s[i + 1] \in B /\ f[i + 1] = x \o <<s[i + 1]>>
      <4>1. x \in Seq(B)
        BY <1>4, <3>1
      <4>2. s[i + 1] \in B
        BY <3>1
      <4>3. f[i + 1] = x \o ss[i + 1] /\ ss[i + 1] = <<s[i + 1]>>
        BY <1>4, <3>1
      <4> HIDE DEF x, S
      <4> QED BY <4>1, <4>2, <4>3
    <3> HIDE DEF x
    <3>3. x \o <<s[i + 1]>> = Append(x, s[i + 1])
      BY <3>2, AppendAfter
    <3>4. /\ Len(Append(x, s[i + 1])) = i + 1 /\ Append(x, s[i + 1])[i + 1] = s[i + 1]
          /\ \A k \in 1 .. i : Append(x, s[i + 1])[k] = s[k]
      BY <3>1, <3>2
    <3>5. \A k \in 1 .. i + 1 : k = i + 1 \/ k \in 1 .. i
      BY <2>1
    <3> HIDE DEF S, n
    <3> QED BY <3>2, <3>3, <3>4, <3>5
  <2> QED BY <2>1, <2>2
<1>7. S = Nat
  <2> HIDE DEF S
  <2>1. S \in SUBSET Nat
    BY DEF S
  <2> QED BY <1>5, <1>6, <2>1, Induction
<1>8. f[n] \in Seq(B) /\ Len(f[n]) = n /\ \A k \in 1 .. n : f[n][k] = s[k]
  <2>1. n \in S
    <3> HIDE DEF S
    <3> QED BY <1>1, <1>7
  <2> QED BY <1>1, <1>4, <2>1
<1>9. f[n] = s
  <2> DEFINE x == f[n]
  <2>1. x \in Seq(B) /\ Len(x) = Len(s) /\ \A k \in 1 .. Len(x) : x[k] = s[k]
    BY <1>8
  <2> HIDE DEF x
  <2>2. x = s
    BY <2>1, SameList
  <2> QED BY <2>2 DEF x
<1>10. FlattenSeq(ss) = f[n]
  BY <1>2, <1>3, FlattenIs
<1> QED BY <1>9, <1>10

(* From the i-th to the n-th character of s, a bracket that opens is closed *)
(* there, and there is no range in between.                                *)
Harmless(s, i, n) ==
  \A j \in i + 1 .. n :
    s[j] = "[" => \E c \in j + 1 .. n : FirstAt(s, "]", j, c) /\ ~IsRange(Slice(s, j, c))

Legible(A) == Digits \subseteq A /\ "[" \in A /\ "]" \in A /\ "-" \in A

(* A text without ranges and with its brackets closed, or a range; zeros   *)
(* before its first number, when there are any, say how wide the others are.*)
PartRecords(A) ==
  [range : {FALSE}, text : {t \in Seq(A) : Harmless(t, 0, Len(t))}]
    \cup {p \in [range : {TRUE}, lo : Nat, hi : Nat, width : Nat] :
            p.width = 0 \/ p.width > Len(Decimal[p.lo])}

Backwards(p) == p.range /\ p.lo > p.hi

LEMMA PartIs ==
  ASSUME NEW A, NEW p \in PartRecords(A)
  PROVE  \/ /\ ~p.range /\ p.text \in Seq(A) /\ Harmless(p.text, 0, Len(p.text))
         \/ /\ p.range /\ p.lo \in Nat /\ p.hi \in Nat /\ p.width \in Nat
            /\ p.width = 0 \/ p.width > Len(Decimal[p.lo])
<1>1. CASE p \in [range : {FALSE}, text : {t \in Seq(A) : Harmless(t, 0, Len(t))}]
  BY <1>1
<1>2. CASE p \in {q \in [range : {TRUE}, lo : Nat, hi : Nat, width : Nat] :
                    q.width = 0 \/ q.width > Len(Decimal[q.lo])}
  BY <1>2
<1> QED BY <1>1, <1>2 DEF PartRecords

LEMMA PaddedText ==
  ASSUME NEW A, Legible(A), NEW n \in Nat, NEW width \in Nat
  PROVE  Padded(n, width) \in Seq(A) /\ Decimal[n] \in Seq(A)
<1>1. Padded(n, width) \in Seq(Digits) /\ Decimal[n] \in Seq(Digits)
  BY PaddedIs, DecimalsAre DEF Written
<1>2. \A s \in Seq(Digits) : s \in Seq(A)
  BY DEF Legible
<1> QED BY <1>1, <1>2

LEMMA TextIs ==
  ASSUME NEW A, Legible(A), NEW p \in PartRecords(A)
  PROVE  Text(p) \in Seq(A)
<1>1. CASE p.range
  <2> DEFINE a == Padded(p.lo, p.width)
             b == Decimal[p.hi]
  <2>1. p.lo \in Nat /\ p.hi \in Nat /\ p.width \in Nat
    BY <1>1, PartIs
  <2>2. a \in Seq(A) /\ b \in Seq(A) /\ "[" \in A /\ "-" \in A /\ "]" \in A
    BY <2>1, PaddedText DEF Legible
  <2>3. Text(p) = Ranged(a, b)
    BY <1>1 DEF Text, Ranged
  <2> HIDE DEF a, b
  <2> QED BY <2>2, <2>3, RangeIsWritten
<1>2. CASE ~p.range
  BY <1>2, PartIs DEF Text
<1> QED BY <1>1, <1>2

LEMMA NamesAre ==
  ASSUME NEW A, Legible(A), NEW p \in PartRecords(A)
  PROVE  /\ Names(p) \in Seq(Seq(A)) /\ (~Backwards(p) => Len(Names(p)) >= 1)
         /\ ~p.range => Names(p) = <<p.text>>
         /\ p.range /\ p.lo <= p.hi =>
              /\ Len(Names(p)) = p.hi - p.lo + 1
              /\ \A v \in 1 .. p.hi - p.lo + 1 : Names(p)[v] = Padded(p.lo + v - 1, p.width)
<1>1. CASE p.range
  <2>1. p.lo \in Nat /\ p.hi \in Nat /\ p.width \in Nat
    BY <1>1, PartIs
  <2> DEFINE lo == p.lo
             hi == p.hi
             width == p.width
             n == IF lo <= hi THEN hi - lo + 1 ELSE 0
             f == [v \in 1 .. n |-> Padded(lo + v - 1, width)]
  <2>2. n \in Nat /\ 1 .. n = 1 .. hi - lo + 1
    BY <2>1
  <2>3. Names(p) = f
    BY <1>1, <2>2 DEF Names
  <2>4. f \in [1 .. n -> Seq(A)]
    <3>1. ASSUME NEW v \in 1 .. n PROVE Padded(lo + v - 1, width) \in Seq(A)
      <4>1. lo + v - 1 \in Nat /\ width \in Nat
        BY <2>1, <2>2
      <4> QED BY <4>1, PaddedText
    <3> HIDE DEF n
    <3> QED BY <3>1
  <2>5. f \in Seq(Seq(A)) /\ Len(f) = n
    <3> HIDE DEF f, n
    <3> QED BY <2>2, <2>4, IsList
  <2>6. lo <= hi => n = hi - lo + 1 /\ n >= 1
    BY <2>1
  <2>7. \A v \in 1 .. n : f[v] = Padded(lo + v - 1, width)
    OBVIOUS
  <2>8. lo <= hi => \A v \in 1 .. hi - lo + 1 : f[v] = Padded(lo + v - 1, width)
    BY <2>2, <2>7
  <2>9. ~Backwards(p) => lo <= hi
    BY <1>1, <2>1 DEF Backwards
  <2> HIDE DEF f, n
  <2> QED BY <1>1, <2>3, <2>5, <2>6, <2>8, <2>9
<1>2. CASE ~p.range
  <2>1. p.text \in Seq(A) /\ Names(p) = <<p.text>>
    BY <1>2, PartIs DEF Names
  <2> DEFINE t == p.text
  <2>2. <<t>> \in Seq(Seq(A)) /\ Len(<<t>>) = 1
    BY <2>1
  <2> QED BY <1>2, <2>1, <2>2
<1> QED BY <1>1, <1>2

(* Every string of one list before every string of another.                *)
WithEach(x, more, u)     == [j \in 1 .. Len(more) |-> x \o more[j] \o u]
AllWith(names, more, u) ==
  FlattenSeq([i \in 1 .. Len(names) |-> WithEach(names[i], more, u)])

LEMMA TimesIs ==
  ASSUME NEW A, NEW names \in Seq(Seq(A)), NEW more \in Seq(Seq(A))
  PROVE  /\ Times(names, more) \in Seq(Seq(A))
         /\ \A u \in Seq(A) : Followed(Times(names, more), u) = AllWith(names, more, u)
         /\ Len(names) >= 1 /\ Len(more) >= 1 =>
              Len(Times(names, more)) >= 1 /\ Times(names, more)[1] = names[1] \o more[1]
<1> DEFINE n == Len(names)
           m == Len(more)
           row(i) == [j \in 1 .. m |-> names[i] \o more[j]]
           ss == [i \in 1 .. n |-> row(i)]
<1>1. n \in Nat /\ m \in Nat
  OBVIOUS
<1>2. ASSUME NEW i \in 1 .. n
      PROVE  row(i) \in Seq(Seq(A)) /\ Len(row(i)) = m
             /\ \A j \in 1 .. m : row(i)[j] = names[i] \o more[j]
  <2>1. \A j \in 1 .. m : names[i] \o more[j] \in Seq(A)
    OBVIOUS
  <2>2. row(i) \in [1 .. m -> Seq(A)]
    BY <2>1
  <2>3. \A j \in 1 .. m : row(i)[j] = names[i] \o more[j]
    OBVIOUS
  <2> HIDE DEF row, m
  <2> QED BY <1>1, <2>2, <2>3, IsList
<1> HIDE DEF row
<1>3. ss \in [1 .. n -> Seq(Seq(A))]
  BY <1>2
<1>4. Times(names, more) = FlattenSeq(ss)
  BY DEF Times, row
<1>5. ASSUME NEW u \in Seq(A)
      PROVE  /\ FlattenSeq(ss) \in Seq(Seq(A))
             /\ Followed(FlattenSeq(ss), u) = AllWith(names, more, u)
  <2> DEFINE tt == [i \in 1 .. n |-> Followed(row(i), u)]
  <2>1. tt \in [1 .. n -> Seq(Seq(A))]
    <3>1. \A i \in 1 .. n : Followed(row(i), u) \in Seq(Seq(A))
      BY <1>2, FollowedIs
    <3> QED BY <3>1
  <2>2. EachFollowed(tt, ss, u, n)
    BY DEF EachFollowed
  <2>3. FlattenSeq(tt) = Followed(FlattenSeq(ss), u) /\ FlattenSeq(ss) \in Seq(Seq(A))
    <3> HIDE DEF tt, ss, n
    <3> QED BY <1>1, <1>3, <2>1, <2>2, FollowedFlatten
  <2>4. ASSUME NEW i \in 1 .. n
        PROVE  Followed(row(i), u) = WithEach(names[i], more, u)
    <3>1. Followed(row(i), u) = [j \in 1 .. m |-> row(i)[j] \o u]
      BY <1>2 DEF Followed
    <3>2. \A j \in 1 .. m : row(i)[j] \o u = names[i] \o more[j] \o u
      BY <1>2
    <3> QED BY <3>1, <3>2 DEF WithEach
  <2>5. tt = [i \in 1 .. n |-> WithEach(names[i], more, u)]
    <3> HIDE DEF m, n
    <3> QED BY <2>4
  <2> HIDE DEF tt, ss
  <2> QED BY <2>3, <2>5 DEF AllWith
<1>6. FlattenSeq(ss) \in Seq(Seq(A))
  <2>1. <<>> \in Seq(A)
    OBVIOUS
  <2> HIDE DEF ss
  <2> QED BY <1>5, <2>1
<1>7. ASSUME n >= 1, m >= 1
      PROVE  Len(FlattenSeq(ss)) >= 1 /\ FlattenSeq(ss)[1] = names[1] \o more[1]
  <2>1. n \in Nat \ {0} /\ 1 \in 1 .. n /\ 1 \in 1 .. m
    BY <1>1, <1>7
  <2>2. ss[1] = row(1) /\ Len(row(1)) >= 1 /\ row(1)[1] = names[1] \o more[1]
    BY <1>2, <1>7, <2>1
  <2> DEFINE B == Seq(A)
  <2>3. ss \in [1 .. n -> Seq(B)] /\ Len(ss[1]) >= 1
    BY <1>3, <2>2
  <2> HIDE DEF ss, n, B
  <2>4. Len(FlattenSeq(ss)) >= 1 /\ FlattenSeq(ss)[1] = ss[1][1]
    BY <2>1, <2>3, FlattenFirst
  <2> QED BY <2>2, <2>4
<1> HIDE DEF ss
<1> QED BY <1>4, <1>5, <1>6, <1>7

LEMMA TimesText ==
  ASSUME NEW A, NEW names \in Seq(Seq(A)), NEW t \in Seq(A)
  PROVE  Times(names, <<t>>) = Followed(names, t)
<1> DEFINE s == Followed(names, t)
           n == Len(names)
<1>1. s \in Seq(Seq(A)) /\ Len(s) = n /\ \A i \in 1 .. n : s[i] = names[i] \o t
  BY FollowedIs
<1> DEFINE ss == [i \in 1 .. n |-> <<s[i]>>]
<1> HIDE DEF s
<1>2. Times(names, <<t>>) = FlattenSeq(ss)
  <2>1. \A i \in 1 .. n : [j \in 1 .. Len(<<t>>) |-> names[i] \o <<t>>[j]] = <<s[i]>>
    BY <1>1, SMTT(60)
  <2>2. [i \in 1 .. n |-> [j \in 1 .. Len(<<t>>) |-> names[i] \o <<t>>[j]]] = ss
    BY <2>1
  <2> HIDE DEF ss
  <2> QED BY <2>2 DEF Times
<1>3. ss = [i \in 1 .. Len(s) |-> <<s[i]>>]
  BY <1>1
<1> HIDE DEF ss
<1>4. FlattenSeq(ss) = s
  BY <1>1, <1>3, FlattenSingles
<1> QED BY <1>2, <1>4 DEF s

(* h[k] is the product of the first k parts.                               *)
Products(h, A, ps) ==
  /\ h \in [0 .. Len(ps) -> Seq(Seq(A))] /\ h[0] = <<<<>>>>
  /\ \A k \in 1 .. Len(ps) : h[k] = Times(h[k - 1], Names(ps[k]))
  /\ Product(ps) = h[Len(ps)]

LEMMA ProductsExist ==
  ASSUME NEW A, Legible(A), NEW ps \in Seq(PartRecords(A))
  PROVE  \E h : Products(h, A, ps)
<1> DEFINE n == Len(ps)
           B == Seq(Seq(A))
           b == <<<<>>>>
           body(v) == [k \in 0 .. n |-> IF k = 0 THEN <<<<>>>> ELSE Times(v[k - 1], Names(ps[k]))]
           G == [q \in Nat \X B |-> IF q[1] \in 1 .. n THEN Times(q[2], Names(ps[q[1]])) ELSE b]
           v == CHOOSE v : v = body(v)
<1>1. n \in Nat /\ b \in B /\ \A k \in 1 .. n : Names(ps[k]) \in B
  BY NamesAre
<1>2. G \in [Nat \X B -> B]
  <2>1. ASSUME NEW q \in Nat \X B
        PROVE  (IF q[1] \in 1 .. n THEN Times(q[2], Names(ps[q[1]])) ELSE b) \in B
    <3>1. q[2] \in B
      OBVIOUS
    <3>2. CASE q[1] \in 1 .. n
      <4>1. Names(ps[q[1]]) \in B
        BY <1>1, <3>2
      <4> QED BY <3>1, <3>2, <4>1, TimesIs
    <3>3. CASE q[1] \notin 1 .. n
      BY <1>1, <3>3
    <3> QED BY <3>2, <3>3
  <2> HIDE DEF B, b
  <2> QED BY <2>1
<1>3. PICK h \in [0 .. n -> B] : h[0] = b /\ \A i \in 1 .. n : h[i] = G[<<i, h[i - 1]>>]
  <2> HIDE DEF G, n, B, b
  <2>1. \E h : Steps(h, B, b, n, G)
    BY <1>1, <1>2, StepsExist
  <2> QED BY <2>1 DEF Steps
<1>4. ASSUME NEW i \in 1 .. n PROVE h[i] = Times(h[i - 1], Names(ps[i]))
  <2>1. i - 1 \in 0 .. n /\ i \in Nat
    BY <1>1
  <2>2. h[i - 1] \in B
    BY <1>3, <2>1
  <2>3. G[<<i, h[i - 1]>>] = Times(h[i - 1], Names(ps[i]))
    <3> HIDE DEF B, b
    <3> QED BY <2>1, <2>2
  <2>4. h[i] = G[<<i, h[i - 1]>>]
    <3> HIDE DEF G
    <3> QED BY <1>3
  <2> QED BY <2>3, <2>4
<1> HIDE DEF G
<1>5. h = body(h)
  <2>1. ASSUME NEW i \in 0 .. n PROVE h[i] = body(h)[i]
    <3>1. CASE i = 0
      BY <1>3, <3>1
    <3>2. CASE i # 0
      <4>1. i \in 1 .. n
        BY <1>1, <3>2
      <4> QED BY <1>4, <3>2, <4>1
    <3> QED BY <3>1, <3>2
  <2> HIDE DEF B, b
  <2>2. h = [i \in 0 .. n |-> h[i]]
    BY <1>3
  <2>3. body(h) = [i \in 0 .. n |-> body(h)[i]]
    OBVIOUS
  <2> HIDE DEF body
  <2> QED BY <2>1, <2>2, <2>3
<1>6. v = body(v)
  <2> HIDE DEF body
  <2> QED BY <1>5
<1>7. Product(ps) = v[n]
  BY DEF Product
<1> HIDE DEF v
<1>8. v[0] = b /\ \A i \in 1 .. n : v[i] = Times(v[i - 1], Names(ps[i]))
  <2>1. \A i \in 0 .. n : v[i] = body(v)[i]
    <3> HIDE DEF body
    <3> QED BY <1>6
  <2>2. v[0] = b
    BY <1>1, <2>1
  <2>3. ASSUME NEW i \in 1 .. n PROVE v[i] = Times(v[i - 1], Names(ps[i]))
    <3>1. i \in 0 .. n /\ i # 0
      BY <1>1
    <3>2. v[i] = body(v)[i]
      BY <2>1, <3>1
    <3> QED BY <3>1, <3>2
  <2> QED BY <2>2, <2>3
<1> HIDE DEF body, b, B
<1> DEFINE S == {i \in Nat : i <= n => v[i] = h[i]}
<1>9. 0 \in S
  BY <1>3, <1>8
<1>10. ASSUME NEW i \in S PROVE i + 1 \in S
  <2>1. i \in Nat
    OBVIOUS
  <2>2. ASSUME i + 1 <= n PROVE v[i + 1] = h[i + 1]
    <3>1. i + 1 \in 1 .. n /\ (i + 1) - 1 = i /\ v[i] = h[i]
      BY <1>1, <2>1, <2>2
    <3> QED BY <1>4, <1>8, <3>1
  <2> QED BY <2>1, <2>2
<1>11. S = Nat
  <2> HIDE DEF S
  <2>1. S \in SUBSET Nat
    BY DEF S
  <2> QED BY <1>9, <1>10, <2>1, Induction
<1>12. v[n] = h[n]
  <2>1. n \in S
    <3> HIDE DEF S
    <3> QED BY <1>1, <1>11
  <2> QED BY <2>1
<1> HIDE DEF S
<1>13. Products(h, A, ps)
  <2>1. h \in [0 .. Len(ps) -> Seq(Seq(A))] /\ h[0] = <<<<>>>>
    BY <1>3 DEF B, b
  <2> QED BY <1>4, <1>7, <1>12, <2>1 DEF Products
<1> QED BY <1>13

(* t[k] is the text of the parts after the k-th.                           *)
Tails(t, A, ps) ==
  /\ t \in [0 .. Len(ps) -> Seq(A)] /\ t[Len(ps)] = <<>>
  /\ \A k \in 1 .. Len(ps) : t[k - 1] = Text(ps[k]) \o t[k]
  /\ t[0] = FlattenSeq([i \in 1 .. Len(ps) |-> Text(ps[i])])

LEMMA TailsExist ==
  ASSUME NEW A, Legible(A), NEW ps \in Seq(PartRecords(A))
  PROVE  \E t : Tails(t, A, ps)
<1> DEFINE n == Len(ps)
           B == Seq(A)
           txt(k) == Text(ps[k])
           b == <<>>
           G == [q \in Nat \X B |-> IF q[1] \in 1 .. n THEN txt(n + 1 - q[1]) \o q[2] ELSE b]
<1>1. n \in Nat /\ b \in B /\ \A k \in 1 .. n : txt(k) \in B
  BY TextIs
<1> HIDE DEF txt
<1>2. G \in [Nat \X B -> B]
  <2>1. ASSUME NEW q \in Nat \X B
        PROVE  (IF q[1] \in 1 .. n THEN txt(n + 1 - q[1]) \o q[2] ELSE b) \in B
    <3>1. CASE q[1] \in 1 .. n
      <4>1. n + 1 - q[1] \in 1 .. n
        BY <1>1, <3>1
      <4>2. txt(n + 1 - q[1]) \in B /\ q[2] \in B
        BY <1>1, <4>1
      <4> QED BY <3>1, <4>2
    <3>2. CASE q[1] \notin 1 .. n
      BY <1>1, <3>2
    <3> QED BY <3>1, <3>2
  <2> HIDE DEF B, b
  <2> QED BY <2>1
<1>3. PICK h \in [0 .. n -> B] : h[0] = b /\ \A i \in 1 .. n : h[i] = G[<<i, h[i - 1]>>]
  <2> HIDE DEF G, n, B, b
  <2>1. \E h : Steps(h, B, b, n, G)
    BY <1>1, <1>2, StepsExist
  <2> QED BY <2>1 DEF Steps
<1>4. ASSUME NEW i \in 1 .. n PROVE h[i] = txt(n + 1 - i) \o h[i - 1]
  <2>1. i - 1 \in 0 .. n /\ i \in Nat
    BY <1>1
  <2>2. h[i - 1] \in B
    BY <1>3, <2>1
  <2>3. G[<<i, h[i - 1]>>] = txt(n + 1 - i) \o h[i - 1]
    <3> HIDE DEF B, b
    <3> QED BY <2>1, <2>2
  <2>4. h[i] = G[<<i, h[i - 1]>>]
    <3> HIDE DEF G
    <3> QED BY <1>3
  <2> QED BY <2>3, <2>4
<1> HIDE DEF G
<1> DEFINE t == [k \in 0 .. n |-> h[n - k]]
<1>5. t \in [0 .. n -> B] /\ t[n] = <<>>
  <2>1. \A k \in 0 .. n : n - k \in 0 .. n /\ h[n - k] \in B
    BY <1>1, <1>3, SMTT(60)
  <2>2. n \in 0 .. n /\ n - n = 0
    BY <1>1
  <2> QED BY <1>3, <2>1, <2>2
<1>6. ASSUME NEW k \in 1 .. n PROVE t[k - 1] = txt(k) \o t[k]
  <2> DEFINE i == n - (k - 1)
  <2>1. i \in 1 .. n /\ n + 1 - i = k /\ i - 1 = n - k /\ k - 1 \in 0 .. n /\ k \in 0 .. n
    BY <1>1
  <2>2. t[k - 1] = h[i] /\ t[k] = h[n - k]
    BY <2>1
  <2> HIDE DEF i
  <2> QED BY <1>4, <2>1, <2>2
<1> HIDE DEF t
<1> DEFINE ss == [i \in 1 .. n |-> txt(i)]
<1>7. ss \in Seq(Seq(A)) /\ Len(ss) = n
  <2>1. ss \in [1 .. n -> Seq(A)]
    BY <1>1
  <2> HIDE DEF ss
  <2> QED BY <1>1, <2>1, IsList
<1>8. PICK f : Joining(f, A, ss)
  <2> HIDE DEF ss
  <2> QED BY <1>7, JoinExists
<1>9. f \in [0 .. n -> B] /\ f[0] = <<>> /\ \A i \in 1 .. n : f[i] = f[i - 1] \o txt(i)
  <2>1. \A i \in 1 .. n : ss[i] = txt(i)
    OBVIOUS
  <2> HIDE DEF ss, n
  <2> QED BY <1>7, <1>8, <2>1 DEF Joining
<1>10. FlattenSeq(ss) = f[n]
  <2> HIDE DEF ss
  <2> QED BY <1>7, <1>8, FlattenIs
<1> HIDE DEF ss
<1> DEFINE all(i) == f[i] \o t[i]
           S == {i \in Nat : i <= n => all(i) = t[0]}
<1>11. 0 \in S
  <2>1. t[0] \in Seq(A) /\ 0 \in 0 .. n
    BY <1>1, <1>5
  <2>2. <<>> \o t[0] = t[0]
    BY <2>1
  <2> QED BY <1>9, <2>2
<1>12. ASSUME NEW i \in S PROVE i + 1 \in S
  <2>1. i \in Nat
    OBVIOUS
  <2>2. ASSUME i + 1 <= n PROVE all(i + 1) = t[0]
    <3>1. i + 1 \in 1 .. n /\ (i + 1) - 1 = i /\ all(i) = t[0] /\ i \in 0 .. n
          /\ i + 1 \in 0 .. n
      <4> HIDE DEF all
      <4> QED BY <1>1, <2>1, <2>2
    <3> DEFINE x == f[i]
               y == txt(i + 1)
               z == t[i + 1]
    <3>2. x \in Seq(A) /\ y \in Seq(A) /\ z \in Seq(A)
      BY <1>1, <1>5, <1>9, <3>1
    <3>3. f[i + 1] = x \o y /\ t[i] = y \o z
      BY <1>6, <1>9, <3>1
    <3> HIDE DEF y, z
    <3>4. x \o t[i] = t[0]
      BY <3>1
    <3> HIDE DEF x, S
    <3>5. (x \o y) \o z = x \o (y \o z)
      BY <3>2, ConcatAssoc, SMTT(60)
    <3>6. f[i + 1] \o z = t[0]
      BY <3>3, <3>4, <3>5
    <3> QED BY <3>6 DEF z
  <2> HIDE DEF all
  <2> QED BY <2>1, <2>2
<1>13. S = Nat
  <2> HIDE DEF S
  <2>1. S \in SUBSET Nat
    BY DEF S
  <2> QED BY <1>11, <1>12, <2>1, Induction
<1>14. f[n] \o t[n] = t[0]
  <2>1. n \in S
    <3> HIDE DEF S
    <3> QED BY <1>1, <1>13
  <2>2. all(n) = t[0]
    <3> HIDE DEF all
    <3> QED BY <1>1, <2>1
  <2> QED BY <2>2
<1>15. f[n] = t[0]
  <2>1. f[n] \in Seq(A)
    BY <1>1, <1>9
  <2>2. f[n] \o <<>> = f[n]
    BY <2>1
  <2> QED BY <1>5, <1>14, <2>2
<1>16. FlattenSeq([i \in 1 .. Len(ps) |-> Text(ps[i])]) = t[0]
  BY <1>10, <1>15 DEF ss, txt
<1>17. Tails(t, A, ps)
  <2>1. \A k \in 1 .. Len(ps) : t[k - 1] = Text(ps[k]) \o t[k]
    BY <1>6 DEF txt
  <2>2. t \in [0 .. Len(ps) -> Seq(A)] /\ t[Len(ps)] = <<>>
    BY <1>5
  <2> QED BY <1>16, <2>1, <2>2 DEF Tails
<1> QED BY <1>17

(* The first k parts are expanded, none of them inverted, and the search   *)
(* is where no range is left before the next part.                         *)
ExpandedTo(ps, h, t, k, names, i) ==
  /\ names = Followed(h[k], t[k]) /\ Len(h[k]) >= 1
  /\ \A m \in 1 .. k : ~Backwards(ps[m])
  /\ i <= Len(h[k][1]) /\ Harmless(names[1], i, Len(h[k][1]))

(* What holds of each state of the expansion.                              *)
RangeInv(A) ==
  /\ parts \in Seq(PartRecords(A)) /\ from \in Nat
  /\ end # "" => RangesExpand
  /\ end = "" =>
       \E h, t : /\ Products(h, A, parts) /\ Tails(t, A, parts)
                 /\ \E k \in 0 .. Len(parts) : ExpandedTo(parts, h, t, k, results, from)

(* The names so far are those of p, each with u after it; r is the first,  *)
(* and L the length of what is expanded of it.                             *)
Lists(A, p, u, names, i, L, r) ==
  /\ p \in Seq(Seq(A)) /\ u \in Seq(A) /\ Len(p) >= 1
  /\ names \in Seq(Seq(A)) /\ Len(names) = Len(p)
  /\ \A n \in 1 .. Len(p) : p[n] \in Seq(A) /\ names[n] = p[n] \o u
  /\ r \in Seq(A) /\ L \in Nat /\ Len(r) = L + Len(u) /\ Len(u) \in Nat
  /\ L = Len(p[1])
  /\ \A j \in 1 .. Len(u) : r[L + j] = u[j]
  /\ i <= L /\ Harmless(r, i, L)

LEMMA ListsAre ==
  ASSUME NEW A, NEW ps, Len(ps) \in Nat, NEW h, Products(h, A, ps), NEW t, Tails(t, A, ps),
         NEW k \in 0 .. Len(ps), NEW names, NEW i \in Nat, ExpandedTo(ps, h, t, k, names, i)
  PROVE  Lists(A, h[k], t[k], names, i, Len(h[k][1]), names[1])
<1> DEFINE p == h[k]
           u == t[k]
           L == Len(h[k][1])
           r == names[1]
<1>1. p \in Seq(Seq(A)) /\ u \in Seq(A)
  BY DEF Products, Tails
<1>2. names = Followed(p, u) /\ Len(p) >= 1 /\ i <= Len(p[1]) /\ Harmless(names[1], i, Len(p[1]))
  BY DEF ExpandedTo
<1> HIDE DEF p, u, L, r
<1>3. /\ names \in Seq(Seq(A)) /\ Len(names) = Len(p)
      /\ \A n \in 1 .. Len(p) : names[n] = p[n] \o u
  BY <1>1, <1>2, FollowedIs
<1>4. 1 \in 1 .. Len(p) /\ p[1] \in Seq(A) /\ \A n \in 1 .. Len(p) : p[n] \in Seq(A)
  BY <1>1, <1>2
<1>5. r = p[1] \o u /\ L = Len(p[1])
  BY <1>3, <1>4 DEF p, L, r
<1> DEFINE q == p[1]
<1>6. q \in Seq(A)
  BY <1>4
<1>7. r = q \o u
  BY <1>5
<1> HIDE DEF q
<1>8. /\ r \in Seq(A) /\ Len(q) \in Nat /\ Len(u) \in Nat /\ Len(r) = Len(q) + Len(u)
      /\ \A j \in 1 .. Len(q) : r[j] = q[j]
      /\ \A j \in 1 .. Len(u) : r[Len(q) + j] = u[j]
  BY <1>1, <1>6, <1>7, ConcatIs
<1>9. L = Len(q)
  BY <1>5 DEF q
<1>10. i <= L /\ Harmless(r, i, L)
  BY <1>2, <1>5 DEF r
<1>11. Lists(A, p, u, names, i, L, r)
  BY <1>1, <1>2, <1>3, <1>4, <1>5, <1>8, <1>9, <1>10 DEF Lists
<1> QED BY <1>11 DEF p, u, L, r

(* A text without ranges after a text without ranges.                      *)
LEMMA HarmlessConcat ==
  ASSUME NEW A, NEW s \in Seq(A), NEW q \in Seq(A), NEW L \in Nat, L + Len(q) <= Len(s),
         \A j \in 1 .. Len(q) : s[L + j] = q[j],
         NEW i \in Nat, Harmless(s, i, L), Harmless(q, 0, Len(q))
  PROVE  Harmless(s, i, L + Len(q))
<1> DEFINE n == Len(q)
<1>1. n \in Nat /\ Len(s) \in Nat /\ L + n <= Len(s) /\ \A j \in 1 .. n : s[L + j] = q[j]
  OBVIOUS
<1> HIDE DEF n
<1> SUFFICES ASSUME NEW j \in i + 1 .. L + n, s[j] = "["
             PROVE  \E c \in j + 1 .. L + n : FirstAt(s, "]", j, c) /\ ~IsRange(Slice(s, j, c))
  BY DEF Harmless, n
<1>2. CASE j <= L
  <2>1. j \in i + 1 .. L
    BY <1>1, <1>2
  <2>2. PICK c \in j + 1 .. L : FirstAt(s, "]", j, c) /\ ~IsRange(Slice(s, j, c))
    BY <2>1 DEF Harmless
  <2>3. c \in j + 1 .. L + n
    BY <1>1
  <2> QED BY <2>2, <2>3
<1>3. CASE ~(j <= L)
  <2> DEFINE b == j - L
  <2>1. b \in 0 + 1 .. n /\ b \in 1 .. n /\ L + b = j
    BY <1>1, <1>3
  <2> HIDE DEF b
  <2>2. q[b] = "["
    BY <1>1, <2>1
  <2>3. PICK e \in b + 1 .. n : FirstAt(q, "]", b, e) /\ ~IsRange(Slice(q, b, e))
    BY <2>1, <2>2 DEF Harmless, n
  <2> DEFINE c == L + e
  <2>4. /\ e \in b + 1 .. n /\ q[e] = "]" /\ \A m \in b + 1 .. e - 1 : q[m] # "]"
    BY <2>3 DEF FirstAt
  <2>5. c \in j + 1 .. L + n /\ c \in j + 1 .. Len(s) /\ s[c] = "]"
    <3>1. e \in 1 .. n /\ c \in j + 1 .. L + n /\ c \in j + 1 .. Len(s)
      BY <1>1, <2>1, <2>4
    <3> QED BY <1>1, <2>4, <3>1
  <2>6. ASSUME NEW m \in j + 1 .. c - 1 PROVE s[m] # "]"
    <3> DEFINE x == m - L
    <3>1. x \in b + 1 .. e - 1 /\ x \in 1 .. n /\ L + x = m
      BY <1>1, <2>1, <2>4
    <3> HIDE DEF x
    <3> QED BY <1>1, <2>4, <3>1
  <2>7. FirstAt(s, "]", j, c)
    BY <2>5, <2>6 DEF FirstAt
  <2>8. Slice(s, j, c) = Slice(q, b, e)
    <3> DEFINE x == SubSeq(s, j + 1, c - 1)
               y == SubSeq(q, b + 1, e - 1)
    <3>1. /\ j \in Nat /\ c \in Nat /\ j < c /\ c <= Len(s) + 1
          /\ b \in Nat /\ e \in Nat /\ b < e /\ e <= Len(q) + 1 /\ c - j - 1 = e - b - 1
      BY <1>1, <2>1, <2>4, <2>5 DEF n
    <3> HIDE DEF c
    <3>2. x \in Seq(A) /\ Len(x) = c - j - 1 /\ \A m \in 1 .. c - j - 1 : x[m] = s[j + m]
      <4>1. j \in Nat /\ c \in Nat /\ j < c /\ c <= Len(s) + 1
        BY <3>1
      <4> QED BY <4>1, SliceIs
    <3>3. y \in Seq(A) /\ Len(y) = e - b - 1 /\ \A m \in 1 .. e - b - 1 : y[m] = q[b + m]
      BY <3>1, SliceIs
    <3> HIDE DEF x, y
    <3>4. ASSUME NEW m \in 1 .. Len(x) PROVE x[m] = y[m]
      <4>1. m \in 1 .. c - j - 1 /\ m \in 1 .. e - b - 1
        BY <3>1, <3>2
      <4>2. b + m \in 1 .. n
        <5>1. e <= n /\ n \in Nat /\ e \in Nat /\ b \in Nat
          BY <1>1, <2>4, <3>1
        <5> QED BY <4>1, <5>1
      <4>3. L + (b + m) = j + m
        BY <2>1, <3>1, <4>1
      <4> QED BY <1>1, <3>2, <3>3, <4>1, <4>2, <4>3
    <3>5. x = y
      <4>1. Len(x) = Len(y)
        BY <3>1, <3>2, <3>3
      <4> QED BY <3>2, <3>3, <3>4, <4>1, SameList
    <3> QED BY <3>5 DEF x, y, Slice
  <2> HIDE DEF c
  <2> QED BY <2>3, <2>5, <2>7, <2>8
<1> QED BY <1>2, <1>3

LEMMA FollowedTwice ==
  ASSUME NEW A, NEW p \in Seq(Seq(A)), NEW q \in Seq(A), NEW u \in Seq(A)
  PROVE  Followed(p, q \o u) = Followed(Followed(p, q), u)
<1> DEFINE w == q \o u
           m == Followed(p, q)
           x == Followed(p, w)
           y == Followed(m, u)
           n == Len(p)
<1>1. w \in Seq(A)
  OBVIOUS
<1> HIDE DEF w
<1>2. m \in Seq(Seq(A)) /\ Len(m) = n /\ \A i \in 1 .. n : m[i] = p[i] \o q
  BY FollowedIs
<1> HIDE DEF m
<1>3. x \in Seq(Seq(A)) /\ Len(x) = n /\ \A i \in 1 .. n : x[i] = p[i] \o w
  BY <1>1, FollowedIs
<1>4. y \in Seq(Seq(A)) /\ Len(y) = n /\ \A i \in 1 .. n : y[i] = m[i] \o u
  <2>1. y \in Seq(Seq(A)) /\ Len(y) = Len(m) /\ \A i \in 1 .. Len(m) : y[i] = m[i] \o u
    BY <1>2, FollowedIs
  <2> HIDE DEF y, n
  <2> QED BY <1>2, <2>1
<1> HIDE DEF x, y, n
<1>5. ASSUME NEW i \in 1 .. n PROVE x[i] = y[i]
  <2> DEFINE z == p[i]
  <2>1. z \in Seq(A)
    BY DEF n
  <2>2. x[i] = z \o w /\ y[i] = (z \o q) \o u
    BY <1>2, <1>3, <1>4
  <2> HIDE DEF z
  <2>3. (z \o q) \o u = z \o w
    BY <2>1, ConcatAssoc, SMTT(60) DEF w
  <2> QED BY <2>2, <2>3
<1>6. x = y
  <2>1. Len(x) = Len(y) /\ \A i \in 1 .. Len(x) : x[i] = y[i]
    BY <1>3, <1>4, <1>5
  <2> QED BY <1>3, <1>4, <2>1, SameList
<1> QED BY <1>6 DEF x, y, m, w

(* A part that is no range needs no expansion.                             *)
LEMMA ReadOn ==
  ASSUME NEW A, Legible(A), NEW ps \in Seq(PartRecords(A)),
         NEW h, Products(h, A, ps), NEW t, Tails(t, A, ps),
         NEW k \in 0 .. Len(ps) - 1, NEW names, NEW i \in Nat,
         ExpandedTo(ps, h, t, k, names, i), ~ps[k + 1].range
  PROVE  ExpandedTo(ps, h, t, k + 1, names, i)
<1> DEFINE N == Len(ps)
           L == Len(h[k][1])
           r == names[1]
           q == ps[k + 1].text
           u == t[k + 1]
           hk == h[k]
           tk == t[k]
           hn == h[k + 1]
<1>1. /\ N \in Nat /\ k \in Nat /\ k \in 0 .. N /\ k + 1 \in 1 .. N /\ k + 1 \in 0 .. N
      /\ (k + 1) - 1 = k /\ ps[k + 1] \in PartRecords(A)
  OBVIOUS
<1>a. Lists(A, hk, tk, names, i, L, r)
  <2>1. Len(ps) \in Nat /\ k \in 0 .. Len(ps)
    BY <1>1
  <2> QED BY <2>1, ListsAre
<1>3. q \in Seq(A) /\ Harmless(q, 0, Len(q)) /\ Names(ps[k + 1]) = <<q>> /\ Text(ps[k + 1]) = q
  BY <1>1, PartIs DEF Names, Text
<1>4. tk = q \o u /\ u \in Seq(A)
  BY <1>1, <1>3 DEF Tails
<1>2. /\ hk \in Seq(Seq(A)) /\ tk \in Seq(A) /\ Len(hk) >= 1
      /\ names \in Seq(Seq(A)) /\ Len(names) = Len(hk)
      /\ \A n \in 1 .. Len(hk) : hk[n] \in Seq(A) /\ names[n] = hk[n] \o tk
      /\ r \in Seq(A) /\ L \in Nat /\ Len(r) = L + Len(tk) /\ Len(tk) \in Nat
      /\ L = Len(hk[1])
      /\ \A j \in 1 .. Len(tk) : r[L + j] = tk[j]
      /\ i <= L /\ Harmless(r, i, L)
  <2> HIDE DEF hk, tk, L, r
  <2> QED BY <1>a DEF Lists
<1>5. hn = Followed(hk, q)
  <2>1. hn = Times(hk, <<q>>)
    BY <1>1, <1>3 DEF Products
  <2> HIDE DEF hk, hn, q
  <2> QED BY <1>2, <1>3, <2>1, TimesText
<1> HIDE DEF q, u, hk, tk, hn, L, r, N
<1>6. /\ hn \in Seq(Seq(A)) /\ Len(hn) = Len(hk)
      /\ \A n \in 1 .. Len(hk) : hn[n] = hk[n] \o q
  BY <1>2, <1>3, <1>5, FollowedIs
<1>7. names = Followed(hn, u)
  <2>1. names = Followed(hk, tk)
    BY DEF ExpandedTo, hk, tk
  <2>2. hk \in Seq(Seq(A)) /\ q \in Seq(A) /\ u \in Seq(A)
    BY <1>2, <1>3, <1>4
  <2>3. Followed(hk, q \o u) = Followed(Followed(hk, q), u)
    BY <2>2, FollowedTwice
  <2> QED BY <1>4, <1>5, <2>1, <2>3
<1> DEFINE M == Len(hn[1])
<1>8. M = L + Len(q) /\ Len(q) \in Nat
  <2> DEFINE y == hk[1]
  <2>1. hn[1] = y \o q /\ y \in Seq(A) /\ L = Len(y)
    <3>1. 1 \in 1 .. Len(hk)
      BY <1>2
    <3> QED BY <1>2, <1>6, <3>1
  <2> HIDE DEF y
  <2>2. Len(y \o q) = Len(y) + Len(q) /\ Len(q) \in Nat
    BY <1>3, <2>1, ConcatIs
  <2> QED BY <2>1, <2>2
<1> HIDE DEF M
<1>9. Harmless(r, i, L + Len(q))
  <2>1. /\ Len(tk) = Len(q) + Len(u) /\ Len(u) \in Nat
        /\ \A j \in 1 .. Len(q) : tk[j] = q[j]
    <3>1. /\ Len(q \o u) = Len(q) + Len(u) /\ Len(u) \in Nat
          /\ \A j \in 1 .. Len(q) : (q \o u)[j] = q[j]
      BY <1>3, <1>4, ConcatIs
    <3> QED BY <1>4, <3>1
  <2>2. L + Len(q) <= Len(r)
    BY <1>2, <1>8, <2>1
  <2>3. \A j \in 1 .. Len(q) : r[L + j] = q[j]
    <3>1. \A j \in 1 .. Len(q) : j \in 1 .. Len(tk)
      BY <1>2, <1>8, <2>1
    <3> QED BY <1>2, <2>1, <3>1
  <2> QED BY <1>2, <1>3, <2>2, <2>3, HarmlessConcat
<1>10. \A m \in 1 .. k + 1 : ~Backwards(ps[m])
  <2>1. \A m \in 1 .. k + 1 : m = k + 1 \/ m \in 1 .. k
    BY <1>1
  <2> QED BY <2>1 DEF ExpandedTo, Backwards
<1>11. i <= M
  BY <1>2, <1>8
<1>12. Len(hn) >= 1
  BY <1>2, <1>6
<1>13. /\ names = Followed(h[k + 1], t[k + 1]) /\ Len(h[k + 1]) >= 1
       /\ i <= Len(h[k + 1][1]) /\ Harmless(names[1], i, Len(h[k + 1][1]))
  BY <1>7, <1>8, <1>9, <1>11, <1>12 DEF hn, u, M, r
<1> QED BY <1>10, <1>13 DEF ExpandedTo

(* So the search may be taken to be at the end or before a range.          *)
LEMMA ReadToRange ==
  ASSUME NEW A, Legible(A), NEW ps \in Seq(PartRecords(A)),
         NEW h, Products(h, A, ps), NEW t, Tails(t, A, ps), NEW names, NEW i \in Nat,
         NEW l \in 0 .. Len(ps), ExpandedTo(ps, h, t, l, names, i)
  PROVE  \E k \in 0 .. Len(ps) :
           ExpandedTo(ps, h, t, k, names, i) /\ (k = Len(ps) \/ ps[k + 1].range)
<1> DEFINE N == Len(ps)
           K == {k \in 0 .. N : ExpandedTo(ps, h, t, k, names, i)}
<1>1. K \in SUBSET Nat /\ K # {} /\ IsFiniteSet(K) /\ N \in Nat
  <2>1. N \in Nat
    OBVIOUS
  <2>2. IsFiniteSet(0 .. N)
    BY <2>1, FS_Interval
  <2>3. K \in SUBSET (0 .. N)
    OBVIOUS
  <2>4. IsFiniteSet(K)
    BY <2>2, <2>3, FS_Subset
  <2>5. K # {}
    OBVIOUS
  <2> QED BY <2>1, <2>3, <2>4, <2>5
<1>2. PICK k \in K : \A m \in K : m <= k
  <2> HIDE DEF K
  <2> QED BY <1>1, EndsExist
<1>3. k \in 0 .. N /\ ExpandedTo(ps, h, t, k, names, i)
  BY <1>2
<1>4. k = N \/ ps[k + 1].range
  <2> SUFFICES ASSUME k # N, ~ps[k + 1].range PROVE FALSE
    OBVIOUS
  <2>1. k \in 0 .. N - 1 /\ k + 1 \in 0 .. N
    BY <1>1, <1>3
  <2>2. ExpandedTo(ps, h, t, k + 1, names, i)
    BY <1>3, <2>1, ReadOn
  <2>3. k + 1 \in K
    BY <2>1, <2>2
  <2>4. ~(k + 1 <= k)
    BY <1>1, <1>3
  <2> HIDE DEF K
  <2> QED BY <1>2, <2>3, <2>4
<1> QED BY <1>3, <1>4

LEMMA DecimalNumber ==
  ASSUME NEW n \in Nat, NEW b, b = Decimal[n]
  PROVE  b \in Seq(Digits) /\ Len(b) \in Nat \ {0} /\ IsNumber(b) /\ Value(b) = n
<1>1. /\ b \in Seq(Digits) /\ Len(b) \in Nat \ {0}
      /\ \A k \in Nat : Value(Zeros(k) \o b) = n
  BY DecimalsAre DEF Written
<1>2. Zeros(0) = <<>>
  BY DEF Zeros
<1>3. <<>> \o b = b
  BY <1>1
<1>4. Value(b) = n
  BY <1>1, <1>2, <1>3
<1>5. IsNumber(b)
  <2>1. b # <<>> /\ \A i \in 1 .. Len(b) : b[i] \in Digits
    BY <1>1
  <2> QED BY <2>1 DEF IsNumber, Digits
<1> QED BY <1>1, <1>4, <1>5

LEMMA WrittenShift ==
  ASSUME NEW q, Len(q) \in Nat, NEW r, Len(r) \in Nat, NEW L \in Nat, L + Len(q) <= Len(r),
         \A j \in 1 .. Len(q) : r[L + j] = q[j],
         NEW a, NEW b, Len(a) \in Nat, Len(b) \in Nat, WrittenAt(q, 0, a, b)
  PROVE  WrittenAt(r, L, a, b)
<1> DEFINE l == Len(a)
           m == Len(b)
           n == Len(q)
<1>1. /\ 0 + l + m + 3 <= n /\ q[0 + 1] = "[" /\ (\A i \in 1 .. l : q[0 + 1 + i] = a[i])
      /\ q[0 + l + 2] = "-" /\ (\A i \in 1 .. m : q[0 + l + 2 + i] = b[i])
      /\ q[0 + l + m + 3] = "]"
  BY DEF WrittenAt
<1>2. l \in Nat /\ m \in Nat /\ n \in Nat /\ L + n <= Len(r) /\ l + m + 3 <= n
      /\ \A j \in 1 .. n : r[L + j] = q[j]
  BY <1>1
<1> HIDE DEF l, m, n
<1>3. q[1] = "[" /\ q[l + 2] = "-" /\ q[l + m + 3] = "]"
      /\ (\A i \in 1 .. l : q[1 + i] = a[i]) /\ \A i \in 1 .. m : q[l + 2 + i] = b[i]
  <2>1. 0 + 1 = 1 /\ 0 + l + 2 = l + 2 /\ 0 + l + m + 3 = l + m + 3
        /\ (\A i \in 1 .. l : 0 + 1 + i = 1 + i) /\ \A i \in 1 .. m : 0 + l + 2 + i = l + 2 + i
    BY <1>2
  <2> QED BY <1>1, <2>1
<1>4. r[L + 1] = "["
  <2>1. 1 \in 1 .. n
    BY <1>2
  <2> QED BY <1>2, <1>3, <2>1
<1>5. r[L + l + 2] = "-"
  <2>1. l + 2 \in 1 .. n /\ L + (l + 2) = L + l + 2
    BY <1>2
  <2> QED BY <1>2, <1>3, <2>1
<1>6. r[L + l + m + 3] = "]"
  <2>1. l + m + 3 \in 1 .. n /\ L + (l + m + 3) = L + l + m + 3
    BY <1>2
  <2> QED BY <1>2, <1>3, <2>1
<1>7. ASSUME NEW i \in 1 .. l PROVE r[L + 1 + i] = a[i]
  <2>1. 1 + i \in 1 .. n /\ L + (1 + i) = L + 1 + i
    BY <1>2
  <2> QED BY <1>2, <1>3, <2>1
<1>8. ASSUME NEW i \in 1 .. m PROVE r[L + l + 2 + i] = b[i]
  <2>1. l + 2 + i \in 1 .. n /\ L + (l + 2 + i) = L + l + 2 + i
    BY <1>2
  <2> QED BY <1>2, <1>3, <2>1
<1>9. L + l + m + 3 <= Len(r)
  BY <1>2
<1> QED BY <1>4, <1>5, <1>6, <1>7, <1>8, <1>9 DEF WrittenAt, l, m

LEMMA Parted ==
  ASSUME NEW A, NEW x \in Seq(A), NEW q \in Seq(A), NEW u \in Seq(A),
         NEW s, s = x \o (q \o u)
  PROVE  /\ s \in Seq(A) /\ Len(s) = Len(x) + Len(q) + Len(u)
         /\ Len(x) \in Nat /\ Len(q) \in Nat /\ Len(u) \in Nat
         /\ SubSeq(s, 1, Len(x)) = x
         /\ SubSeq(s, Len(x) + Len(q) + 1, Len(s)) = u
<1> DEFINE l == Len(x)
           m == Len(q)
           n == Len(u)
           w == q \o u
<1>1. l \in Nat /\ m \in Nat /\ n \in Nat
  OBVIOUS
<1>2. /\ w \in Seq(A) /\ Len(w) = m + n /\ \A i \in 1 .. n : w[m + i] = u[i]
  BY ConcatIs
<1> HIDE DEF w
<1>3. /\ s \in Seq(A) /\ Len(s) = l + (m + n) /\ (\A i \in 1 .. l : s[i] = x[i])
      /\ \A i \in 1 .. m + n : s[l + i] = w[i]
  <2>1. x \in Seq(A) /\ w \in Seq(A)
    BY <1>2
  <2>2. /\ x \o w \in Seq(A) /\ Len(x \o w) = Len(x) + Len(w)
        /\ (\A i \in 1 .. Len(x) : (x \o w)[i] = x[i])
        /\ \A i \in 1 .. Len(w) : (x \o w)[Len(x) + i] = w[i]
    BY <2>1, ConcatIs
  <2>3. s = x \o w
    BY DEF w
  <2> QED BY <1>2, <2>2, <2>3
<1>4. SubSeq(s, 1, l) = x
  <2> DEFINE y == SubSeq(s, 1, l)
  <2>1. l <= Len(s)
    BY <1>1, <1>3
  <2>2. y \in Seq(A) /\ Len(y) = l /\ \A i \in 1 .. l : y[i] = s[i]
    BY <1>1, <1>3, <2>1, HeadIs
  <2> HIDE DEF y
  <2>3. y = x
    BY <1>3, <2>2, SameList
  <2> QED BY <2>3 DEF y
<1> DEFINE o == l + m
           y == SubSeq(s, o + 1, Len(s))
<1>5. y = u
  <2>1. o \in Nat /\ o <= Len(s) /\ Len(s) - o = n
    BY <1>1, <1>3
  <2> HIDE DEF l, m, n
  <2>2. y \in Seq(A) /\ Len(y) = n /\ \A i \in 1 .. n : y[i] = s[o + i]
    <3> HIDE DEF o
    <3>1. y \in Seq(A) /\ Len(y) = Len(s) - o /\ \A i \in 1 .. Len(s) - o : y[i] = s[o + i]
      <4>1. s \in Seq(A) /\ o \in Nat /\ o <= Len(s)
        BY <1>3, <2>1
      <4> QED BY <4>1, TailIs
    <3> HIDE DEF y
    <3> QED BY <2>1, <3>1
  <2> HIDE DEF y
  <2>3. ASSUME NEW i \in 1 .. n PROVE y[i] = u[i]
    <3>1. m + i \in 1 .. m + n /\ l + (m + i) = o + i
      BY <1>1
    <3> HIDE DEF o
    <3> QED BY <1>2, <1>3, <2>2, <3>1
  <2>4. Len(y) = Len(u) /\ \A i \in 1 .. Len(y) : y[i] = u[i]
    BY <2>2, <2>3 DEF n
  <2> QED BY <2>2, <2>4, SameList
<1>6. Len(s) = l + m + n
  BY <1>1, <1>3
<1> QED BY <1>1, <1>3, <1>4, <1>5, <1>6

(* The search before the range p, L characters into the first name, and    *)
(* what it takes it for.                                                   *)
Before(A, h, t, k, p, L) ==
  /\ p = parts[k + 1] /\ L = Len(h[k][1])
  /\ parts \in Seq(PartRecords(A)) /\ from \in Nat
  /\ Products(h, A, parts) /\ Tails(t, A, parts)
  /\ k \in 0 .. Len(parts) - 1 /\ ExpandedTo(parts, h, t, k, results, from)
  /\ p.range
  /\ \A j \in from + 1 .. L : results[1][j] # "["

LEMMA BeforeRange ==
  ASSUME NEW A, Legible(A), NEW h, NEW t, NEW k, NEW p, NEW L, Before(A, h, t, k, p, L)
  PROVE  /\ p \in PartRecords(A) /\ k \in Nat /\ k + 1 \in 1 .. Len(parts)
         /\ Lists(A, h[k], t[k], results, from, L, results[1])
         /\ Text(p) \in Seq(A) /\ t[k + 1] \in Seq(A) /\ t[k] = Text(p) \o t[k + 1]
<1> USE DEF Before
<1>1. /\ p \in PartRecords(A) /\ k \in Nat /\ k + 1 \in 1 .. Len(parts) /\ (k + 1) - 1 = k
      /\ k \in 0 .. Len(parts) /\ k + 1 \in 0 .. Len(parts) /\ Len(parts) \in Nat
  OBVIOUS
<1>2. Lists(A, h[k], t[k], results, from, L, results[1])
  <2>1. Lists(A, h[k], t[k], results, from, Len(h[k][1]), results[1])
    BY <1>1, ListsAre
  <2> QED BY <2>1
<1>3. Text(p) \in Seq(A)
  BY <1>1, TextIs
<1>4. t[k + 1] \in Seq(A) /\ t[k] = Text(p) \o t[k + 1]
  BY <1>1 DEF Tails
<1> QED BY <1>1, <1>2, <1>3, <1>4

LEMMA AtRange ==
  ASSUME NEW A, Legible(A), NEW h, NEW t, NEW k, NEW p, NEW L, Before(A, h, t, k, p, L)
  PROVE  /\ Open = L + 1 /\ Close = L + Len(Text(p)) /\ Close > 0
         /\ Numeric /\ Value(Low) = p.lo /\ Value(High) = p.hi /\ Width = p.width
<1>0. /\ p \in PartRecords(A)
      /\ Lists(A, h[k], t[k], results, from, L, results[1])
      /\ Text(p) \in Seq(A) /\ t[k + 1] \in Seq(A) /\ t[k] = Text(p) \o t[k + 1]
  BY BeforeRange
<1> DEFINE a == Padded(p.lo, p.width)
           b == Decimal[p.hi]
           q == Text(p)
           u == t[k + 1]
           tk == t[k]
           r == results[1]
           c == L + Len(a) + Len(b) + 3
           v == Slice(r, L + 1, c)
<1>1. /\ p \in PartRecords(A) /\ Lists(A, h[k], tk, results, from, L, r)
      /\ q \in Seq(A) /\ u \in Seq(A) /\ tk = q \o u /\ p.range
  <2>1. p.range
    BY DEF Before
  <2> QED BY <1>0, <2>1
<1>2. /\ p.lo \in Nat /\ p.hi \in Nat /\ p.width \in Nat
      /\ p.width = 0 \/ p.width > Len(Decimal[p.lo])
  BY <1>1, PartIs
<1>3. /\ a \in Seq(Digits) /\ Len(a) \in Nat \ {0} /\ IsNumber(a) /\ Value(a) = p.lo
      /\ p.width = 0 => ~(Len(a) > 1 /\ a[1] = "0")
      /\ p.width > Len(Decimal[p.lo]) => Len(a) = p.width /\ Len(a) > 1 /\ a[1] = "0"
  BY <1>2, PaddedIs
<1>4. b \in Seq(Digits) /\ Len(b) \in Nat \ {0} /\ IsNumber(b) /\ Value(b) = p.hi
  BY <1>2, DecimalNumber
<1>5. q = Ranged(a, b)
  BY <1>1 DEF Text, Ranged
<1>6. a \in Seq(A) /\ b \in Seq(A)
  BY <1>2, PaddedText
<1> HIDE DEF a, b, q, u, tk
<1>7. Len(q) = Len(a) + Len(b) + 3 /\ WrittenAt(q, 0, a, b)
  <2>1. a \in Seq(A) /\ b \in Seq(A) /\ "[" \in A /\ "-" \in A /\ "]" \in A
    BY <1>6 DEF Legible
  <2> QED BY <1>5, <2>1, RangeIsWritten
<1>8. /\ r \in Seq(A) /\ L \in Nat /\ Len(r) = L + Len(tk) /\ Len(tk) \in Nat
      /\ \A j \in 1 .. Len(tk) : r[L + j] = tk[j]
      /\ from <= L
  <2> HIDE DEF r
  <2> QED BY <1>1 DEF Lists
<1>9. /\ Len(tk) = Len(q) + Len(u) /\ Len(q) \in Nat /\ Len(u) \in Nat
      /\ \A j \in 1 .. Len(q) : tk[j] = q[j]
  <2>1. /\ Len(q \o u) = Len(q) + Len(u) /\ Len(q) \in Nat /\ Len(u) \in Nat
        /\ \A j \in 1 .. Len(q) : (q \o u)[j] = q[j]
    BY <1>1, ConcatIs
  <2> QED BY <1>1, <2>1
<1>13. \A j \in from + 1 .. L : r[j] # "["
  BY DEF Before
<1>14. from \in Nat
  BY DEF Before
<1> HIDE DEF r
<1>10. WrittenAt(r, L, a, b)
  <2>1. L + Len(q) <= Len(r) /\ Len(r) \in Nat
    <3>1. L \in Nat /\ Len(r) = L + Len(tk) /\ Len(tk) = Len(q) + Len(u)
      BY <1>8, <1>9
    <3>2. Len(q) \in Nat /\ Len(u) \in Nat
      BY <1>9
    <3> QED BY <3>1, <3>2
  <2>2. \A j \in 1 .. Len(q) : r[L + j] = q[j]
    <3>1. \A j \in 1 .. Len(q) : j \in 1 .. Len(tk)
      BY <1>9
    <3> QED BY <1>8, <1>9, <3>1
  <2>3. Len(q) \in Nat /\ Len(a) \in Nat /\ Len(b) \in Nat /\ L \in Nat
    BY <1>3, <1>4, <1>8, <1>9
  <2> QED BY <1>7, <2>1, <2>2, <2>3, WrittenShift
<1>11. /\ Find(r, "[", from) = L + 1 /\ Find(r, "]", L + 1) = c
       /\ LowOf(v) = a /\ HighOf(v) = b /\ Dash(v) > 0
  <2>1. from \in 0 .. L /\ r \in Seq(A) /\ a \in Seq(Digits) /\ b \in Seq(Digits) /\ L \in Nat
    BY <1>3, <1>4, <1>8, <1>14
  <2> HIDE DEF c, v
  <2>2. c = L + Len(a) + Len(b) + 3 /\ v = Slice(r, L + 1, c)
    BY DEF c, v
  <2> QED BY <1>10, <1>13, <2>1, <2>2, RangeIsFound
<1>12. c = L + Len(q) /\ c > 0 /\ L + 1 # 0
  <2>1. Len(a) \in Nat /\ Len(b) \in Nat /\ L \in Nat /\ Len(q) = Len(a) + Len(b) + 3
    BY <1>3, <1>4, <1>7, <1>8
  <2> QED BY <2>1
<1> HIDE DEF c, v
<1>15. Open = L + 1
  BY <1>11 DEF Open, r
<1>16. Close = c
  BY <1>11, <1>12, <1>15 DEF Close, r
<1>17. Inner = v
  BY <1>15, <1>16 DEF Inner, v, r
<1>18. Low = a /\ High = b
  BY <1>11, <1>17 DEF Low, High
<1>19. Numeric
  BY <1>3, <1>4, <1>11, <1>17 DEF Numeric, IsRange
<1>20. Width = p.width
  <2>1. CASE p.width = 0
    BY <1>3, <1>18, <2>1 DEF Width
  <2>2. CASE p.width > Len(Decimal[p.lo])
    BY <1>3, <1>18, <2>2 DEF Width
  <2> QED BY <1>2, <2>1, <2>2
<1>21. Value(Low) = p.lo /\ Value(High) = p.hi
  BY <1>3, <1>4, <1>18
<1> QED BY <1>12, <1>15, <1>16, <1>19, <1>20, <1>21 DEF q

(* Each name before a range becomes the names with its numbers.            *)
LEMMA ExpandedIs ==
  ASSUME NEW A, Legible(A), NEW h, NEW t, NEW k, NEW p, NEW L, Before(A, h, t, k, p, L),
         p.lo <= p.hi, NEW n \in 1 .. Len(results)
  PROVE  Expanded(results[n]) = WithEach(h[k][n], Names(p), t[k + 1])
<1>0. /\ p \in PartRecords(A)
      /\ Lists(A, h[k], t[k], results, from, L, results[1])
      /\ Text(p) \in Seq(A) /\ t[k + 1] \in Seq(A) /\ t[k] = Text(p) \o t[k + 1]
  BY BeforeRange
<1>1. /\ Open = L + 1 /\ Close = L + Len(Text(p))
      /\ Value(Low) = p.lo /\ Value(High) = p.hi /\ Width = p.width
  BY AtRange
<1>2. p.range
  BY DEF Before
<1>3. /\ p.lo \in Nat /\ p.hi \in Nat
      /\ Len(Names(p)) = p.hi - p.lo + 1
      /\ \A j \in 1 .. p.hi - p.lo + 1 : Names(p)[j] = Padded(p.lo + j - 1, p.width)
  <2>1. p.lo \in Nat /\ p.hi \in Nat
    BY <1>0, <1>2, PartIs
  <2> QED BY <1>0, <1>2, <2>1, NamesAre
<1> DEFINE s == results[n]
           x == h[k][n]
           q == Text(p)
           u == t[k + 1]
           r == results[1]
<1>4. x \in Seq(A) /\ s = x \o (q \o u) /\ L \in Nat /\ Len(r) = L + Len(q) + Len(u)
  <2>1. /\ Len(results) = Len(h[k]) /\ \A i \in 1 .. Len(h[k]) : h[k][i] \in Seq(A) /\ results[i] = h[k][i] \o t[k]
        /\ L \in Nat /\ Len(r) = L + Len(t[k])
    BY <1>0 DEF Lists
  <2>2. x \in Seq(A) /\ s = x \o t[k]
    BY <2>1
  <2>3. Len(q \o u) = Len(q) + Len(u) /\ Len(q) \in Nat /\ Len(u) \in Nat
    BY <1>0, ConcatIs
  <2>4. Len(r) = L + (Len(q) + Len(u)) /\ L \in Nat
    BY <1>0, <2>1, <2>3
  <2>5. Len(r) = L + Len(q) + Len(u)
    <3> HIDE DEF r, q, u
    <3> QED BY <2>3, <2>4
  <2> QED BY <1>0, <2>2, <2>4, <2>5
<1> HIDE DEF x, q, u
<1>5. /\ Len(s) = Len(x) + Len(q) + Len(u)
      /\ Len(x) \in Nat /\ Len(q) \in Nat /\ Len(u) \in Nat
      /\ SubSeq(s, 1, Len(x)) = x
      /\ SubSeq(s, Len(x) + Len(q) + 1, Len(s)) = u
  <2>1. x \in Seq(A) /\ q \in Seq(A) /\ u \in Seq(A) /\ s = x \o (q \o u)
    BY <1>0, <1>4 DEF q, u
  <2> HIDE DEF s
  <2> QED BY <2>1, Parted
<1>6. Open + Shift(s) - 1 = Len(x) /\ Close + Shift(s) + 1 = Len(x) + Len(q) + 1
  <2>1. Shift(s) = Len(s) - Len(r)
    BY DEF Shift
  <2>2. Open = L + 1 /\ Close = L + Len(q)
    BY <1>1 DEF q
  <2>3. Len(s) = Len(x) + Len(q) + Len(u) /\ Len(r) = L + Len(q) + Len(u) /\ L \in Nat
        /\ Len(x) \in Nat /\ Len(q) \in Nat /\ Len(u) \in Nat
    BY <1>4, <1>5
  <2> HIDE DEF s, r
  <2> QED BY <2>1, <2>2, <2>3
<1> HIDE DEF s
<1>7. Expanded(s) = [j \in 1 .. p.hi - p.lo + 1 |-> x \o Padded(p.lo + j - 1, p.width) \o u]
  BY <1>1, <1>5, <1>6 DEF Expanded
<1>8. \A j \in 1 .. p.hi - p.lo + 1 :
        x \o Padded(p.lo + j - 1, p.width) \o u = x \o Names(p)[j] \o u
  BY <1>3
<1>9. Expanded(s) = WithEach(x, Names(p), u)
  BY <1>3, <1>7, <1>8 DEF WithEach
<1> QED BY <1>9 DEF s, x, u

LEMMA ExpandStep ==
  ASSUME NEW A, Legible(A), NEW h, NEW t, NEW k, NEW p, NEW L, Before(A, h, t, k, p, L),
         p.lo <= p.hi
  PROVE  ExpandedTo(parts, h, t, k + 1,
                    FlattenSeq([i \in 1 .. Len(results) |-> Expanded(results[i])]), L)
<1>0. /\ p \in PartRecords(A) /\ k \in Nat /\ k + 1 \in 1 .. Len(parts)
      /\ Lists(A, h[k], t[k], results, from, L, results[1])
      /\ t[k + 1] \in Seq(A)
  BY BeforeRange
<1> DEFINE hk == h[k]
           hn == h[k + 1]
           u == t[k + 1]
           N == Names(p)
           ns == FlattenSeq([i \in 1 .. Len(results) |-> Expanded(results[i])])
           M == Len(hn[1])
<1>1. p.range /\ p = parts[k + 1] /\ Products(h, A, parts) /\ ExpandedTo(parts, h, t, k, results, from)
  BY DEF Before
<1>2. /\ hk \in Seq(Seq(A)) /\ Len(hk) >= 1 /\ Len(results) = Len(hk) /\ L = Len(hk[1]) /\ L \in Nat
  BY <1>0 DEF Lists
<1>3. hn = Times(hk, N)
  <2>1. (k + 1) - 1 = k
    BY <1>0
  <2> QED BY <1>0, <1>1, <2>1 DEF Products
<1>4. N \in Seq(Seq(A)) /\ Len(N) >= 1 /\ N[1] = Padded(p.lo, p.width) /\ p.lo \in Nat /\ p.width \in Nat
  <2>1. p.lo \in Nat /\ p.hi \in Nat /\ p.width \in Nat
    BY <1>0, <1>1, PartIs
  <2>2. /\ N \in Seq(Seq(A)) /\ Len(N) = p.hi - p.lo + 1
        /\ \A v \in 1 .. p.hi - p.lo + 1 : N[v] = Padded(p.lo + v - 1, p.width)
    BY <1>0, <1>1, NamesAre
  <2>3. 1 \in 1 .. p.hi - p.lo + 1 /\ p.lo + 1 - 1 = p.lo /\ p.hi - p.lo + 1 >= 1
    BY <2>1
  <2>4. N[1] = Padded(p.lo, p.width)
    BY <2>2, <2>3
  <2> QED BY <2>1, <2>2, <2>3, <2>4
<1>5. ns = Followed(hn, u)
  <2>1. [i \in 1 .. Len(results) |-> Expanded(results[i])]
          = [i \in 1 .. Len(hk) |-> WithEach(hk[i], N, u)]
    <3>1. \A i \in 1 .. Len(results) : Expanded(results[i]) = WithEach(hk[i], N, u)
      BY ExpandedIs
    <3> QED BY <1>2, <3>1
  <2>2. Followed(Times(hk, N), u) = AllWith(hk, N, u)
    <3> HIDE DEF hk, N, u
    <3>1. hk \in Seq(Seq(A)) /\ N \in Seq(Seq(A)) /\ u \in Seq(A)
      BY <1>0, <1>2, <1>4 DEF u
    <3>2. \A v \in Seq(A) : Followed(Times(hk, N), v) = AllWith(hk, N, v)
      BY <3>1, TimesIs, Zenon
    <3> QED BY <3>1, <3>2
  <2> HIDE DEF hk, hn, N, u
  <2> QED BY <1>3, <2>1, <2>2 DEF AllWith
<1> HIDE DEF hk, hn, N, ns
<1>6. hn \in Seq(Seq(A)) /\ Len(hn) >= 1 /\ hn[1] = hk[1] \o N[1]
  BY <1>2, <1>3, <1>4, TimesIs
<1> DEFINE d == N[1]
           y == hk[1]
           r == ns[1]
<1>7. /\ y \in Seq(A) /\ d \in Seq(A) /\ hn[1] = y \o d /\ L = Len(y)
      /\ \A j \in 1 .. Len(d) : d[j] # "["
  <2>1. 1 \in 1 .. Len(hk) /\ 1 \in 1 .. Len(N)
    BY <1>2, <1>4
  <2>2. y \in Seq(A) /\ d \in Seq(A)
    BY <1>2, <1>4, <2>1
  <2>3. d \in Seq(Digits)
    BY <1>4, PaddedIs
  <2>4. \A j \in 1 .. Len(d) : d[j] \in Digits
    <3> HIDE DEF d
    <3> QED BY <2>3
  <2> QED BY <1>2, <1>6, <2>2, <2>4, DigitsAreNoSigns
<1>8. r = (y \o d) \o u
  <2>1. 1 \in 1 .. Len(hn)
    BY <1>6
  <2>2. Followed(hn, u)[1] = hn[1] \o u
    BY <2>1 DEF Followed
  <2> QED BY <1>5, <1>7, <2>2
<1> HIDE DEF d, y, r
<1>9. /\ M = L + Len(d) /\ Len(d) \in Nat
      /\ \A j \in 1 .. Len(d) : r[L + j] = d[j]
  <2> DEFINE w == y \o d
  <2>1. /\ w \in Seq(A) /\ Len(d) \in Nat /\ Len(w) = L + Len(d)
        /\ \A j \in 1 .. Len(d) : w[L + j] = d[j]
    <3>1. y \in Seq(A) /\ d \in Seq(A) /\ L = Len(y)
      BY <1>7
    <3>2. /\ y \o d \in Seq(A) /\ Len(d) \in Nat /\ Len(y \o d) = Len(y) + Len(d)
          /\ \A j \in 1 .. Len(d) : (y \o d)[Len(y) + j] = d[j]
      BY <3>1, ConcatIs
    <3> QED BY <3>1, <3>2
  <2>2. M = Len(w) /\ r = w \o u
    BY <1>7, <1>8
  <2> HIDE DEF w
  <2>3. \A j \in 1 .. Len(w) : (w \o u)[j] = w[j]
    <3>1. w \in Seq(A) /\ u \in Seq(A)
      BY <1>0, <2>1
    <3> HIDE DEF u
    <3> QED BY <3>1, ConcatIs
  <2>4. \A j \in 1 .. Len(d) : L + j \in 1 .. Len(w)
    <3>1. L \in Nat /\ Len(d) \in Nat /\ Len(w) = L + Len(d)
      BY <1>2, <2>1
    <3> QED BY <3>1
  <2> QED BY <2>1, <2>2, <2>3, <2>4
<1> HIDE DEF M
<1>10. Harmless(r, L, M)
  <2>1. ASSUME NEW j \in L + 1 .. M PROVE r[j] # "["
    <3> DEFINE b == j - L
    <3>1. b \in 1 .. Len(d) /\ L + b = j
      BY <1>2, <1>9
    <3> HIDE DEF b
    <3> QED BY <1>7, <1>9, <3>1
  <2> QED BY <2>1 DEF Harmless
<1>11. \A m \in 1 .. k + 1 : ~Backwards(parts[m])
  <2>1. \A m \in 1 .. k + 1 : m = k + 1 \/ m \in 1 .. k
    BY <1>0
  <2>2. ~Backwards(p)
    <3>1. p.lo \in Nat /\ p.hi \in Nat
      BY <1>0, <1>1, PartIs
    <3> QED BY <3>1 DEF Backwards
  <2>3. \A m \in 1 .. k : ~Backwards(parts[m])
    BY <1>1 DEF ExpandedTo
  <2> QED BY <1>1, <2>1, <2>2, <2>3
<1>12. L <= M
  BY <1>2, <1>9
<1>13. /\ ns = Followed(h[k + 1], t[k + 1]) /\ Len(h[k + 1]) >= 1
       /\ L <= Len(h[k + 1][1]) /\ Harmless(ns[1], L, Len(h[k + 1][1]))
  BY <1>5, <1>6, <1>10, <1>12 DEF M, hn, r
<1>14. ExpandedTo(parts, h, t, k + 1, ns, L)
  BY <1>11, <1>13 DEF ExpandedTo
<1> QED BY <1>14 DEF ns

LEMMA ListIs ==
  ASSUME NEW S, NEW s \in Seq(S)
  PROVE  Len(s) \in Nat /\ \A i \in 1 .. Len(s) : s[i] \in S
OBVIOUS

(* A bracket that is not a range is passed.                                *)
LEMMA SkipStep ==
  ASSUME NEW A, from \in Nat, NEW h, NEW t, NEW k, NEW L,
         Lists(A, h[k], t[k], results, from, L, results[1]),
         ExpandedTo(parts, h, t, k, results, from),
         NEW j \in from + 1 .. L, results[1][j] = "["
  PROVE  /\ Close > 0 /\ ~Numeric /\ Close \in Nat
         /\ ExpandedTo(parts, h, t, k, results, Close)
<1> DEFINE r == results[1]
<1>1. /\ L \in Nat /\ Len(r) \in Nat /\ L <= Len(r) /\ L = Len(h[k][1]) /\ Harmless(r, from, L)
  <2>1. /\ L \in Nat /\ Len(r) = L + Len(t[k]) /\ Len(t[k]) \in Nat /\ L = Len(h[k][1])
        /\ Harmless(r, from, L)
    BY DEF Lists
  <2> HIDE DEF r
  <2>2. L + Len(t[k]) \in Nat /\ L <= L + Len(t[k])
    <3>1. L \in Nat /\ Len(t[k]) \in Nat
      BY <2>1
    <3> QED BY <3>1
  <2> QED BY <2>1, <2>2
<1> HIDE DEF r
<1>2. r[j] = "[" /\ j \in from + 1 .. Len(r)
  BY <1>1 DEF r
<1>3. Open = Find(r, "[", from)
  BY DEF Open, r
<1>4. Open # 0 /\ FirstAt(r, "[", from, Open)
  <2>1. ~\A m \in from + 1 .. Len(r) : r[m] # "["
    BY <1>2
  <2> QED BY <1>1, <1>3, <2>1, FindIs
<1>5. /\ Open \in from + 1 .. Len(r) /\ r[Open] = "["
      /\ \A m \in from + 1 .. Open - 1 : r[m] # "["
  BY <1>4 DEF FirstAt
<1>6. Open \in from + 1 .. L /\ Open \in Nat
  <2>1. ~(j < Open)
    <3>1. j < Open => j \in from + 1 .. Open - 1
      BY <1>5
    <3> QED BY <1>2, <1>5, <3>1
  <2> QED BY <1>1, <1>5, <2>1
<1>7. PICK c \in Open + 1 .. L : FirstAt(r, "]", Open, c) /\ ~IsRange(Slice(r, Open, c))
  BY <1>1, <1>5, <1>6 DEF Harmless
<1>8. Close = c
  <2>1. Find(r, "]", Open) = c
    BY <1>1, <1>6, <1>7, FindFirst
  <2> QED BY <1>4, <2>1 DEF Close, r
<1>9. c \in Nat /\ c > 0 /\ c <= L /\ c > from
  BY <1>1, <1>6, <1>7
<1>10. ~Numeric
  BY <1>7, <1>8 DEF Numeric, Inner, r
<1>11. Harmless(r, c, L)
  <2>1. \A m \in c + 1 .. L : m \in from + 1 .. L
    BY <1>1, <1>9
  <2> QED BY <1>1, <2>1 DEF Harmless
<1>12. ExpandedTo(parts, h, t, k, results, c)
  BY <1>1, <1>9, <1>11 DEF ExpandedTo, r
<1> QED BY <1>8, <1>9, <1>10, <1>12

(* With nothing left to search, the names are the product of the parts.    *)
LEMMA AllExpanded ==
  ASSUME NEW A, parts \in Seq(PartRecords(A)), from \in Nat,
         NEW h, Products(h, A, parts), NEW t, Tails(t, A, parts),
         ExpandedTo(parts, h, t, Len(parts), results, from),
         \A j \in from + 1 .. Len(h[Len(parts)][1]) : results[1][j] # "["
  PROVE  /\ Close = 0 /\ results = Product(parts)
         /\ \A m \in 1 .. Len(parts) : ~Backwards(parts[m])
<1> DEFINE N == Len(parts)
           p == h[N]
           r == results[1]
           L == Len(p[1])
<1>1. N \in Nat /\ N \in 0 .. N
  OBVIOUS
<1>2. t[N] = <<>> /\ p = Product(parts)
  BY DEF Tails, Products
<1>3. Lists(A, p, t[N], results, from, L, r)
  BY <1>1, ListsAre
<1>4. /\ p \in Seq(Seq(A)) /\ results \in Seq(Seq(A)) /\ Len(results) = Len(p)
      /\ \A n \in 1 .. Len(p) : p[n] \in Seq(A) /\ results[n] = p[n] \o <<>>
      /\ L \in Nat /\ Len(r) = L + Len(<<>>)
  <2> HIDE DEF p, L, r, N
  <2> QED BY <1>2, <1>3 DEF Lists
<1> HIDE DEF p
<1>5. results = p
  <2>1. ASSUME NEW n \in 1 .. Len(results) PROVE results[n] = p[n]
    <3> DEFINE x == p[n]
    <3>1. x \in Seq(A) /\ results[n] = x \o <<>>
      BY <1>4
    <3> HIDE DEF x
    <3>2. x \o <<>> = x
      BY <3>1
    <3> QED BY <3>1, <3>2 DEF x
  <2> QED BY <1>4, <2>1, SameList
<1>6. Len(r) = L
  BY <1>4
<1>7. \A j \in from + 1 .. L : r[j] # "["
  BY DEF p
<1> HIDE DEF L, r
<1>8. Open = 0
  <2>1. Len(r) \in Nat /\ \A j \in from + 1 .. Len(r) : r[j] # "["
    BY <1>4, <1>6, <1>7
  <2>2. ~(Find(r, "[", from) # 0 /\ FirstAt(r, "[", from, Find(r, "[", from)))
    BY <2>1 DEF FirstAt
  <2>3. Find(r, "[", from) = 0
    BY <2>1, <2>2, FindIs
  <2> QED BY <2>3 DEF Open, r
<1>9. Close = 0
  BY <1>8 DEF Close
<1>10. \A m \in 1 .. N : ~Backwards(parts[m])
  BY DEF ExpandedTo
<1> QED BY <1>2, <1>5, <1>9, <1>10

LEMMA NextRangeInv ==
  ASSUME NEW A, Legible(A)
  PROVE  RangeInv(A) /\ [RangeNext]_rangeVars => RangeInv(A)'
<1> SUFFICES ASSUME RangeInv(A), [RangeNext]_rangeVars PROVE RangeInv(A)'
  OBVIOUS
<1>1. /\ parts \in Seq(PartRecords(A)) /\ from \in Nat
      /\ end # "" => RangesExpand
  BY DEF RangeInv
<1>2. CASE UNCHANGED rangeVars
  <2>1. parts' = parts /\ results' = results /\ from' = from /\ end' = end
    BY <1>2 DEF rangeVars
  <2> QED BY <2>1 DEF RangeInv, RangesExpand
<1>3. CASE ~UNCHANGED rangeVars
  <2>1. end = "" /\ (NoBracket \/ SkipBracket \/ Inverted \/ ExpandRange)
    BY <1>3 DEF RangeNext, NoBracket, SkipBracket, Inverted, ExpandRange, Searching
  <2>2. PICK h, t : /\ Products(h, A, parts) /\ Tails(t, A, parts)
                    /\ \E k \in 0 .. Len(parts) : ExpandedTo(parts, h, t, k, results, from)
    BY <2>1 DEF RangeInv
  <2>3. PICK k \in 0 .. Len(parts) :
          ExpandedTo(parts, h, t, k, results, from) /\ (k = Len(parts) \/ parts[k + 1].range)
    BY <1>1, <2>2, ReadToRange
  <2> DEFINE L == Len(h[k][1])
  <2>4. Lists(A, h[k], t[k], results, from, L, results[1])
    <3>1. Len(parts) \in Nat
      BY <1>1, ListIs
    <3> QED BY <1>1, <2>2, <2>3, <3>1, ListsAre
  <2>5. ASSUME end' = "", parts' = parts, from' \in Nat, NEW n \in 0 .. Len(parts),
               ExpandedTo(parts, h, t, n, results', from')
        PROVE  RangeInv(A)'
    <3>1. /\ Products(h, A, parts') /\ Tails(t, A, parts')
          /\ n \in 0 .. Len(parts') /\ ExpandedTo(parts', h, t, n, results', from')
      BY <2>2, <2>5
    <3>2. \E hh, tt : /\ Products(hh, A, parts') /\ Tails(tt, A, parts')
                      /\ \E m \in 0 .. Len(parts') : ExpandedTo(parts', hh, tt, m, results', from')
      BY <3>1
    <3> QED BY <1>1, <2>5, <3>2 DEF RangeInv
  <2>6. ASSUME parts' = parts, from' = from, end' # "", RangesExpand'
        PROVE  RangeInv(A)'
    BY <1>1, <2>6 DEF RangeInv
  <2>7. CASE \E j \in from + 1 .. L : results[1][j] = "["
    <3>1. Close > 0 /\ ~Numeric /\ Close \in Nat /\ ExpandedTo(parts, h, t, k, results, Close)
      <4> HIDE DEF L
      <4> QED BY <1>1, <2>3, <2>4, <2>7, SkipStep
    <3>2. SkipBracket
      <4>1. Close # 0
        BY <3>1
      <4>2. ~NoBracket
        BY <4>1 DEF NoBracket
      <4>3. ~Inverted /\ ~ExpandRange
        BY <3>1 DEF Inverted, ExpandRange
      <4> QED BY <2>1, <4>2, <4>3
    <3>3. end' = "" /\ parts' = parts /\ results' = results /\ from' = Close
      BY <2>1, <3>2 DEF SkipBracket
    <3> QED BY <2>3, <2>5, <3>1, <3>3
  <2>8. CASE k = Len(parts) /\ \A j \in from + 1 .. L : results[1][j] # "["
    <3>1. /\ Close = 0 /\ results = Product(parts)
          /\ \A m \in 1 .. Len(parts) : ~Backwards(parts[m])
      BY <1>1, <2>2, <2>3, <2>8, AllExpanded
    <3>2. NoBracket
      <4>1. ~(Close > 0)
        BY <3>1
      <4>2. ~Searching
        BY <4>1 DEF Searching
      <4>3. ~SkipBracket /\ ~Inverted /\ ~ExpandRange
        BY <4>2 DEF SkipBracket, Inverted, ExpandRange
      <4> QED BY <2>1, <4>3
    <3>3. end' = "ok" /\ parts' = parts /\ results' = results /\ from' = from
      BY <3>2 DEF NoBracket
    <3>4. RangesExpand'
      BY <3>1, <3>3 DEF RangesExpand, Backwards
    <3> QED BY <2>6, <3>3, <3>4
  <2>9. CASE k # Len(parts) /\ \A j \in from + 1 .. L : results[1][j] # "["
    <3> DEFINE p == parts[k + 1]
    <3>1. k \in 0 .. Len(parts) - 1 /\ k + 1 \in 0 .. Len(parts) /\ k + 1 \in 1 .. Len(parts)
          /\ p.range
      <4>1. Len(parts) \in Nat
        BY <1>1, ListIs
      <4> QED BY <2>3, <2>9, <4>1
    <3>2. Before(A, h, t, k, p, L)
      BY <1>1, <2>2, <2>3, <2>9, <3>1 DEF Before
    <3>3. p \in PartRecords(A) /\ p.lo \in Nat /\ p.hi \in Nat /\ L \in Nat
      <4>1. p \in PartRecords(A)
        BY <1>1, <3>1, ListIs
      <4>2. p.lo \in Nat /\ p.hi \in Nat
        BY <3>1, <4>1, PartIs
      <4>3. L \in Nat
        <5> HIDE DEF L
        <5> QED BY <2>4 DEF Lists
      <4> QED BY <4>1, <4>2, <4>3
    <3> HIDE DEF L, p
    <3>4. Open = L + 1 /\ Close > 0 /\ Numeric /\ Value(Low) = p.lo /\ Value(High) = p.hi
      BY <3>2, AtRange
    <3>5. Inverted \/ ExpandRange
      <4>1. ~NoBracket /\ ~SkipBracket
        <5>1. Close # 0
          BY <3>4
        <5> QED BY <3>4, <5>1 DEF NoBracket, SkipBracket
      <4> QED BY <2>1, <4>1
    <3>6. CASE Inverted
      <4>1. end' = "error" /\ parts' = parts /\ results' = results /\ from' = from
            /\ p.lo > p.hi
        BY <3>4, <3>6 DEF Inverted
      <4>2. \E i \in 1 .. Len(parts) : parts[i].range /\ parts[i].lo > parts[i].hi
        BY <3>1, <4>1 DEF p
      <4>3. RangesExpand'
        BY <4>1, <4>2 DEF RangesExpand
      <4> QED BY <2>6, <4>1, <4>3
    <3>7. CASE ExpandRange
      <4>1. /\ end' = "" /\ parts' = parts /\ from' = L /\ p.lo <= p.hi
            /\ results' = FlattenSeq([i \in 1 .. Len(results) |-> Expanded(results[i])])
        <5>1. (L + 1) - 1 = L
          BY <3>3
        <5> QED BY <2>1, <3>4, <3>7, <5>1 DEF ExpandRange
      <4>2. ExpandedTo(parts, h, t, k + 1, results', from')
        BY <3>2, <4>1, ExpandStep
      <4> QED BY <2>5, <3>1, <3>3, <4>1, <4>2
    <3> QED BY <3>5, <3>6, <3>7
  <2> QED BY <2>7, <2>8, <2>9
<1> QED BY <1>2, <1>3

LEMMA InitRangeInv ==
  ASSUME NEW A, Legible(A), Patterns \subseteq Seq(PartRecords(A)), RangeInit
  PROVE  RangeInv(A)
<1> DEFINE N == Len(parts)
           txt == FlattenSeq([i \in 1 .. N |-> Text(parts[i])])
<1>1. parts \in Seq(PartRecords(A)) /\ results = <<txt>> /\ from = 0 /\ end = ""
  BY DEF RangeInit
<1>2. PICK h : Products(h, A, parts)
  BY <1>1, ProductsExist
<1>3. PICK t : Tails(t, A, parts)
  BY <1>1, TailsExist
<1>4. h[0] = <<<<>>>> /\ t[0] = txt /\ t[0] \in Seq(A) /\ N \in Nat
  <2>1. N \in Nat /\ 0 \in 0 .. N
    <3>1. N \in Nat
      BY <1>1, ListIs
    <3> HIDE DEF N
    <3> QED BY <3>1
  <2> QED BY <1>2, <1>3, <2>1 DEF Products, Tails
<1> HIDE DEF txt
<1>5. ExpandedTo(parts, h, t, 0, results, from)
  <2>1. <<>> \o t[0] = t[0]
    BY <1>4
  <2>2. Followed(<<<<>>>>, t[0]) = <<txt>>
    BY <1>4, <2>1 DEF Followed
  <2>3. Len(<<<<>>>>) = 1 /\ Len(<<<<>>>>[1]) = 0
    OBVIOUS
  <2>4. Harmless(results[1], 0, 0)
    BY DEF Harmless
  <2>5. \A m \in 1 .. 0 : FALSE
    OBVIOUS
  <2>6. Len(h[0]) >= 1 /\ Len(h[0][1]) = 0
    BY <1>4, <2>3
  <2>7. results = Followed(h[0], t[0])
    BY <1>1, <1>4, <2>2
  <2>8. from <= Len(h[0][1]) /\ Harmless(results[1], from, Len(h[0][1]))
    <3>1. 0 <= 0
      OBVIOUS
    <3> QED BY <1>1, <2>4, <2>6, <3>1, Zenon
  <2>9. \A m \in 1 .. 0 : ~Backwards(parts[m])
    BY <2>5
  <2> QED BY <2>6, <2>7, <2>8, <2>9 DEF ExpandedTo
<1> HIDE DEF N
<1>6. 0 \in 0 .. Len(parts)
  BY <1>4 DEF N
<1> QED BY <1>1, <1>2, <1>3, <1>5, <1>6 DEF RangeInv

(* For whatever texts, numbers and widths: a pattern becomes the product   *)
(* of its parts, or an error when one of its ranges is inverted; provided  *)
(* that a bracket that is not a range is closed in its own text (one left  *)
(* open would take the next range with it) and that a number written with  *)
(* zeros in front is written to its width.                                 *)
THEOREM RangesAreExpanded ==
  ASSUME NEW A, Legible(A), Patterns \subseteq Seq(PartRecords(A))
  PROVE  RangeSpec => []RangesExpand
<1>1. RangeInit => RangeInv(A)
  BY InitRangeInv
<1>2. RangeInv(A) /\ [RangeNext]_rangeVars => RangeInv(A)'
  BY NextRangeInv
<1>3. RangeInv(A) => RangesExpand
  BY DEF RangeInv, RangesExpand
<1> QED BY <1>1, <1>2, <1>3, PTL DEF RangeSpec
=============================================================================
