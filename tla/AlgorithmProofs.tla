--------------------------- MODULE AlgorithmProofs ---------------------------
(***************************************************************************)
(* What Algorithms says of the pure parts of the program holds for every   *)
(* input: a setting of any width, a file name, a payload and a document of *)
(* any length.                                                             *)
(***************************************************************************)
EXTENDS Algorithms, JsonProofs

\* The inputs do not change.
LEMMA InputsStay == InputSpec => []Inputs
<1>1. Inputs /\ [UNCHANGED inputs]_inputs => Inputs'
  BY DEF Inputs, inputs
<1> QED
  BY <1>1, PTL DEF InputSpec

(***************************************************************************)
(* The upload limit.                                                       *)
(***************************************************************************)

\* A word differs from the integer by a multiple of the number of words.
LEMMA WrapIsCongruent ==
  ASSUME NEW x \in Int, Half \in Nat, Half > 0
  PROVE  /\ wrap(x) \in Word
         /\ \E i \in Int : wrap(x) = x - (2 * Half) * i
<1> DEFINE y == x + Half
           b == 2 * Half
<1>1. y \in Int /\ b \in Int /\ b > 0
  OBVIOUS
<1>2. y % b \in 0 .. b - 1 /\ y = b * (y \div b) + (y % b) /\ y \div b \in Int
  BY <1>1
<1>3. wrap(x) = (y % b) - Half
  BY DEF wrap
<1>4. wrap(x) \in Word
  BY <1>2, <1>3 DEF Word
<1>5. wrap(x) = x - b * (y \div b)
  BY <1>2, <1>3
<1> QED
  BY <1>2, <1>4, <1>5

\* A word holds what fits.
LEMMA WrapKeepsWords ==
  ASSUME NEW x \in Int, Half \in Nat, Half > 0, x \in Word
  PROVE  wrap(x) = x
<1>1. PICK i \in Int : wrap(x) = x - (2 * Half) * i
  BY WrapIsCongruent
<1>2. wrap(x) \in Word
  BY WrapIsCongruent
<1>3. i = 0
  <2>1. CASE i >= 1
    <3>1. (2 * Half) * i >= 2 * Half
      BY <2>1
    <3> QED
      BY <1>1, <1>2, <3>1 DEF Word
  <2>2. CASE i <= -1
    <3>1. (2 * Half) * i <= -(2 * Half)
      BY <2>2
    <3> QED
      BY <1>1, <1>2, <3>1 DEF Word
  <2> QED
    BY <2>1, <2>2
<1> QED
  BY <1>1, <1>3

\* The facts about the constants that the proofs use.
LEMMA Constants ==
  /\ Half \in Nat /\ Half > 0 /\ Kilo \in Nat /\ Kilo >= 2
  /\ Kilo * Kilo \in Nat /\ Kilo * Kilo > 0
  /\ \E n \in Nat : Half = n * Kilo
  /\ 10 * (Kilo * Kilo) < Half - 1
<1>1. Half \in Nat /\ Kilo \in Nat /\ Kilo >= 2
  BY WordsHoldTheDefault DEF WordAssumption
<1>2. PICK m \in 11 .. Half : Half = m * (Kilo * Kilo)
  BY WordsHoldTheDefault DEF WordAssumption
<1> DEFINE square == Kilo * Kilo
<1>3. square \in Nat /\ square > 1
  BY <1>1, Kilo * Kilo >= 2 * Kilo
<1>4. m \in Nat /\ m >= 11
  BY <1>1, <1>2
<1> HIDE DEF square
<1>5. m * square >= 11 * square
  BY <1>3, <1>4
<1>6. Half = m * square
  BY <1>2 DEF square
<1>7. 10 * square < Half - 1 /\ Half > 0
  BY <1>1, <1>3, <1>5, <1>6
<1>8. m * (Kilo * Kilo) = (m * Kilo) * Kilo /\ m * Kilo \in Nat
  BY <1>1, <1>4
<1> QED
  BY <1>1, <1>2, <1>3, <1>7, <1>8 DEF square

\* The two products stay words, and what they give is a multiple of Kilo, so it
\* is never the last word before the wrap.
LEMMA ProductFits ==
  ASSUME NEW x \in Int
  PROVE  /\ maxUploadSizeBytes(x) \in Int
         /\ maxUploadSizeBytes(x) \in Word
         /\ maxUploadSizeBytes(x) < Half - 1
<1> DEFINE w == wrap(x * Kilo)
           v == maxUploadSizeBytes(x)
<1>1. w \in Int /\ w \in Word
  BY Constants, WrapIsCongruent DEF Word
<1>2. w * Kilo \in Int /\ v = wrap(w * Kilo)
  BY <1>1, Constants DEF maxUploadSizeBytes
<1> HIDE DEF w, v
<1>3. PICK i \in Int : v = w * Kilo - (2 * Half) * i
  BY <1>2, Constants, WrapIsCongruent
<1>4. v \in Word
  BY <1>2, Constants, WrapIsCongruent
<1>5. PICK n \in Nat : Half = n * Kilo
  BY Constants
<1> DEFINE j == w - (2 * n) * i
<1>6. j \in Int /\ v = j * Kilo
  BY <1>1, <1>3, <1>5, Constants
<1> HIDE DEF j
<1>7. v < Half
  BY <1>4, Constants DEF Word
<1>8. j < n
  <2> SUFFICES ASSUME j >= n PROVE FALSE
    BY <1>5, <1>6
  <2>1. j * Kilo >= n * Kilo
    BY <1>5, <1>6, Constants
  <2> QED
    BY <2>1, <1>5, <1>6, <1>7
<1>9. (n - 1) * Kilo >= j * Kilo
  BY <1>5, <1>6, <1>8, Constants
<1>10. (n - 1) * Kilo = n * Kilo - Kilo
  BY <1>5, Constants
<1>11. v <= Half - Kilo
  BY <1>5, <1>6, <1>9, <1>10
<1> QED
  BY <1>4, <1>11, Constants DEF v, Word

\* Every setting, also one that overflows, leaves a limit that lets files
\* through and has a successor (server.go:90, gcs.go:51-56 and 115).
LEMMA EverySettingIsUsable ==
  ASSUME NEW FileUploadLimit \in Int
  PROVE  usable(FileUploadLimit)
<1> DEFINE v == maxUploadSizeBytes(FileUploadLimit)
           l == limit(FileUploadLimit)
<1>1. v \in Int /\ v \in Word /\ v < Half - 1
  BY ProductFits
<1>2. l = IF v > 0 THEN v ELSE 10 * (Kilo * Kilo)
  BY DEF limit, maxUploadSize, defaultMaxUploadSizeBytes
<1> HIDE DEF v, l
<1>3. l \in Int /\ l > 0 /\ l < Half - 1
  BY <1>1, <1>2, Constants
<1>4. l \in Word /\ l + 1 \in Word
  BY <1>3, Constants DEF Word
<1>5. wrap(l + 1) = l + 1
  BY <1>3, <1>4, Constants, WrapKeepsWords
<1> QED
  BY <1>3, <1>4, <1>5 DEF usable, readLimit, l

\* The limit is the one asked for if it fits, and never a laxer one
\* (server.go:90).
LEMMA EverySettingIsHonoured ==
  ASSUME NEW FileUploadLimit \in Int
  PROVE  honoured(FileUploadLimit)
<1> DEFINE x == FileUploadLimit
           square == Kilo * Kilo
           asked == x * square
           v == maxUploadSizeBytes(x)
           l == limit(x)
<1> SUFFICES ASSUME x > 0
             PROVE  /\ l <= asked
                    /\ asked < Half => l = asked
  BY DEF honoured
<1>1. asked \in Int /\ asked > 0 /\ asked = (x * Kilo) * Kilo /\ x * Kilo \in Int
  BY Constants
<1>2. v \in Int /\ v < Half - 1
  BY ProductFits
<1>3. l = IF v > 0 THEN v ELSE 10 * square
  BY DEF limit, maxUploadSize, defaultMaxUploadSizeBytes
<1>4. asked < Half => v = asked
  <2> SUFFICES ASSUME asked < Half PROVE v = asked
    OBVIOUS
  <2>1. x * Kilo > 0 /\ x * Kilo <= asked
    BY <1>1, Constants
  <2>2. x * Kilo \in Word /\ asked \in Word
    BY <1>1, <2>1, Constants DEF Word
  <2>3. wrap(x * Kilo) = x * Kilo
    BY <1>1, <2>2, Constants, WrapKeepsWords
  <2>4. wrap(asked) = asked
    BY <1>1, <2>2, Constants, WrapKeepsWords
  <2> QED
    BY <1>1, <2>3, <2>4 DEF maxUploadSizeBytes
<1>5. 10 * square < Half /\ Half \in Nat
  BY Constants
<1> HIDE DEF asked, v, l, square
<1> QED
  BY <1>1, <1>2, <1>3, <1>4, <1>5, Constants DEF square

\* For words of any width: whatever FILE_UPLOAD_LIMIT is, uploads meet a limit
\* that lets files through and that readFileWithLimit can add one to.
THEOREM UsableLimit == InputSpec => []LimitIsUsable
<1>1. Inputs => LimitIsUsable
  BY Constants, EverySettingIsUsable DEF Inputs, LimitIsUsable, Word
<1> QED
  BY <1>1, InputsStay, PTL

\* For words of any width: the limit is the one asked for, or, if that does not
\* fit, a stricter one.
THEOREM HonouredLimit == InputSpec => []LimitIsHonoured
<1>1. Inputs => LimitIsHonoured
  BY Constants, EverySettingIsHonoured DEF Inputs, LimitIsHonoured, Word
<1> QED
  BY <1>1, InputsStay, PTL

(***************************************************************************)
(* JSON documents.                                                         *)
(***************************************************************************)

\* A document of any length and with any members is decoded as the schema says.
THEOREM SchemaMet == InputSpec => []DecodeMeetsSchema
<1>1. Inputs => DecodeMeetsSchema
  BY Tables, DecodeMeetsTheSchema DEF Inputs, DecodeMeetsSchema
<1> QED
  BY <1>1, InputsStay, PTL

\* What is decoded of any document survives being encoded.
THEOREM FaithfulEncoding == InputSpec => []EncodeIsFaithful
<1>1. Inputs => EncodeIsFaithful
  BY Tables, EncodeIsFaithfulToDecode DEF Inputs, EncodeIsFaithful
<1> QED
  BY <1>1, InputsStay, PTL

(***************************************************************************)
(* File names.  What withoutDotPairs keeps of a name are the fragments     *)
(* that are no dot and the last dots of the odd runs, in their order.      *)
(***************************************************************************)

\* One step of withoutDotPairs, at fragment i.
scan(s, rest, i) ==
  IF i > Len(s) THEN << >>
  ELSE IF i < Len(s) /\ s[i] = Dot /\ s[i + 1] = Dot THEN rest[i + 2]
  ELSE <<s[i]>> \o rest[i + 1]

\* The steps, made from the end of the name, have a result for each fragment.
LEMMA ScanHasSolution ==
  ASSUME NEW R, NEW s \in Seq(R)
  PROVE  \E rest : rest = [i \in 1 .. Len(s) + 1 |-> scan(s, rest, i)]
<1> DEFINE L == Len(s)
           sol(k, f) == /\ f = [i \in DOMAIN f |-> f[i]]
                        /\ DOMAIN f = L + 1 - k .. L + 1
                        /\ \A i \in L + 1 - k .. L + 1 : f[i] = scan(s, f, i)
           Solved == {k \in 0 .. L : \E f : sol(k, f)}
<1>0. L \in Nat
  OBVIOUS
<1> HIDE DEF L
<1>1. 0 \in Solved
  <2> DEFINE f == [i \in L + 1 - 0 .. L + 1 |-> << >>]
  <2>1. \A i \in L + 1 - 0 .. L + 1 : scan(s, f, i) = << >>
    BY <1>0 DEF scan, L
  <2>2. sol(0, f)
    BY <2>1
  <2> HIDE DEF sol
  <2> QED
    BY <1>0, <2>2
<1>2. ASSUME NEW k \in 0 .. L - 1, k \in Solved PROVE k + 1 \in Solved
  <2>1. PICK f : sol(k, f)
    BY <1>2
  <2> DEFINE m == L + 1 - (k + 1)
             g == [i \in L + 1 - (k + 1) .. L + 1 |-> IF i = m THEN scan(s, f, i) ELSE f[i]]
  <2>2. \A i \in L + 1 - k .. L + 1 : g[i] = f[i] /\ i \in Int
    BY <1>0
  <2>3. g[m] = scan(s, f, m)
    BY <1>0
  <2>4. DOMAIN g = L + 1 - (k + 1) .. L + 1 /\ g = [i \in DOMAIN g |-> g[i]]
    OBVIOUS
  <2> HIDE DEF g
  <2>5. ASSUME NEW i \in L + 1 - (k + 1) .. L + 1
        PROVE  scan(s, g, i) = scan(s, f, i)
    <3>1. CASE i > L
      BY <3>1 DEF scan, L
    <3>2. CASE i = L
      <4>1. i + 1 \in L + 1 - k .. L + 1
        BY <1>0, <3>2
      <4> QED
        BY <1>0, <2>2, <3>2, <4>1 DEF scan, L
    <3>3. CASE i < L
      <4>1. i + 1 \in L + 1 - k .. L + 1 /\ i + 2 \in L + 1 - k .. L + 1
        BY <1>0, <3>3
      <4> QED
        BY <1>0, <2>2, <3>3, <4>1 DEF scan, L
    <3> QED
      BY <1>0, <3>1, <3>2, <3>3
  <2>6. ASSUME NEW i \in L + 1 - (k + 1) .. L + 1
        PROVE  g[i] = scan(s, g, i)
    <3>1. CASE i = m
      BY <2>3, <2>5, <3>1
    <3>2. CASE i # m
      <4>1. i \in L + 1 - k .. L + 1
        BY <1>0, <3>2
      <4> QED
        BY <2>1, <2>2, <2>5, <4>1
    <3> QED
      BY <3>1, <3>2
  <2>7. sol(k + 1, g)
    BY <2>4, <2>6
  <2> HIDE DEF sol
  <2>8. k + 1 \in 0 .. L
    BY <1>0
  <2> QED
    BY <2>7, <2>8
<1> HIDE DEF Solved
<1>3. \A k \in 0 .. L : k \in Solved
  BY <1>0, <1>1, <1>2, Induction
<1>4. PICK f : sol(L, f)
  BY <1>0, <1>3 DEF Solved
<1>5. L + 1 - L = 1
  BY <1>0
<1>6. /\ f = [i \in DOMAIN f |-> f[i]] /\ DOMAIN f = 1 .. L + 1
      /\ \A i \in 1 .. L + 1 : f[i] = scan(s, f, i)
  BY <1>4, <1>5
<1> SUFFICES \E rest : rest = [i \in 1 .. L + 1 |-> scan(s, rest, i)]
  BY DEF L
<1> QED
  BY <1>6

\* withoutDotPairs is the first value of its scan.
LEMMA Scan ==
  ASSUME NEW R, NEW s \in Seq(R)
  PROVE  \E rest : /\ withoutDotPairs(s) = rest[1]
                   /\ \A i \in 1 .. Len(s) + 1 : rest[i] = scan(s, rest, i)
<1> DEFINE rest == CHOOSE rest : rest = [i \in 1 .. Len(s) + 1 |-> scan(s, rest, i)]
<1>1. rest = [i \in 1 .. Len(s) + 1 |-> scan(s, rest, i)]
  <2> HIDE DEF scan
  <2> QED
    BY ScanHasSolution
<1>2. withoutDotPairs(s) = rest[1]
  BY DEF withoutDotPairs, scan
<1> HIDE DEF rest
<1> QED
  BY <1>1, <1>2

\* A dot makes the run that ends before it one longer.
LEMMA RunLength ==
  ASSUME NEW s, NEW i \in Nat \ {0}
  PROVE  /\ runLength(s, i - 1) \in Nat /\ runLength(s, i) \in Nat
         /\ s[i] = Dot => runLength(s, i) = runLength(s, i - 1) + 1
         /\ s[i] # Dot => runLength(s, i) = 0
<1> DEFINE run(n) == {j \in 1 .. n : \A k \in j .. n : s[k] = Dot}
<1>1. ASSUME NEW n \in Nat PROVE IsFiniteSet(run(n)) /\ Cardinality(run(n)) \in Nat
  <2>1. IsFiniteSet(1 .. n) /\ run(n) \subseteq 1 .. n
    BY FS_Interval
  <2> HIDE DEF run
  <2> QED
    BY <2>1, FS_Subset, FS_CardinalityType
<1>2. i - 1 \in Nat
  OBVIOUS
<1>3. CASE s[i] = Dot
  <2>1. run(i) = run(i - 1) \cup {i} /\ i \notin run(i - 1)
    <3>1. ASSUME NEW j \in 1 .. i - 1
          PROVE  (\A k \in j .. i : s[k] = Dot) <=> (\A k \in j .. i - 1 : s[k] = Dot)
      BY <1>3
    <3>2. \A k \in i .. i : s[k] = Dot
      BY <1>3
    <3> QED
      BY <3>1, <3>2
  <2> HIDE DEF run
  <2>2. Cardinality(run(i)) = Cardinality(run(i - 1)) + 1
    BY <1>1, <1>2, <2>1, FS_AddElement
  <2> QED
    BY <1>1, <1>2, <1>3, <2>2 DEF runLength, run
<1>4. CASE s[i] # Dot
  <2>1. run(i) = {}
    BY <1>4
  <2>2. Cardinality(run(i)) = 0
    BY <2>1, FS_EmptySet
  <2> HIDE DEF run
  <2>3. Cardinality(run(i - 1)) \in Nat
    BY <1>1, <1>2
  <2> QED
    BY <1>4, <2>2, <2>3 DEF runLength, run
<1> QED
  BY <1>3, <1>4

Kept(s) == {i \in 1 .. Len(s) : s[i] # Dot \/ keepsDot(s, i)}

\* ord lists the n numbers of K, lowest first.
Enumerates(ord, n, K) ==
  /\ n \in Nat /\ ord \in [1 .. n -> K]
  /\ \A i, j \in 1 .. n : i < j => ord[i] < ord[j]
  /\ \A k \in K : \E i \in 1 .. n : ord[i] = k

\* The fragments of s that stand at the positions K, in their order.
IsPart(t, s, K) ==
  \E n, ord : Enumerates(ord, n, K) /\ t = [j \in 1 .. n |-> s[ord[j]]]

\* A fragment put before a part.
LEMMA Prepend ==
  ASSUME NEW R, NEW s \in Seq(R), NEW K \in SUBSET (1 .. Len(s)), NEW i \in K, NEW t,
         IsPart(t, s, {k \in K : k >= i + 1})
  PROVE  IsPart(<<s[i]>> \o t, s, {k \in K : k >= i})
<1>1. PICK n, ord : /\ Enumerates(ord, n, {k \in K : k >= i + 1})
                    /\ t = [j \in 1 .. n |-> s[ord[j]]]
  BY DEF IsPart
<1> DEFINE new == [j \in 1 .. n + 1 |-> IF j = 1 THEN i ELSE ord[j - 1]]
           L == Len(s)
<1>2. /\ n \in Nat /\ i \in 1 .. L /\ L \in Nat
      /\ \A j \in 1 .. n : ord[j] \in K /\ ord[j] >= i + 1 /\ ord[j] \in 1 .. L
  <2>1. n \in Nat /\ ord \in [1 .. n -> {k \in K : k >= i + 1}]
    BY <1>1 DEF Enumerates
  <2>2. \A j \in 1 .. n : ord[j] \in {k \in K : k >= i + 1}
    BY <2>1
  <2>3. i \in 1 .. L /\ L \in Nat /\ \A k \in K : k \in 1 .. L
    OBVIOUS
  <2> HIDE DEF L
  <2> QED
    BY <2>1, <2>2, <2>3
<1> HIDE DEF L
<1>3. \A j \in 2 .. n + 1 : j - 1 \in 1 .. n /\ new[j] = ord[j - 1]
  BY <1>2
<1>4. new[1] = i /\ DOMAIN new = 1 .. n + 1 /\ new = [j \in 1 .. n + 1 |-> new[j]]
  BY <1>2
<1> HIDE DEF new
<1>5. ASSUME NEW j \in 1 .. n + 1 PROVE new[j] \in {k \in K : k >= i} /\ new[j] \in 1 .. L
  <2>1. CASE j = 1
    BY <1>2, <1>4, <2>1
  <2>2. CASE j # 1
    <3>1. j - 1 \in 1 .. n /\ new[j] = ord[j - 1]
      BY <1>2, <1>3, <2>2
    <3>2. ord[j - 1] \in K /\ ord[j - 1] >= i + 1 /\ ord[j - 1] \in 1 .. L
      BY <1>2, <3>1
    <3> QED
      BY <1>2, <3>1, <3>2
  <2> QED
    BY <2>1, <2>2
<1>6. ASSUME NEW a \in 1 .. n + 1, NEW b \in 1 .. n + 1, a < b PROVE new[a] < new[b]
  <2>1. b \in 2 .. n + 1
    BY <1>2, <1>6
  <2>2. CASE a = 1
    <3>1. b - 1 \in 1 .. n /\ new[b] = ord[b - 1]
      BY <1>3, <2>1
    <3>2. ord[b - 1] >= i + 1 /\ ord[b - 1] \in 1 .. L
      BY <1>2, <3>1
    <3> QED
      BY <1>2, <1>4, <2>2, <3>1, <3>2
  <2>3. CASE a # 1
    <3>1. a \in 2 .. n + 1 /\ a - 1 < b - 1
      BY <1>2, <1>6, <2>3
    <3> QED
      BY <1>1, <1>3, <2>1, <3>1 DEF Enumerates
  <2> QED
    BY <2>2, <2>3
<1>7. ASSUME NEW k \in K, k >= i PROVE \E j \in 1 .. n + 1 : new[j] = k
  <2>1. CASE k = i
    BY <1>2, <1>4, <2>1
  <2>2. CASE k # i
    <3>1. k >= i + 1
      BY <1>2, <1>7, <2>2
    <3>2. PICK j \in 1 .. n : ord[j] = k
      BY <1>1, <3>1 DEF Enumerates
    <3>3. j + 1 \in 2 .. n + 1 /\ (j + 1) - 1 = j
      BY <1>2
    <3>4. new[j + 1] = ord[j]
      BY <1>3, <3>3
    <3> QED
      BY <1>2, <3>2, <3>3, <3>4
  <2> QED
    BY <2>1, <2>2
<1>8. Enumerates(new, n + 1, {k \in K : k >= i})
  BY <1>2, <1>4, <1>5, <1>6, <1>7 DEF Enumerates
<1>9. <<s[i]>> \o t = [j \in 1 .. n + 1 |-> s[new[j]]]
  <2>1. t \in Seq(R) /\ Len(t) = n /\ s[i] \in R
    BY <1>1, <1>2
  <2>2. /\ <<s[i]>> \o t \in Seq(R) /\ Len(<<s[i]>> \o t) = n + 1
        /\ (<<s[i]>> \o t)[1] = s[i]
        /\ \A j \in 2 .. n + 1 : (<<s[i]>> \o t)[j] = t[j - 1]
    BY <1>2, <2>1
  <2>3. \A j \in 2 .. n + 1 : t[j - 1] = s[ord[j - 1]]
    BY <1>1, <1>3
  <2>4. ASSUME NEW j \in 1 .. n + 1 PROVE (<<s[i]>> \o t)[j] = s[new[j]]
    <3>1. CASE j = 1
      BY <1>4, <2>2, <3>1
    <3>2. CASE j # 1
      <4>1. j \in 2 .. n + 1
        BY <1>2, <3>2
      <4> QED
        BY <1>3, <2>2, <2>3, <4>1
    <3> QED
      BY <3>1, <3>2
  <2> QED
    BY <1>2, <2>2, <2>4
<1> DEFINE F == {k \in K : k >= i}
           u == <<s[i]>> \o t
<1>10. Enumerates(new, n + 1, F) /\ u = [j \in 1 .. n + 1 |-> s[new[j]]]
  BY <1>8, <1>9
<1> HIDE DEF F, u
<1>11. IsPart(u, s, F)
  BY <1>10 DEF IsPart
<1> QED
  BY <1>11 DEF F, u

\* The scan keeps what Kept says: it meets a run of dots at its first one and
\* takes two dots at a time.
LEMMA ScanKeeps ==
  ASSUME NEW R, NEW s \in Seq(R)
  PROVE  IsPart(withoutDotPairs(s), s, Kept(s))
<1> DEFINE L == Len(s)
           K == Kept(s)
           met(i) == i > L \/ s[i] # Dot \/ runLength(s, i - 1) % 2 = 0
<1>0. L \in Nat /\ K \in SUBSET (1 .. L)
  BY DEF Kept
<1>1. PICK rest : /\ withoutDotPairs(s) = rest[1]
                  /\ \A i \in 1 .. L + 1 : rest[i] = scan(s, rest, i)
  BY Scan
<1> DEFINE claim(i) == met(i) => IsPart(rest[i], s, {k \in K : k >= i})
           Good == {k \in 0 .. L : \A i \in L + 1 - k .. L + 1 : claim(i)}
<1>2. claim(L + 1)
  <2>1. rest[L + 1] = << >>
    <3>1. L + 1 \in 1 .. L + 1 /\ L + 1 > Len(s)
      BY <1>0
    <3> HIDE DEF L
    <3>2. rest[L + 1] = scan(s, rest, L + 1)
      BY <1>1, <3>1
    <3> QED
      BY <3>1, <3>2 DEF scan
  <2>2. {k \in K : k >= L + 1} = {}
    BY <1>0
  <2>3. Enumerates(<< >>, 0, {})
    BY DEF Enumerates
  <2>4. IsPart(<< >>, s, {})
    BY <2>3 DEF IsPart
  <2> QED
    BY <2>1, <2>2, <2>4
<1>3. ASSUME NEW i \in 1 .. L, claim(i + 1), i < L => claim(i + 2)
      PROVE  claim(i)
  <2> SUFFICES ASSUME met(i) PROVE IsPart(rest[i], s, {k \in K : k >= i})
    OBVIOUS
  <2>0. i \in Nat \ {0} /\ i \in Int /\ i + 1 \in Nat \ {0} /\ L \in Int /\ (i + 1) - 1 = i
        /\ (i + 2) - 1 = i + 1
    BY <1>0
  <2>1. rest[i] = IF i < L /\ s[i] = Dot /\ s[i + 1] = Dot THEN rest[i + 2]
                  ELSE <<s[i]>> \o rest[i + 1]
    BY <1>0, <1>1 DEF scan
  <2>2. /\ runLength(s, i - 1) \in Nat /\ runLength(s, i) \in Nat
        /\ runLength(s, i + 1) \in Nat
        /\ s[i] = Dot => runLength(s, i) = runLength(s, i - 1) + 1
        /\ s[i] # Dot => runLength(s, i) = 0
        /\ s[i + 1] = Dot => runLength(s, i + 1) = runLength(s, i) + 1
    BY <2>0, RunLength
  <2>3. CASE s[i] = Dot /\ i < L /\ s[i + 1] = Dot
    <3>1. runLength(s, i - 1) % 2 = 0
      BY <2>0, <2>3
    <3>2. runLength(s, i + 1) = runLength(s, i - 1) + 2 /\ runLength(s, i + 1) % 2 = 0
      BY <2>2, <2>3, <3>1
    <3>3. i \notin K /\ i + 1 \notin K
      BY <2>0, <2>3, <3>2 DEF Kept, keepsDot, endsRun
    <3>4. {k \in K : k >= i} = {k \in K : k >= i + 2}
      BY <1>0, <2>0, <3>3
    <3>5. met(i + 2)
      BY <2>0, <3>2
    <3> QED
      BY <1>3, <2>1, <2>3, <3>4, <3>5
  <2>4. CASE ~ (s[i] = Dot /\ i < L /\ s[i + 1] = Dot)
    <3>1. rest[i] = <<s[i]>> \o rest[i + 1]
      BY <2>1, <2>4
    <3>2. i \in K
      <4>1. CASE s[i] # Dot
        BY <4>1 DEF Kept
      <4>2. CASE s[i] = Dot
        <5>1. runLength(s, i - 1) % 2 = 0
          BY <2>0, <4>2
        <5>2. runLength(s, i) % 2 = 1
          BY <2>2, <4>2, <5>1
        <5>3. endsRun(s, i)
          BY <2>0, <2>4, <4>2 DEF endsRun
        <5> QED
          BY <5>2, <5>3 DEF Kept, keepsDot
      <4> QED
        BY <4>1, <4>2
    <3>3. met(i + 1)
      <4>1. CASE i + 1 > L
        BY <4>1
      <4>2. CASE i + 1 <= L /\ s[i] # Dot
        <5>1. runLength(s, i) % 2 = 0
          BY <2>2, <4>2
        <5> QED
          BY <2>0, <5>1
      <4>3. CASE i + 1 <= L /\ s[i] = Dot
        BY <2>0, <2>4, <4>3
      <4> QED
        BY <2>0, <4>1, <4>2, <4>3
    <3>4. IsPart(rest[i + 1], s, {k \in K : k >= i + 1})
      BY <1>3, <3>3
    <3> HIDE DEF K, L
    <3> QED
      BY <1>0, <3>1, <3>2, <3>4, Prepend DEF L
  <2> QED
    BY <2>3, <2>4
<1> HIDE DEF claim
<1>4. 0 \in Good
  <2>1. L + 1 - 0 .. L + 1 = {L + 1} /\ 0 \in 0 .. L
    BY <1>0
  <2> QED
    BY <1>2, <2>1
<1>5. ASSUME NEW k \in 0 .. L - 1, k \in Good PROVE k + 1 \in Good
  <2> DEFINE i == L - k
  <2>1. /\ i \in 1 .. L /\ i + 1 \in L + 1 - k .. L + 1
        /\ (i < L => i + 2 \in L + 1 - k .. L + 1) /\ k + 1 \in 0 .. L
    BY <1>0
  <2>2. claim(i)
    BY <1>3, <1>5, <2>1
  <2>3. \A j \in L + 1 - (k + 1) .. L + 1 : j = i \/ j \in L + 1 - k .. L + 1
    BY <1>0
  <2> QED
    BY <1>5, <2>1, <2>2, <2>3
<1> HIDE DEF Good
<1>6. \A k \in 0 .. L : k \in Good
  BY <1>0, <1>4, <1>5, Induction
<1>7. claim(1)
  <2>1. L \in Good /\ 1 \in L + 1 - L .. L + 1
    BY <1>0, <1>6
  <2> QED
    BY <2>1 DEF Good
<1>8. met(1)
  <2>1. runLength(s, 0) = 0
    <3>1. {j \in 1 .. 0 : \A k \in j .. 0 : s[k] = Dot} = {}
      OBVIOUS
    <3> QED
      BY <3>1, FS_EmptySet DEF runLength
  <2> QED
    BY <2>1
<1>9. {k \in K : k >= 1} = K
  BY <1>0
<1> HIDE DEF K, L
<1> QED
  BY <1>1, <1>7, <1>8, <1>9 DEF claim, K, L

\* The next number listed is the next number there is.
LEMMA Neighbours ==
  ASSUME NEW L \in Nat, NEW K \in SUBSET (1 .. L), NEW n, NEW ord, Enumerates(ord, n, K)
  PROVE  /\ n \in Nat /\ \A j \in 1 .. n : ord[j] \in K /\ ord[j] \in 1 .. L
         /\ \A j \in 1 .. n, k \in K : ord[j] < k => j + 1 \in 1 .. n /\ ord[j + 1] <= k
<1>1. n \in Nat /\ \A j \in 1 .. n : ord[j] \in K /\ ord[j] \in 1 .. L
  BY DEF Enumerates
<1>2. \A i, j \in 1 .. n : i < j => ord[i] < ord[j]
  BY DEF Enumerates
<1>3. ASSUME NEW j \in 1 .. n, NEW k \in K, ord[j] < k
      PROVE  j + 1 \in 1 .. n /\ ord[j + 1] <= k
  <2>1. PICK m \in 1 .. n : ord[m] = k
    BY DEF Enumerates
  <2>2. ~ (m < j) /\ m # j
    BY <1>1, <1>2, <1>3, <2>1
  <2>3. j + 1 \in 1 .. n /\ (m = j + 1 \/ j + 1 < m)
    BY <1>1, <2>2
  <2> QED
    BY <1>1, <1>2, <2>1, <2>3
<1> QED
  BY <1>1, <1>3

\* What becomes of a fragment that is kept.
clean(x) == IF x \in AllowedTokens \cup {Dot} THEN x ELSE "_"

\* Cleaning makes no dots and loses none.
LEMMA Clean ==
  ASSUME NEW x
  PROVE  /\ clean(x) \in AllowedTokens \cup {Dot}
         /\ clean(x) = Dot <=> x = Dot
         /\ x \in AllowedTokens \cup {Dot} => clean(x) = x
BY AllowedAssumption DEF clean, Dot

\* A sanitized name is what is kept of it, in its order and cleaned.
LEMMA Sanitized ==
  ASSUME NEW R, NEW s \in Seq(R)
  PROVE  \E n, ord : /\ Enumerates(ord, n, Kept(s))
                     /\ sanitizeFilename(s) = [j \in 1 .. n |-> clean(s[ord[j]])]
<1>1. PICK n, ord : /\ Enumerates(ord, n, Kept(s))
                    /\ withoutDotPairs(s) = [j \in 1 .. n |-> s[ord[j]]]
  BY ScanKeeps DEF IsPart
<1> DEFINE kept == withoutDotPairs(s)
<1>2. n \in Nat
  BY <1>1 DEF Enumerates
<1>3. Len(kept) = n
  BY <1>1, <1>2
<1>4. \A j \in 1 .. n : kept[j] = s[ord[j]]
  BY <1>1
<1>5. sanitizeFilename(s) = [i \in 1 .. Len(kept) |-> clean(kept[i])]
  BY DEF sanitizeFilename, clean
<1> HIDE DEF kept
<1>6. sanitizeFilename(s) = [j \in 1 .. n |-> clean(s[ord[j]])]
  BY <1>3, <1>4, <1>5
<1> QED
  BY <1>1, <1>6

\* No two dots that are kept stay neighbours: what follows the first is kept.
LEMMA NoTwoDots ==
  ASSUME NEW R, NEW s \in Seq(R), NEW n, NEW ord, Enumerates(ord, n, Kept(s)),
         NEW j \in 1 .. n, j + 1 \in 1 .. n, s[ord[j]] = Dot
  PROVE  s[ord[j + 1]] # Dot /\ ord[j + 1] = ord[j] + 1
<1> DEFINE L == Len(s)
<1>1. L \in Nat /\ Kept(s) \in SUBSET (1 .. L)
  BY DEF Kept
<1> HIDE DEF L
<1>2. /\ n \in Nat /\ ord[j] \in Kept(s) /\ ord[j] \in 1 .. L /\ ord[j + 1] \in 1 .. L
      /\ \A k \in Kept(s) : ord[j] < k => ord[j + 1] <= k
  BY <1>1, Neighbours
<1>3. ord[j] < ord[j + 1]
  BY <1>2 DEF Enumerates
<1>4. s[ord[j] + 1] # Dot
  BY <1>1, <1>2, <1>3 DEF Kept, keepsDot, endsRun, L
<1>5. ord[j] + 1 \in Kept(s)
  BY <1>1, <1>2, <1>3, <1>4 DEF Kept, L
<1>6. ord[j + 1] <= ord[j] + 1
  BY <1>1, <1>2, <1>5
<1> QED
  BY <1>1, <1>2, <1>3, <1>4, <1>6

\* A clean name stays as it is.
LEMMA CleanNameStays ==
  ASSUME NEW s \in Seq(AllowedTokens \cup {Dot}),
         \A i \in 1 .. Len(s) - 1 : ~ (s[i] = Dot /\ s[i + 1] = Dot)
  PROVE  sanitizeFilename(s) = s
<1> DEFINE L == Len(s)
<1>1. L \in Nat /\ DOMAIN s = 1 .. L /\ s = [i \in 1 .. L |-> s[i]]
      /\ \A i \in 1 .. L : s[i] \in AllowedTokens \cup {Dot}
  OBVIOUS
<1>2. \A i \in 1 .. L - 1 : ~ (s[i] = Dot /\ s[i + 1] = Dot)
  OBVIOUS
<1>3. PICK n, ord : /\ Enumerates(ord, n, Kept(s))
                    /\ sanitizeFilename(s) = [j \in 1 .. n |-> clean(s[ord[j]])]
  BY Sanitized
<1>4. Kept(s) = 1 .. L
  <2>1. ASSUME NEW i \in 1 .. L, s[i] = Dot PROVE keepsDot(s, i)
    <3>1. endsRun(s, i)
      BY <1>1, <1>2, <2>1 DEF endsRun
    <3>2. runLength(s, i) = runLength(s, i - 1) + 1 /\ i \in Nat \ {0}
      BY <1>1, <2>1, RunLength
    <3>3. runLength(s, i - 1) = 0
      <4>1. CASE i = 1
        <5>1. {j \in 1 .. 0 : \A k \in j .. 0 : s[k] = Dot} = {} /\ i - 1 = 0
          BY <4>1
        <5> QED
          BY <5>1, FS_EmptySet DEF runLength
      <4>2. CASE i # 1
        <5>1. i - 1 \in 1 .. L - 1 /\ (i - 1) + 1 = i /\ i - 1 \in Nat \ {0}
          BY <1>1, <4>2
        <5>2. s[i - 1] # Dot
          BY <1>2, <2>1, <5>1
        <5> QED
          BY <5>1, <5>2, RunLength
      <4> QED
        BY <4>1, <4>2
    <3>4. runLength(s, i) % 2 = 1
      BY <3>2, <3>3
    <3> QED
      BY <3>1, <3>4 DEF keepsDot
  <2> QED
    BY <2>1 DEF Kept
<1> HIDE DEF L
<1>5. /\ n \in Nat /\ \A j \in 1 .. n : ord[j] \in 1 .. L
      /\ \A j \in 1 .. n, k \in 1 .. L : ord[j] < k => j + 1 \in 1 .. n /\ ord[j + 1] <= k
  BY <1>1, <1>3, <1>4, Neighbours
<1>6. /\ \A i, j \in 1 .. n : i < j => ord[i] < ord[j]
      /\ \A k \in 1 .. L : \E i \in 1 .. n : ord[i] = k
  BY <1>3, <1>4 DEF Enumerates
<1> DEFINE Same == {j \in 0 .. n : j = 0 \/ ord[j] = j}
<1>7. ASSUME NEW j \in 0 .. n - 1, j \in Same PROVE j + 1 \in Same
  <2>1. CASE j = 0
    <3>1. 1 \in 1 .. n /\ ord[1] \in 1 .. L
      BY <1>5, <2>1
    <3>2. 1 \in 1 .. L
      BY <1>1, <3>1
    <3>3. PICK m \in 1 .. n : ord[m] = 1
      BY <1>6, <3>2
    <3>4. ~ (1 < m)
      BY <1>1, <1>6, <3>1, <3>3
    <3> QED
      BY <1>5, <2>1, <3>1, <3>3, <3>4
  <2>2. CASE j # 0
    <3>1. j \in 1 .. n /\ j + 1 \in 1 .. n /\ ord[j] = j
      BY <1>5, <1>7, <2>2
    <3>2. ord[j] < ord[j + 1] /\ ord[j + 1] \in 1 .. L
      BY <1>5, <1>6, <3>1
    <3>3. j + 1 \in 1 .. L
      BY <1>1, <3>1, <3>2
    <3>4. ord[j + 1] <= j + 1
      BY <1>5, <3>1, <3>3
    <3> QED
      BY <1>1, <3>1, <3>2, <3>4
  <2> QED
    BY <2>1, <2>2
<1> HIDE DEF Same
<1>8. \A j \in 0 .. n : j \in Same
  <2>1. 0 \in Same
    BY <1>5 DEF Same
  <2> QED
    BY <1>5, <1>7, <2>1, Induction
<1>9. \A j \in 1 .. n : ord[j] = j
  BY <1>5, <1>8 DEF Same
<1>10. n = L
  <2>1. ~ (n > L)
    BY <1>1, <1>5, <1>9
  <2>2. ~ (n < L)
    <3> SUFFICES ASSUME n < L PROVE FALSE
      OBVIOUS
    <3>1. L \in 1 .. L
      BY <1>1, <1>5
    <3>2. PICK m \in 1 .. n : ord[m] = L
      BY <1>6, <3>1
    <3> QED
      BY <1>1, <1>5, <1>9, <3>2
  <2> QED
    BY <1>1, <1>5, <2>1, <2>2
<1>11. \A j \in 1 .. L : clean(s[j]) = s[j]
  BY <1>1, Clean
<1>12. sanitizeFilename(s) = [j \in 1 .. L |-> s[j]]
  BY <1>3, <1>9, <1>10, <1>11
<1> QED
  BY <1>1, <1>12

positions(ord, n, D) == {j \in 1 .. n : ord[j] \in D}

\* As many are listed as there are.
LEMMA EnumeratesCount ==
  ASSUME NEW L \in Nat, NEW K \in SUBSET (1 .. L), NEW n, NEW ord, Enumerates(ord, n, K)
  PROVE  /\ IsFiniteSet(K) /\ Cardinality(K) = n
         /\ \A D \in SUBSET K : Cardinality(positions(ord, n, D)) = Cardinality(D)
<1>1. /\ n \in Nat /\ \A j \in 1 .. n : ord[j] \in K /\ ord[j] \in 1 .. L
      /\ \A i, j \in 1 .. n : ord[i] = ord[j] => i = j
  <2>1. n \in Nat /\ \A j \in 1 .. n : ord[j] \in K /\ ord[j] \in 1 .. L
    BY Neighbours
  <2>2. \A i, j \in 1 .. n : i < j => ord[i] < ord[j]
    BY DEF Enumerates
  <2>3. ASSUME NEW i \in 1 .. n, NEW j \in 1 .. n, ord[i] = ord[j] PROVE i = j
    <3>1. ~ (i < j) /\ ~ (j < i)
      BY <2>1, <2>2, <2>3
    <3> QED
      BY <2>1, <3>1
  <2> QED
    BY <2>1, <2>3
<1>2. \A k \in K : \E i \in 1 .. n : ord[i] = k
  BY DEF Enumerates
<1>3. IsFiniteSet(1 .. n) /\ Cardinality(1 .. n) = n /\ IsFiniteSet(1 .. L)
  BY <1>1, FS_Interval
<1>4. IsFiniteSet(K)
  BY <1>3, FS_Subset
<1>5. ASSUME NEW C \in SUBSET K
      PROVE  Cardinality({j \in 1 .. n : ord[j] \in C}) = Cardinality(C)
  <2> DEFINE I == {j \in 1 .. n : ord[j] \in C}
             g == [j \in I |-> ord[j]]
  <2>1. g \in [I -> C]
    OBVIOUS
  <2>2. \A a, b \in I : g[a] = g[b] => a = b
    BY <1>1
  <2>3. \A c \in C : \E a \in I : g[a] = c
    BY <1>2
  <2>4. IsFiniteSet(I)
    BY <1>3, FS_Subset
  <2> HIDE DEF g, I
  <2>5. g \in Bijection(I, C)
    BY <2>1, <2>2, <2>3 DEF Bijection, Injection, Surjection, IsInjective
  <2>6. Cardinality(I) = Cardinality(C)
    BY <2>4, <2>5, FS_Bijection DEF ExistsBijection
  <2> QED
    BY <2>6 DEF I
<1>6. {j \in 1 .. n : ord[j] \in K} = 1 .. n
  BY <1>1
<1>7. Cardinality(K) = n
  BY <1>3, <1>5, <1>6
<1> QED
  BY <1>4, <1>5, <1>7 DEF positions

\* Whatever the name is, what is left of it can be an object's name, and says
\* how many dots it had in which runs.
THEOREM SafeNames == InputSpec => []SanitizedIsSafe
<1>1. Inputs => SanitizedIsSafe
  <2> SUFFICES ASSUME name \in Seq(Fragments) PROVE SanitizedIsSafe
    BY DEF Inputs
  <2> DEFINE L == Len(name)
             K == Kept(name)
  <2>1. PICK n, ord : /\ Enumerates(ord, n, K)
                      /\ object = [j \in 1 .. n |-> clean(name[ord[j]])]
    BY Sanitized DEF object
  <2>2. L \in Nat /\ K \in SUBSET (1 .. L) /\ DOMAIN name = 1 .. L
    BY DEF Kept
  <2>3. n \in Nat /\ \A j \in 1 .. n : ord[j] \in K /\ ord[j] \in 1 .. L
    BY <2>1, <2>2, Neighbours
  <2>4. /\ object \in Seq(AllowedTokens \cup {Dot}) /\ Len(object) = n
        /\ DOMAIN object = 1 .. n
        /\ \A j \in 1 .. n : /\ object[j] \in AllowedTokens \cup {Dot}
                             /\ object[j] = Dot <=> name[ord[j]] = Dot
    BY <2>1, <2>3, Clean
  <2>5. \A i \in 1 .. Len(object) - 1 : ~ (object[i] = Dot /\ object[i + 1] = Dot)
    <3> SUFFICES ASSUME NEW i \in 1 .. n - 1, name[ord[i]] = Dot
                 PROVE  name[ord[i + 1]] # Dot
      BY <2>3, <2>4
    <3>1. i \in 1 .. n /\ i + 1 \in 1 .. n
      BY <2>3
    <3> QED
      BY <2>1, <3>1, NoTwoDots
  <2>6. sanitizeFilename(object) = object
    BY <2>4, <2>5, CleanNameStays
  <2> DEFINE dots == {i \in 1 .. L : keepsDot(name, i)}
             others == {i \in 1 .. L : name[i] # Dot}
  <2>7. /\ dots = {k \in K : name[k] = Dot} /\ dots \in SUBSET K
        /\ K = dots \cup others /\ dots \cap others = {} /\ others \in SUBSET K
    BY DEF Kept, keepsDot, endsRun
  <2> HIDE DEF K, L, dots, others
  <2>8. /\ IsFiniteSet(K) /\ Cardinality(K) = n
        /\ Cardinality({j \in 1 .. n : ord[j] \in dots}) = Cardinality(dots)
    <3>1. IsFiniteSet(K) /\ Cardinality(K) = n
      BY <2>1, <2>2, <2>7, EnumeratesCount
    <3>2. Cardinality(positions(ord, n, dots)) = Cardinality(dots)
      <4>0. L \in Nat /\ K \in SUBSET (1 .. L) /\ Enumerates(ord, n, K)
        BY <2>1, <2>2
      <4>1. \A D \in SUBSET K : Cardinality(positions(ord, n, D)) = Cardinality(D)
        BY ONLY <4>0, EnumeratesCount
      <4>2. dots \in SUBSET K
        BY <2>7
      <4> QED
        BY <4>1, <4>2, Zenon
    <3> QED
      BY <3>1, <3>2 DEF positions
  <2>9. {i \in DOMAIN object : object[i] = Dot} = {j \in 1 .. n : ord[j] \in dots}
    BY <2>3, <2>4, <2>7
  <2>10. Cardinality(dots) + Cardinality(others) = n
    <3>1. IsFiniteSet(dots) /\ IsFiniteSet(others)
      BY <2>7, <2>8, FS_Subset
    <3>2. /\ Cardinality(dots) \in Nat /\ Cardinality(others) \in Nat
          /\ Cardinality(dots \cap others) = 0
      BY <2>7, <3>1, FS_CardinalityType, FS_EmptySet
    <3>3. Cardinality(dots \cup others)
            = Cardinality(dots) + Cardinality(others) - Cardinality(dots \cap others)
      BY <3>1, FS_Union
    <3>4. Cardinality(K) = Cardinality(dots \cup others)
      BY <2>7, Zenon
    <3> QED
      BY <2>8, <3>2, <3>3, <3>4
  <2>11. keptDots = Cardinality(dots)
    BY <2>2 DEF keptDots, dots
  <2>12. Cardinality(dots) \in Nat /\ Cardinality(others) \in Nat
    BY <2>7, <2>8, FS_Subset, FS_CardinalityType
  <2>13. {i \in DOMAIN name : name[i] # Dot} = others
    BY <2>2 DEF others
  <2>14. Cardinality({i \in DOMAIN object : object[i] = Dot}) = keptDots
    BY <2>8, <2>9, <2>11
  <2>15. Len(object) - keptDots = Cardinality({i \in DOMAIN name : name[i] # Dot})
    <3>1. Cardinality({i \in DOMAIN name : name[i] # Dot}) = Cardinality(others)
      BY <2>13, Zenon
    <3> QED
      BY <2>3, <2>4, <2>10, <2>11, <2>12, <3>1
  <2>16. \A i \in DOMAIN object : object[i] \in AllowedTokens \cup {Dot}
    BY <2>4
  <2> QED
    BY <2>5, <2>6, <2>14, <2>15, <2>16 DEF SanitizedIsSafe
<1> QED
  BY <1>1, InputsStay, PTL

\* The extension is what follows the last dot.
LEMMA ExtensionOfTwo ==
  ASSUME NEW R, NEW s \in Seq(R), NEW e \in {"csv", "xlsx"}
  PROVE  extension(s) = <<e>> <=>
           /\ Len(s) >= 2 /\ s[Len(s) - 1] = Dot /\ s[Len(s)] # Dot /\ lower(s[Len(s)]) = e
<1> DEFINE L == Len(s)
           dots == {i \in 1 .. L : s[i] = Dot}
           last == CHOOSE i \in dots : \A j \in dots : j <= i
<1>1. L \in Nat
  OBVIOUS
<1>2. extension(s) = IF dots = {} THEN << >> ELSE [i \in 1 .. L - last |-> lower(s[last + i])]
  BY DEF extension
<1> HIDE DEF L
<1>3. dots # {} => last \in dots /\ \A j \in dots : j <= last
  <2> SUFFICES ASSUME dots # {} PROVE \E i \in dots : \A j \in dots : j <= i
    OBVIOUS
  <2>1. dots \in SUBSET (1 .. L)
    OBVIOUS
  <2> HIDE DEF dots
  <2> QED
    BY <1>1, <2>1, Greatest
<1> HIDE DEF last
<1>4. ASSUME extension(s) = <<e>>
      PROVE  L >= 2 /\ s[L - 1] = Dot /\ s[L] # Dot /\ lower(s[L]) = e
  <2>1. dots # {} /\ last \in dots
    BY <1>2, <1>3, <1>4
  <2>2. <<e>> = [i \in 1 .. L - last |-> lower(s[last + i])] /\ last \in 1 .. L /\ s[last] = Dot
    BY <1>2, <1>4, <2>1
  <2>3. L - last = 1
    <3>1. DOMAIN <<e>> = 1 .. 1
      OBVIOUS
    <3>2. 1 .. L - last = 1 .. 1
      BY <2>2, <3>1
    <3>3. 1 \in 1 .. L - last /\ 2 \notin 1 .. L - last
      BY <3>2
    <3> QED
      BY <1>1, <2>2, <3>3
  <2>4. <<e>>[1] = lower(s[last + 1])
    BY <2>2, <2>3
  <2>5. last = L - 1 /\ L \notin dots
    BY <1>1, <1>3, <2>1, <2>2, <2>3
  <2> QED
    BY <1>1, <2>2, <2>4, <2>5
<1>5. ASSUME L >= 2, s[L - 1] = Dot, s[L] # Dot, lower(s[L]) = e
      PROVE  extension(s) = <<e>>
  <2>1. L - 1 \in dots /\ \A j \in dots : j <= L - 1
    BY <1>1, <1>5
  <2>2. last = L - 1
    BY <1>1, <1>3, <2>1
  <2>3. extension(s) = [i \in 1 .. 1 |-> lower(s[(L - 1) + i])]
    BY <1>1, <1>2, <2>1, <2>2
  <2>4. extension(s) = [i \in 1 .. 1 |-> e]
    BY <1>1, <1>5, <2>3
  <2> QED
    BY <2>4
<1> QED
  BY <1>4, <1>5 DEF L

\* The spellings of an extension.
LEMMA Lower ==
  ASSUME NEW x
  PROVE  /\ lower(x) = "csv" <=> x \in {"csv", "CSV"}
         /\ lower(x) = "xlsx" <=> x \in {"xlsx", "XLSX"}
         /\ x \in {"csv", "CSV", "xlsx", "XLSX"} => x # Dot /\ clean(x) = x
<1>1. x \in {"csv", "CSV", "xlsx", "XLSX"} => x # Dot /\ clean(x) = x
  BY AllowedAssumption DEF clean, Dot
<1> QED
  BY <1>1 DEF lower

\* Whatever the name is, the dots right before the extension decide whether it
\* is kept.
THEOREM KeptExtension == InputSpec => []ExtensionKeptUnlessDoubled
<1>1. Inputs => ExtensionKeptUnlessDoubled
  <2> SUFFICES ASSUME name \in Seq(Fragments), NEW e \in {"csv", "xlsx"},
                      extension(name) = <<e>>, NEW last \in DOMAIN name, name[last] = Dot,
                      \A j \in last + 1 .. Len(name) : name[j] # Dot
               PROVE  extension(object) = <<e>> <=> runLength(name, last) % 2 = 1
    BY DEF Inputs, ExtensionKeptUnlessDoubled
  <2> DEFINE L == Len(name)
             K == Kept(name)
  <2>1. PICK n, ord : /\ Enumerates(ord, n, K)
                      /\ object = [j \in 1 .. n |-> clean(name[ord[j]])]
    BY Sanitized DEF object
  <2>2. L \in Nat /\ K \in SUBSET (1 .. L) /\ DOMAIN name = 1 .. L
    BY DEF Kept
  <2>3. /\ L >= 2 /\ name[L - 1] = Dot /\ name[L] # Dot
        /\ name[L] \in {"csv", "CSV", "xlsx", "XLSX"} /\ lower(name[L]) = e
    BY ExtensionOfTwo, Lower
  <2>4. last = L - 1
    BY <2>2, <2>3
  <2>5. L \in K /\ L - 1 \in 1 .. L /\ (L - 1 \in K <=> runLength(name, L - 1) % 2 = 1)
    <3>1. L \in 1 .. L /\ L - 1 \in 1 .. L /\ (L - 1) + 1 = L
      BY <2>2, <2>3
    <3>2. endsRun(name, L - 1)
      BY <2>3, <3>1 DEF endsRun
    <3>3. \A i : i \in K <=> i \in 1 .. L /\ (name[i] # Dot \/ keepsDot(name, i))
      BY DEF Kept
    <3> HIDE DEF K, L
    <3> QED
      BY <2>3, <3>1, <3>2, <3>3 DEF keepsDot
  <2> HIDE DEF K, L
  <2>6. /\ n \in Nat /\ \A j \in 1 .. n : ord[j] \in K /\ ord[j] \in 1 .. L
        /\ \A j \in 1 .. n, k \in K : ord[j] < k => j + 1 \in 1 .. n /\ ord[j + 1] <= k
    BY <2>1, <2>2, Neighbours
  <2>7. /\ \A i, j \in 1 .. n : i < j => ord[i] < ord[j]
        /\ \A k \in K : \E i \in 1 .. n : ord[i] = k
    BY <2>1 DEF Enumerates
  <2>8. n \in 1 .. n /\ ord[n] = L
    <3>1. PICK i \in 1 .. n : ord[i] = L
      BY <2>5, <2>7
    <3>2. n \in 1 .. n
      BY <2>6, <3>1
    <3>3. ~ (i < n)
      <4> SUFFICES ASSUME i < n PROVE FALSE
        OBVIOUS
      <4>1. ord[i] < ord[n]
        BY ONLY <2>7, <3>2, i < n, i \in 1 .. n
      <4>2. ord[n] \in 1 .. L
        BY <2>6, <3>2
      <4> QED
        BY ONLY <2>2, <3>1, <4>1, <4>2
    <3> QED
      BY <2>6, <3>1, <3>2, <3>3
  <2>9. /\ object \in Seq(AllowedTokens \cup {Dot}) /\ Len(object) = n
        /\ \A j \in 1 .. n : object[j] = Dot <=> name[ord[j]] = Dot
        /\ object[n] = name[L] /\ object[n] # Dot /\ lower(object[n]) = e
    <3>1. object \in Seq(AllowedTokens \cup {Dot}) /\ Len(object) = n
      BY <2>1, <2>6, Clean
    <3>2. \A j \in 1 .. n : object[j] = Dot <=> name[ord[j]] = Dot
      BY <2>1, Clean
    <3>3. object[n] = clean(name[L])
      BY <2>1, <2>8
    <3> QED
      BY <2>3, <3>1, <3>2, <3>3, Lower
  <2>10. ASSUME extension(object) = <<e>> PROVE runLength(name, L - 1) % 2 = 1
    <3>1. n >= 2 /\ object[n - 1] = Dot
      BY <2>9, <2>10, ExtensionOfTwo
    <3>2. n - 1 \in 1 .. n /\ (n - 1) + 1 = n
      BY <2>6, <3>1
    <3>3. name[ord[n - 1]] = Dot
      BY <2>9, <3>1, <3>2
    <3>4. ord[n] = ord[n - 1] + 1
      BY <2>1, <2>8, <3>2, <3>3, NoTwoDots DEF K
    <3>5. ord[n - 1] = L - 1 /\ ord[n - 1] \in K
      BY <2>2, <2>6, <2>8, <3>2, <3>4
    <3> QED
      BY <2>5, <3>5
  <2>11. ASSUME runLength(name, L - 1) % 2 = 1 PROVE extension(object) = <<e>>
    <3>1. L - 1 \in K
      BY <2>5, <2>11
    <3>2. PICK m \in 1 .. n : ord[m] = L - 1
      BY <2>7, <3>1
    <3>3. m + 1 \in 1 .. n /\ ord[m + 1] <= L
      BY <2>2, <2>5, <2>6, <3>2
    <3>4. m + 1 = n
      <4>1. ~ (m + 1 < n)
        <5> SUFFICES ASSUME m + 1 < n PROVE FALSE
          OBVIOUS
        <5>1. ord[m] < ord[m + 1] /\ ord[m + 1] < ord[n]
          BY <2>6, <2>7, <2>8, <3>3
        <5>2. ord[m + 1] \in 1 .. L
          BY <2>6, <3>3
        <5> QED
          BY <2>2, <2>8, <3>2, <5>1, <5>2
      <4> QED
        BY <2>6, <3>3, <4>1
    <3>5. n >= 2 /\ object[n - 1] = Dot
      BY <2>3, <2>6, <2>9, <3>2, <3>4
    <3> QED
      BY <2>9, <3>5, ExtensionOfTwo
  <2> QED
    BY <2>4, <2>10, <2>11 DEF L
<1> QED
  BY <1>1, InputsStay, PTL

\* Acceptance, for the inputs of a state.
LEMMA AcceptedInputs == Inputs => AcceptedIffWholeAndTyped
<1> SUFFICES ASSUME Inputs PROVE AcceptedIffWholeAndTyped
  OBVIOUS
<1>1. /\ file.nil \in BOOLEAN /\ file.readErr \in BOOLEAN /\ file.declared \in Nat
      /\ file.len \in Nat /\ MaxSize \in Nat
      /\ file.sniff.mime \in {"text/plain", "application/zip"}
      /\ file.sniff.firstRecord \in {"ok", "error", "EOF"}
      /\ file.sniff.zipMagic \in BOOLEAN
  BY MaxSizeAssumption DEF Inputs, Sniffs
<1>2. object \in Seq(AllowedTokens \cup {Dot})
  <2>1. PICK n, ord : /\ Enumerates(ord, n, Kept(name))
                      /\ object = [j \in 1 .. n |-> clean(name[ord[j]])]
    BY Sanitized DEF object, Inputs
  <2>2. n \in Nat
    BY <2>1 DEF Enumerates
  <2> QED
    BY <2>1, <2>2, Clean
<1>3. /\ extension(object) = <<"csv">> <=> endsIn({"csv", "CSV"})
      /\ extension(object) = <<"xlsx">> <=> endsIn({"xlsx", "XLSX"})
  BY <1>2, ExtensionOfTwo, Lower DEF endsIn
<1>4. (endsIn({"csv", "CSV"}) \/ endsIn({"xlsx", "XLSX"})) => object # << >>
  BY <1>2 DEF endsIn
<1>5. readFileWithLimit(file, MaxSize) = "nil" <=>
        /\ ~ file.nil /\ ~ file.readErr
        /\ file.len \in 1 .. MaxSize /\ file.declared \in 0 .. MaxSize
  BY <1>1 DEF readFileWithLimit, readFails, bytesRead
<1>6. file.len \in 1 .. MaxSize => bytesRead(file, MaxSize) = file.len
  BY <1>1 DEF bytesRead
<1>7. looksLikeCSV(file.sniff) <=>
        file.sniff.mime # "application/zip" /\ file.sniff.firstRecord # "error"
  BY <1>1 DEF looksLikeCSV
<1>8. detectContentType(object, file.sniff) \in ContentTypes <=>
        \/ extension(object) = <<"csv">> /\ looksLikeCSV(file.sniff)
        \/ extension(object) = <<"xlsx">> /\ file.sniff.zipMagic
  BY DEF detectContentType, ContentTypes
<1>9. "nil" \notin ContentTypes /\ detectContentType(object, file.sniff) # "nil"
  BY DEF detectContentType, ContentTypes
<1>10. validationError(name, file, MaxSize) = "nil" <=>
         /\ object # << >> /\ readFileWithLimit(file, MaxSize) = "nil"
         /\ detectContentType(object, file.sniff) \in ContentTypes
  BY <1>9 DEF validationError, object
<1> QED
  BY <1>3, <1>4, <1>5, <1>6, <1>7, <1>8, <1>10 DEF AcceptedIffWholeAndTyped

\* Whatever the name and the file are, only a whole file of a known type, of a
\* size within the limit, gets as far as Cloud Storage.
THEOREM OnlyWholeFiles == InputSpec => []AcceptedIffWholeAndTyped
BY AcceptedInputs, InputsStay, PTL

(***************************************************************************)
(* The csv sniff.                                                          *)
(***************************************************************************)
CsvStates == {"blank", "field", "plain", "quoted", "quote", "end", "error"}

\* In these states a record may end.
Whole == {"field", "plain", "quote"}

\* The states the reader goes through on a text.
Reads(st, s) ==
  /\ st \in [0 .. Len(s) -> CsvStates]
  /\ st[0] = "blank"
  /\ \A i \in 1 .. Len(s) : st[i] = read(st[i - 1], s[i])

\* What the reader does with a character.
LEMMA ReadStep ==
  ASSUME NEW at \in CsvStates, NEW ch
  PROVE  /\ read(at, ch) \in CsvStates
         /\ at \in {"end", "error"} => read(at, ch) = at
         /\ at = "quoted" => read(at, ch) = IF ch = Quote THEN "quote" ELSE "quoted"
         /\ at # "quoted" /\ ch = Comma /\ at \notin {"end", "error"} => read(at, ch) = "field"
         /\ at \in Whole /\ ch = LineEnd => read(at, ch) = "end"
         /\ at = "blank" /\ ch = LineEnd => read(at, ch) = "blank"
         /\ at = "quote" /\ ch = Quote => read(at, ch) = "quoted"
         /\ at \in {"field", "blank"} /\ ch = Quote => read(at, ch) = "quoted"
         /\ at = "plain" /\ ch = Quote => read(at, ch) = "error"
         /\ at \in {"field", "blank", "plain"} /\ ch \notin {Quote, Comma, LineEnd} =>
              read(at, ch) = "plain"
         /\ at = "quote" /\ ch \notin {Quote, Comma, LineEnd} => read(at, ch) = "error"
         /\ read(at, ch) = "blank" => at = "blank" /\ ch = LineEnd
BY DEF read, Whole, CsvStates, Quote, Comma, LineEnd

\* The fold of the reader goes through these states.
LEMMA ReaderStates ==
  ASSUME NEW C, NEW s \in Seq(C)
  PROVE  \E st : Reads(st, s) /\ st[Len(s)] = FoldLeft(read, "blank", s)
<1> DEFINE n == Len(s)
           step == [p \in CsvStates \X (1 .. n) |-> read(p[1], s[p[2]])]
           equation(h) == h = [t \in SUBSET (DOMAIN s) |->
                                 IF t = {} THEN "blank"
                                 ELSE read(h[t \ {Max(t)}], s[Max(t)])]
<1>1. n \in Nat /\ n = Len(s) /\ DOMAIN s = 1 .. n /\ "blank" \in CsvStates
  BY DEF CsvStates
<1> HIDE DEF n
<1>2. \A at \in CsvStates : \A ch : read(at, ch) \in CsvStates
  BY ReadStep
<1>3. step \in [CsvStates \X (1 .. n) -> CsvStates]
  BY <1>2
<1>4. \A t \in SUBSET (1 .. n) : t # {} => Max(t) \in t /\ Max(t) \in 1 .. n
  <2> SUFFICES ASSUME NEW t \in SUBSET (1 .. n), t # {} PROVE Max(t) \in t
    OBVIOUS
  <2>1. \E x \in t : \A y \in t : x >= y
    BY <1>1, Greatest
  <2> QED
    BY <2>1 DEF Max
<1>5. \E h : equation(h) /\ h \in [SUBSET (1 .. n) -> CsvStates]
  <2> HIDE DEF step
  <2>1. PICK h \in [SUBSET (1 .. n) -> CsvStates] : Recursion(h, n, "blank", step)
    BY <1>1, <1>3, RecursionHasSolution
  <2>2. ASSUME NEW t \in SUBSET (1 .. n), t # {}
        PROVE  step[<<h[t \ {Max(t)}], Max(t)>>] = read(h[t \ {Max(t)}], s[Max(t)])
    <3>1. h[t \ {Max(t)}] \in CsvStates /\ Max(t) \in 1 .. n
      BY <1>4, <2>1, <2>2
    <3> QED
      BY <3>1 DEF step
  <2>3. equation(h)
    BY <1>1, <2>1, <2>2 DEF Recursion
  <2> HIDE DEF equation
  <2> QED
    BY <2>1, <2>3
<1>6. PICK h : equation(h) /\ FoldLeft(read, "blank", s) = h[DOMAIN s]
  BY <1>5 DEF FoldLeft, MapThenFoldSet
<1> DEFINE st == [i \in 0 .. n |-> h[1 .. i]]
<1>7. st[0] = "blank"
  <2>1. 1 .. 0 = {} /\ {} \in SUBSET (DOMAIN s)
    OBVIOUS
  <2>2. h[{}] = "blank"
    BY <1>6
  <2> QED
    BY <1>1, <2>1, <2>2
<1>8. ASSUME NEW i \in 1 .. n PROVE st[i] = read(st[i - 1], s[i])
  <2>1. Max(1 .. i) = i
    BY <1>1, MaxOfPrefix
  <2>2. (1 .. i) \ {i} = 1 .. i - 1 /\ 1 .. i # {} /\ 1 .. i \in SUBSET (DOMAIN s)
    <3>1. i \in 1 .. i /\ 1 .. i \subseteq 1 .. n
      BY <1>1
    <3>2. \A j : j \in (1 .. i) \ {i} <=> j \in 1 .. i - 1
      OBVIOUS
    <3> QED
      BY ONLY <1>1, <3>1, <3>2
  <2>3. h[1 .. i] = read(h[(1 .. i) \ {Max(1 .. i)}], s[Max(1 .. i)])
    BY <1>6, <2>2
  <2>4. st[i] = h[1 .. i] /\ st[i - 1] = h[1 .. i - 1]
    BY <1>1
  <2> HIDE DEF st
  <2> QED
    BY <2>1, <2>2, <2>3, <2>4
<1>9. st[n] = FoldLeft(read, "blank", s)
  <2>1. n \in 0 .. n /\ 1 .. n = DOMAIN s
    BY <1>1
  <2>2. st[n] = h[1 .. n]
    BY <2>1
  <2> HIDE DEF st
  <2> QED
    BY <1>6, <2>1, <2>2
<1>10. DOMAIN st = 0 .. n /\ st = [i \in 0 .. n |-> st[i]]
  OBVIOUS
<1> HIDE DEF st, equation
<1>11. \A i \in 0 .. n : st[i] \in CsvStates
  <2> DEFINE Good == {i \in 0 .. n : st[i] \in CsvStates}
  <2>1. 0 \in Good
    BY <1>1, <1>7
  <2>2. ASSUME NEW i \in 0 .. n - 1, i \in Good PROVE i + 1 \in Good
    <3>1. i + 1 \in 1 .. n /\ (i + 1) - 1 = i
      BY <1>1
    <3>2. st[i + 1] = read(st[i], s[i + 1])
      BY <1>8, <3>1
    <3> QED
      BY <1>2, <2>2, <3>1, <3>2
  <2> HIDE DEF Good
  <2>3. \A i \in 0 .. n : i \in Good
    BY <1>1, <2>1, <2>2, Induction
  <2> QED
    BY <2>3 DEF Good
<1>12. st \in [0 .. n -> CsvStates]
  BY <1>10, <1>11
<1> QED
  BY <1>7, <1>8, <1>9, <1>12 DEF Reads, n

\* A text has one sequence of states, up to where it is the same text.
LEMMA SameStates ==
  ASSUME NEW C, NEW s \in Seq(C), NEW t \in Seq(C), NEW n \in 0 .. Len(s), n <= Len(t),
         \A i \in 1 .. n : s[i] = t[i], NEW st, Reads(st, s), NEW su, Reads(su, t)
  PROVE  \A i \in 0 .. n : st[i] = su[i]
<1> DEFINE Good == {i \in 0 .. n : st[i] = su[i]}
<1>1. 0 \in Good
  BY DEF Reads
<1>2. ASSUME NEW i \in 0 .. n - 1, i \in Good PROVE i + 1 \in Good
  <2>1. i + 1 \in 1 .. n /\ i + 1 \in 1 .. Len(s) /\ i + 1 \in 1 .. Len(t) /\ (i + 1) - 1 = i
    OBVIOUS
  <2>2. st[i + 1] = read(st[i], s[i + 1]) /\ su[i + 1] = read(su[i], t[i + 1])
    BY <2>1 DEF Reads
  <2> QED
    BY <1>2, <2>1, <2>2
<1> HIDE DEF Good
<1>3. n \in Nat
  OBVIOUS
<1>4. \A i \in 0 .. n : i \in Good
  BY <1>1, <1>2, <1>3, Induction
<1> QED
  BY <1>4 DEF Good

\* The states "end" and "error" stay.
LEMMA Settled ==
  ASSUME NEW C, NEW s \in Seq(C), NEW st, Reads(st, s), NEW i \in 0 .. Len(s),
         st[i] \in {"end", "error"}
  PROVE  \A j \in i .. Len(s) : st[j] = st[i]
<1> DEFINE n == Len(s) - i
           Good == {k \in 0 .. n : st[i + k] = st[i]}
<1>1. 0 \in Good /\ n \in Nat
  OBVIOUS
<1>2. ASSUME NEW k \in 0 .. n - 1, k \in Good PROVE k + 1 \in Good
  <2>1. /\ i + (k + 1) \in 1 .. Len(s) /\ (i + (k + 1)) - 1 = i + k /\ i + k \in 0 .. Len(s)
        /\ k + 1 \in 0 .. n
    OBVIOUS
  <2>2. st[i + (k + 1)] = read(st[i + k], s[i + (k + 1)]) /\ st[i + k] \in CsvStates
    BY <2>1 DEF Reads
  <2> QED
    BY <1>2, <2>1, <2>2, ReadStep
<1> HIDE DEF Good
<1>3. \A k \in 0 .. n : k \in Good
  BY <1>1, <1>2, Induction
<1> SUFFICES ASSUME NEW j \in i .. Len(s) PROVE st[j] = st[i]
  OBVIOUS
<1>4. j - i \in 0 .. n /\ i + (j - i) = j
  OBVIOUS
<1>5. j - i \in Good
  BY <1>3, <1>4
<1> HIDE DEF n
<1> QED
  BY <1>4, <1>5 DEF Good

\* There is a first character that is not a blank line's.
LEMMA RecordStart ==
  ASSUME NEW C, NEW s \in Seq(C)
  PROVE  /\ recordStart(s, 1) \in 1 .. Len(s) + 1
         /\ \A i \in 1 .. recordStart(s, 1) - 1 : s[i] = LineEnd
         /\ recordStart(s, 1) = Len(s) + 1 \/ s[recordStart(s, 1)] # LineEnd
<1> DEFINE n == Len(s) + 1
           G == {k \in 1 .. n : \A i \in 1 .. k - 1 : s[i] = LineEnd}
<1>1. n \in Nat /\ G \in SUBSET (1 .. n) /\ 1 \in G
  OBVIOUS
<1> HIDE DEF G, n
<1>2. PICK a \in G : \A j \in G : j <= a
  BY <1>1, Greatest
<1>3. a = n \/ s[a] # LineEnd
  <2> SUFFICES ASSUME a # n, s[a] = LineEnd PROVE FALSE
    OBVIOUS
  <2>1. a + 1 \in 1 .. n
    BY <1>1
  <2>2. \A i \in 1 .. (a + 1) - 1 : i = a \/ i \in 1 .. a - 1
    BY <1>1
  <2>3. a + 1 \in G
    BY <2>1, <2>2 DEF G
  <2> QED
    BY <1>1, <1>2, <2>3
<1>4. a \in 1 .. n /\ \A i \in 1 .. a - 1 : s[i] = LineEnd
  BY DEF G
<1> QED
  BY <1>3, <1>4 DEF recordStart, n

\* Before the record every line is blank.
LEMMA BlankBefore ==
  ASSUME NEW C, NEW s \in Seq(C), NEW st, Reads(st, s), NEW a \in 1 .. Len(s) + 1,
         \A i \in 1 .. a - 1 : s[i] = LineEnd
  PROVE  st[a - 1] = "blank"
<1> DEFINE n == a - 1
           Good == {i \in 0 .. n : st[i] = "blank"}
<1>1. 0 \in Good /\ n \in Nat /\ n <= Len(s)
  BY DEF Reads
<1>2. ASSUME NEW i \in 0 .. n - 1, i \in Good PROVE i + 1 \in Good
  <2>1. i + 1 \in 1 .. n /\ i + 1 \in 1 .. Len(s) /\ (i + 1) - 1 = i
    OBVIOUS
  <2>2. st[i + 1] = read(st[i], s[i + 1]) /\ s[i + 1] = LineEnd
    BY <2>1 DEF Reads
  <2> QED
    BY <1>2, <2>1, <2>2, ReadStep DEF CsvStates
<1> HIDE DEF Good
<1>3. n \in Good
  <2> HIDE DEF n
  <2>1. \A i \in 0 .. n : i \in Good
    BY <1>1, <1>2, Induction
  <2> QED
    BY <1>1, <2>1
<1> QED
  BY <1>3 DEF Good

\* A field takes the reader from its start to a state in which the field, and
\* with it the record, may end.
LEMMA FieldIsRead ==
  ASSUME NEW C, NEW s \in Seq(C), NEW st, Reads(st, s),
         NEW p \in 0 .. Len(s), NEW b \in p .. Len(s), st[p] \in {"field", "blank"},
         isField(s, p + 1, b)
  PROVE  IF b = p THEN st[b] = st[p] ELSE st[b] \in {"plain", "quote"}
<1> SUFFICES ASSUME b # p PROVE st[b] \in {"plain", "quote"}
  OBVIOUS
<1>1. ASSUME NEW i \in p .. b - 1
      PROVE  /\ i + 1 \in 1 .. Len(s) /\ (i + 1) - 1 = i /\ i + 1 \in p + 1 .. b
             /\ st[i] \in CsvStates /\ st[i + 1] = read(st[i], s[i + 1])
  <2>1. i + 1 \in 1 .. Len(s) /\ (i + 1) - 1 = i /\ i + 1 \in p + 1 .. b /\ i \in 0 .. Len(s)
    OBVIOUS
  <2> QED
    BY <2>1 DEF Reads
<1> DEFINE d == b - (p + 1)
<1>2. d \in Nat /\ p + 1 \in 1 .. Len(s) /\ p \in p .. b - 1
  OBVIOUS
<1>3. CASE plainField(s, p + 1, b)
  <2>1. \A i \in p + 1 .. b : s[i] \notin {Quote, Comma, LineEnd}
    BY <1>3 DEF plainField
  <2> DEFINE Good == {k \in 0 .. d : st[(p + 1) + k] = "plain"}
  <2>2. 0 \in Good
    <3>1. st[p + 1] = "plain"
      BY <1>1, <1>2, <2>1, ReadStep
    <3> QED
      BY <3>1
  <2>3. ASSUME NEW k \in 0 .. d - 1, k \in Good PROVE k + 1 \in Good
    <3>1. (p + 1) + k \in p .. b - 1 /\ ((p + 1) + k) + 1 = (p + 1) + (k + 1) /\ k + 1 \in 0 .. d
      OBVIOUS
    <3>2. st[(p + 1) + (k + 1)] = "plain"
      BY <1>1, <2>1, <2>3, <3>1, ReadStep
    <3> QED
      BY <3>1, <3>2
  <2> HIDE DEF Good
  <2>4. d \in Good
    <3> HIDE DEF d
    <3>1. \A k \in 0 .. d : k \in Good
      BY <1>2, <2>2, <2>3, Induction
    <3> QED
      BY <1>2, <3>1
  <2>5. (p + 1) + d = b
    OBVIOUS
  <2> QED
    BY <2>4, <2>5 DEF Good
<1>4. CASE quotedField(s, p + 1, b)
  <2>1. p + 1 < b /\ s[p + 1] = Quote /\ s[b] = Quote /\ doubled(s, (p + 1) + 1, b - 1)
    BY <1>4 DEF quotedField
  <2>2. PICK firsts \in SUBSET ((p + 1) + 1 .. (b - 1) - 1) :
              /\ {i \in (p + 1) + 1 .. b - 1 : s[i] = Quote} = firsts \cup {i + 1 : i \in firsts}
              /\ \A i \in firsts : i + 1 \notin firsts
    BY <2>1 DEF doubled
  <2> DEFINE inside(i) == IF i \in firsts THEN "quote" ELSE "quoted"
             Good == {k \in 0 .. d - 1 : st[(p + 1) + k] = inside((p + 1) + k)}
  <2>3. 0 \in Good /\ d - 1 \in Nat
    <3>1. st[p + 1] = "quoted"
      BY <1>1, <1>2, <2>1, ReadStep
    <3>2. p + 1 \notin firsts
      BY <2>2
    <3> QED
      BY <2>1, <3>1, <3>2
  <2>4. ASSUME NEW k \in 0 .. (d - 1) - 1, k \in Good PROVE k + 1 \in Good
    <3> DEFINE i == (p + 1) + k
    <3>1. /\ i \in p .. b - 1 /\ i + 1 = (p + 1) + (k + 1) /\ k + 1 \in 0 .. d - 1
          /\ i + 1 \in (p + 1) + 1 .. b - 1
      OBVIOUS
    <3>2. st[i] = inside(i)
      BY <2>4
    <3>3. st[i] \in CsvStates /\ st[i + 1] = read(st[i], s[i + 1])
      BY <1>1, <3>1
    <3>4. s[i + 1] = Quote <=> i + 1 \in firsts \/ i \in firsts
      <4>1. \A f \in firsts : f + 1 = i + 1 <=> f = i
        OBVIOUS
      <4> HIDE DEF i
      <4> QED
        BY <2>2, <3>1, <4>1
    <3>5. i \in firsts => i + 1 \notin firsts
      BY <2>2
    <3> HIDE DEF i
    <3>6. st[i + 1] = inside(i + 1)
      BY <3>2, <3>3, <3>4, <3>5, ReadStep
    <3> QED
      BY <3>1, <3>6
  <2> HIDE DEF Good
  <2>5. d - 1 \in Good
    <3>1. \A k \in 0 .. d - 1 : k \in Good
      <4> DEFINE m == d - 1
      <4> HIDE DEF m
      <4> QED
        BY <2>3, <2>4, Induction
    <3> HIDE DEF d
    <3> QED
      BY <2>3, <3>1
  <2>6. (p + 1) + (d - 1) = b - 1 /\ b - 1 \notin firsts /\ b - 1 \in p .. b - 1 /\ (b - 1) + 1 = b
    BY <2>1
  <2>7. st[b - 1] = "quoted"
    BY <2>5, <2>6 DEF Good
  <2>8. st[b] = read(st[b - 1], s[b]) /\ st[b - 1] \in CsvStates
    BY <1>1, <2>6
  <2> QED
    BY <2>1, <2>7, <2>8, ReadStep
<1> QED
  BY <1>3, <1>4 DEF isField

\* A record takes the reader to a state in which it may end.
LEMMA RecordIsRead ==
  ASSUME NEW C, NEW s \in Seq(C), NEW st, Reads(st, s),
         NEW a \in 1 .. Len(s), st[a - 1] = "blank", NEW e \in a .. Len(s), isRecord(s, a, e)
  PROVE  st[e] \in Whole
<1>1. PICK cuts \in SUBSET {i \in a .. e : s[i] = Comma} :
        \A p \in cuts \cup {a - 1}, q \in cuts \cup {e + 1} :
          p < q /\ (\A i \in p + 1 .. q - 1 : i \notin cuts) => isField(s, p + 1, q - 1)
  BY DEF isRecord
<1>2. cuts \in SUBSET (a .. e)
  OBVIOUS
\* Between the last cut up to k and the next one q is a field.
<1>3. ASSUME NEW k \in 0 .. e, NEW q \in cuts \cup {e + 1}, k + 1 <= q, a <= q,
             \A c \in cuts : c <= k \/ q <= c,
             \A c \in cuts : c <= k => st[c] = "field"
      PROVE  st[q - 1] \in {"field", "blank", "plain", "quote"} /\ (st[q - 1] = "blank" => q = a)
  <2> DEFINE G == {c \in cuts : c <= k}
  <2>1. PICK p \in cuts \cup {a - 1} : /\ p < q /\ \A c \in G : c <= p
                                       /\ st[p] \in {"field", "blank"}
                                       /\ st[p] = "blank" => p = a - 1
    <3>1. CASE G = {}
      BY <1>3, <3>1
    <3>2. CASE G # {}
      <4>1. G \in SUBSET (1 .. e) /\ e \in Nat
        <5>1. \A c \in cuts : c \in 1 .. e
          BY <1>2
        <5>2. e \in Nat
          OBVIOUS
        <5> QED
          BY <5>1, <5>2
      <4> HIDE DEF G
      <4>2. PICK p \in G : \A c \in G : c <= p
        BY <3>2, <4>1, Greatest
      <4>3. p \in cuts /\ p <= k
        BY DEF G
      <4>4. p < q
        BY <1>2, <1>3, <4>3
      <4> QED
        BY <1>3, <4>2, <4>3, <4>4
    <3> QED
      BY <3>1, <3>2
  <2>2. p \in 0 .. e /\ q \in 1 .. e + 1 /\ q - 1 \in p .. Len(s) /\ p \in 0 .. Len(s)
    BY <1>2, <2>1
  <2>3. \A i \in p + 1 .. q - 1 : i \notin cuts
    BY <1>2, <1>3, <2>1, <2>2
  <2>4. isField(s, p + 1, q - 1)
    BY <1>1, <2>1, <2>3
  <2>5. IF q - 1 = p THEN st[q - 1] = st[p] ELSE st[q - 1] \in {"plain", "quote"}
    BY <2>1, <2>2, <2>4, FieldIsRead
  <2> HIDE DEF G
  <2> QED
    BY <2>1, <2>2, <2>5
<1> DEFINE Good == {k \in 0 .. e : \A c \in cuts : c <= k => st[c] = "field"}
<1>4. 0 \in Good /\ e \in Nat
  BY <1>2
<1>5. ASSUME NEW k \in 0 .. e - 1, k \in Good PROVE k + 1 \in Good
  <2> SUFFICES ASSUME k + 1 \in cuts PROVE st[k + 1] = "field"
    BY <1>2, <1>5
  <2>1. st[k] \in {"field", "blank", "plain", "quote"}
    <3>1. /\ k \in 0 .. e /\ k + 1 \in cuts \cup {e + 1} /\ k + 1 <= k + 1 /\ a <= k + 1
          /\ \A c \in cuts : c <= k \/ k + 1 <= c
          /\ \A c \in cuts : c <= k => st[c] = "field"
          /\ (k + 1) - 1 = k
      BY <1>2, <1>5
    <3> HIDE DEF Good
    <3> QED
      BY <1>3, <3>1
  <2>2. k + 1 \in 1 .. Len(s) /\ (k + 1) - 1 = k /\ s[k + 1] = Comma
    BY <1>2
  <2>3. st[k + 1] = read(st[k], s[k + 1])
    BY <2>2 DEF Reads
  <2> QED
    BY <2>1, <2>2, <2>3, ReadStep DEF CsvStates
<1> HIDE DEF Good
<1>6. e \in Good
  <2>1. \A k \in 0 .. e : k \in Good
    BY ONLY <1>4, <1>5, Induction
  <2> QED
    BY <1>4, <2>1
<1>7. /\ e \in 0 .. e /\ e + 1 \in cuts \cup {e + 1} /\ e + 1 <= e + 1 /\ a <= e + 1
      /\ \A c \in cuts : c <= e \/ e + 1 <= c
      /\ \A c \in cuts : c <= e => st[c] = "field"
      /\ (e + 1) - 1 = e /\ e + 1 # a
  BY <1>2, <1>4, <1>6 DEF Good
<1>8. st[e] \in {"field", "blank", "plain", "quote"} /\ st[e] # "blank"
  BY <1>3, <1>7
<1> QED
  BY <1>8 DEF Whole

\* What the states of a record look like before its end.
LEMMA StatesOfRecord ==
  ASSUME NEW C, NEW s \in Seq(C), NEW st, Reads(st, s), NEW a \in 1 .. Len(s),
         st[a - 1] = "blank", s[a] # LineEnd, NEW e \in a .. Len(s), st[e] \in Whole
  PROVE  /\ \A i \in a .. e : /\ i \in 1 .. Len(s) /\ i - 1 \in 0 .. Len(s)
                              /\ st[i] \in {"field", "plain", "quoted", "quote"}
                              /\ st[i] = read(st[i - 1], s[i])
         /\ \A i \in a - 1 .. e : st[i] \in {"blank", "field", "plain", "quoted", "quote"}
         /\ \A i \in a - 1 .. e : st[i] = "blank" => i = a - 1
<1>1. ASSUME NEW i \in a - 1 .. e PROVE st[i] \in CsvStates \ {"end", "error"}
  <2>1. i \in 0 .. Len(s) /\ e \in i .. Len(s)
    OBVIOUS
  <2>2. st[i] \in CsvStates
    BY <2>1 DEF Reads
  <2>3. st[i] \in {"end", "error"} => st[e] = st[i]
    BY <2>1, Settled
  <2> QED
    BY <2>2, <2>3 DEF Whole
<1>2. ASSUME NEW i \in a .. e
      PROVE  i \in 1 .. Len(s) /\ i - 1 \in a - 1 .. e /\ st[i] = read(st[i - 1], s[i])
  <2>1. i \in 1 .. Len(s) /\ i - 1 \in a - 1 .. e
    OBVIOUS
  <2> QED
    BY <2>1 DEF Reads
<1> DEFINE Good == {i \in a .. e : st[i] # "blank"}
<1>3. a \in Good
  <2>1. a \in a .. e
    OBVIOUS
  <2> QED
    BY <1>1, <1>2, <2>1, ReadStep
<1>4. ASSUME NEW i \in a .. e - 1, i \in Good PROVE i + 1 \in Good
  <2>1. i + 1 \in a .. e /\ (i + 1) - 1 = i
    OBVIOUS
  <2>2. st[i + 1] = read(st[i], s[i + 1]) /\ st[i] \in CsvStates
    BY <1>1, <1>2, <2>1
  <2> QED
    BY <1>4, <2>1, <2>2, ReadStep
<1> HIDE DEF Good
<1>5. \A i \in a .. e : i \in Good
  BY <1>3, <1>4, InductionFrom
<1>6. \A i \in a .. e : st[i] # "blank"
  BY <1>5 DEF Good
<1>7. \A i \in a - 1 .. e : i = a - 1 \/ i \in a .. e
  OBVIOUS
<1>8. \A i \in a .. e : i \in a - 1 .. e /\ i - 1 \in 0 .. Len(s)
  OBVIOUS
<1> QED
  BY <1>1, <1>2, <1>6, <1>7, <1>8 DEF CsvStates

\* What the reader passed between two of its commas is a field.
LEMMA ReadIsField ==
  ASSUME NEW C, NEW s \in Seq(C), NEW st,
         NEW p \in 0 .. Len(s), NEW b \in p .. Len(s), st[p] \in {"field", "blank"},
         st[b] \in Whole \/ b = p,
         st[p] = "blank" /\ p # b => s[p + 1] # LineEnd,
         \A i \in p + 1 .. b : /\ st[i] \in {"plain", "quoted", "quote"}
                               /\ st[i] = read(st[i - 1], s[i])
  PROVE  isField(s, p + 1, b)
<1>1. CASE b = p
  BY <1>1 DEF isField, plainField
<1>2. CASE b # p
  <2>1. p + 1 \in p + 1 .. b /\ p + 1 \in Int /\ b \in Int /\ (p + 1) - 1 = p /\ b \in p + 1 .. b
    BY <1>2
  <2>2. \A i \in p + 1 .. b - 1 : i + 1 \in p + 1 .. b /\ i \in p + 1 .. b /\ (i + 1) - 1 = i
    OBVIOUS
  <2>3. st[p + 1] = read(st[p], s[p + 1]) /\ st[p + 1] \in {"plain", "quoted", "quote"}
    BY <2>1
  <2>4. ASSUME NEW i \in p + 1 .. b - 1
        PROVE  st[i + 1] = read(st[i], s[i + 1])
    BY <2>2
  <2>5. CASE s[p + 1] # Quote
    <3>1. st[p + 1] = "plain" /\ s[p + 1] \notin {Quote, Comma, LineEnd}
      BY <1>2, <2>3, <2>5, ReadStep DEF CsvStates, Whole
    <3> DEFINE Good == {i \in p + 1 .. b : st[i] = "plain" /\ s[i] \notin {Quote, Comma, LineEnd}}
    <3>2. p + 1 \in Good
      BY <2>1, <3>1
    <3>3. ASSUME NEW i \in p + 1 .. b - 1, i \in Good PROVE i + 1 \in Good
      <4>1. st[i] = "plain" /\ st[i + 1] = read(st[i], s[i + 1])
            /\ st[i + 1] \in {"plain", "quoted", "quote"} /\ i + 1 \in p + 1 .. b
        BY <2>2, <2>4, <3>3
      <4>2. st[i + 1] = "plain" /\ s[i + 1] \notin {Quote, Comma, LineEnd}
        BY ONLY <4>1, ReadStep DEF CsvStates, Whole
      <4> QED
        BY <4>1, <4>2
    <3> HIDE DEF Good
    <3>4. \A i \in p + 1 .. b : i \in Good
      BY <2>1, <3>2, <3>3, InductionFrom
    <3> QED
      BY <3>4 DEF Good, isField, plainField
  <2>6. CASE s[p + 1] = Quote
    <3>1. st[p + 1] = "quoted"
      BY <2>3, <2>6, ReadStep DEF CsvStates
    <3> DEFINE Good == {i \in p + 1 .. b : st[i] \in {"quoted", "quote"}}
    <3>2. p + 1 \in Good
      BY <2>1, <3>1
    <3>3. ASSUME NEW i \in p + 1 .. b - 1, i \in Good PROVE i + 1 \in Good
      <4>1. st[i] \in {"quoted", "quote"} /\ st[i + 1] = read(st[i], s[i + 1])
            /\ st[i + 1] \in {"plain", "quoted", "quote"} /\ i + 1 \in p + 1 .. b
        BY <2>2, <2>4, <3>3
      <4>2. st[i + 1] # "plain"
        BY ONLY <4>1, ReadStep DEF CsvStates, Whole
      <4> QED
        BY <4>1, <4>2
    <3> HIDE DEF Good
    <3>4. \A i \in p + 1 .. b : i \in Good
      BY <2>1, <3>2, <3>3, InductionFrom
    <3>5. \A i \in p + 1 .. b : st[i] \in {"quoted", "quote"}
      BY <3>4 DEF Good
    <3>6. st[b] = "quote" /\ p + 1 < b
      BY <1>2, <2>1, <3>1, <3>5 DEF Whole
    <3>7. ASSUME NEW i \in p + 1 .. b - 1
          PROVE  /\ st[i] = "quoted" /\ s[i + 1] = Quote => st[i + 1] = "quote"
                 /\ st[i] = "quoted" /\ s[i + 1] # Quote => st[i + 1] = "quoted"
                 /\ st[i] = "quote" => st[i + 1] = "quoted" /\ s[i + 1] = Quote
                 /\ st[i] \in {"quoted", "quote"} /\ st[i + 1] \in {"quoted", "quote"}
      <4>1. /\ st[i] \in {"quoted", "quote"} /\ st[i + 1] = read(st[i], s[i + 1])
            /\ st[i + 1] \in {"quoted", "quote"}
        BY <2>2, <2>4, <3>5
      <4>2. CASE st[i] = "quoted"
        BY ONLY <4>1, <4>2, ReadStep DEF CsvStates
      <4>3. CASE st[i] = "quote"
        BY ONLY <4>1, <4>3, ReadStep DEF CsvStates, Whole
      <4> QED
        BY <4>1, <4>2, <4>3
    <3>8. b - 1 \in p + 1 .. b - 1 /\ (b - 1) + 1 = b
      BY <3>6
    <3>9. st[b - 1] = "quoted" /\ s[b] = Quote
      BY <3>6, <3>7, <3>8
    <3> DEFINE x == (p + 1) + 1
               y == b - 1
               firsts == {i \in x .. y - 1 : st[i] = "quote"}
    <3>10. \A i \in firsts : i + 1 \notin firsts
      BY <3>7
    <3>11. ASSUME NEW i \in x .. y PROVE s[i] = Quote <=> i \in firsts \/ i - 1 \in firsts
      <4>1. /\ i \in p + 1 .. b - 1 /\ i - 1 \in p + 1 .. b - 1 /\ (i - 1) + 1 = i
            /\ i = y \/ i \in x .. y - 1
            /\ i - 1 = p + 1 \/ i - 1 \in x .. y - 1
        OBVIOUS
      <4>2. i \in firsts <=> st[i] = "quote"
        BY <3>9, <4>1
      <4>3. i - 1 \in firsts <=> st[i - 1] = "quote"
        BY <3>1, <4>1
      <4> HIDE DEF firsts
      <4> QED
        BY <3>7, <4>1, <4>2, <4>3
    <3>12. {i \in x .. y : s[i] = Quote} = firsts \cup {i + 1 : i \in firsts}
      <4>1. \A i \in firsts : i \in x .. y /\ i + 1 \in x .. y /\ (i + 1) - 1 = i
        OBVIOUS
      <4>2. \A i \in x .. y : (i - 1) + 1 = i
        OBVIOUS
      <4> HIDE DEF firsts, x, y
      <4> QED
        BY <3>11, <4>1, <4>2
    <3>13. firsts \in SUBSET (x .. y - 1)
      OBVIOUS
    <3> HIDE DEF firsts
    <3>14. doubled(s, x, y)
      BY <3>10, <3>12, <3>13 DEF doubled
    <3> QED
      BY <2>6, <3>6, <3>9, <3>14 DEF isField, quotedField
  <2> QED
    BY <2>5, <2>6
<1> QED
  BY <1>1, <1>2

\* What the reader passed up to a state in which a record may end is a record.
LEMMA ReadIsRecord ==
  ASSUME NEW C, NEW s \in Seq(C), NEW st, Reads(st, s), NEW a \in 1 .. Len(s),
         st[a - 1] = "blank", s[a] # LineEnd, NEW e \in a .. Len(s), st[e] \in Whole
  PROVE  isRecord(s, a, e)
<1>1. /\ \A i \in a .. e : /\ i \in 1 .. Len(s) /\ i - 1 \in 0 .. Len(s)
                           /\ st[i] \in {"field", "plain", "quoted", "quote"}
                           /\ st[i] = read(st[i - 1], s[i])
      /\ \A i \in a - 1 .. e : st[i] \in {"blank", "field", "plain", "quoted", "quote"}
      /\ \A i \in a - 1 .. e : st[i] = "blank" => i = a - 1
  BY StatesOfRecord
<1> DEFINE cuts == {i \in a .. e : st[i] = "field"}
<1>2. ASSUME NEW i \in cuts
      PROVE  s[i] = Comma /\ st[i - 1] \in {"blank", "field", "plain", "quote"}
  <2>1. i \in a .. e /\ i - 1 \in a - 1 .. e /\ st[i] = "field"
    OBVIOUS
  <2>2. st[i] = read(st[i - 1], s[i]) /\ st[i - 1] \in {"blank", "field", "plain", "quoted", "quote"}
    BY <1>1, <2>1
  <2> QED
    BY <2>1, <2>2, ReadStep DEF CsvStates, Whole
<1>3. ASSUME NEW p \in cuts \cup {a - 1}, NEW q \in cuts \cup {e + 1}, p < q,
             \A i \in p + 1 .. q - 1 : i \notin cuts
      PROVE  isField(s, p + 1, q - 1)
  <2> DEFINE b == q - 1
  <2>1. /\ p \in 0 .. Len(s) /\ b \in p .. Len(s) /\ p \in a - 1 .. e /\ q \in a .. e + 1
        /\ \A i \in p + 1 .. b : i \in a .. e
    BY <1>3
  <2>2. st[p] \in {"field", "blank"} /\ (st[p] = "blank" => p = a - 1)
    BY <1>1, <2>1
  <2>3. st[b] \in Whole \/ b = p
    <3>1. CASE q = e + 1
      BY <3>1
    <3>2. CASE q \in cuts
      <4>1. st[b] \in {"blank", "field", "plain", "quote"}
        BY <1>2, <3>2
      <4>2. st[b] = "blank" => b = p
        <5>1. b \in a - 1 .. e
          BY <2>1
        <5>2. st[b] = "blank" => b = a - 1
          BY <1>1, <5>1
        <5> QED
          BY <2>1, <5>2
      <4> QED
        BY <4>1, <4>2 DEF Whole
    <3> QED
      BY <3>1, <3>2
  <2>4. \A i \in p + 1 .. b : st[i] \in {"plain", "quoted", "quote"} /\ st[i] = read(st[i - 1], s[i])
    BY <1>1, <1>3, <2>1
  <2>5. st[p] = "blank" /\ p # b => s[p + 1] # LineEnd
    BY <2>2
  <2> HIDE DEF b, cuts
  <2>6. isField(s, p + 1, b)
    BY <2>1, <2>2, <2>3, <2>4, <2>5, ReadIsField
  <2> QED
    BY <2>6 DEF b
<1>4. cuts \in SUBSET {i \in a .. e : s[i] = Comma}
  BY <1>2
<1> HIDE DEF cuts
<1> QED
  BY <1>3, <1>4 DEF isRecord

\* A record of the grammar is over for the reader where it ends.
LEMMA RecordIsOver ==
  ASSUME NEW C, NEW s \in Seq(C), NEW st, Reads(st, s),
         NEW e \in recordEnds(s, recordStart(s, 1))
  PROVE  /\ e \in 1 .. Len(s) /\ st[e] \in Whole
         /\ e # Len(s) => e + 1 \in 1 .. Len(s) /\ st[e + 1] = "end"
<1> DEFINE a == recordStart(s, 1)
<1>1. e \in a .. Len(s) /\ isRecord(s, a, e) /\ (e = Len(s) \/ s[e + 1] = LineEnd)
  BY DEF recordEnds
<1>2. a \in 1 .. Len(s) + 1 /\ \A i \in 1 .. a - 1 : s[i] = LineEnd
  BY RecordStart
<1> HIDE DEF a
<1>3. st[a - 1] = "blank" /\ a \in 1 .. Len(s)
  <2>1. a \in 1 .. Len(s)
    BY <1>1, <1>2
  <2> QED
    BY <1>2, <2>1, BlankBefore
<1>4. st[e] \in Whole
  BY <1>1, <1>3, RecordIsRead
<1>5. e \in 1 .. Len(s)
  BY <1>1, <1>3
<1>6. ASSUME e # Len(s) PROVE e + 1 \in 1 .. Len(s) /\ st[e + 1] = "end"
  <2>1. e + 1 \in 1 .. Len(s) /\ (e + 1) - 1 = e
    BY <1>5, <1>6
  <2>2. st[e + 1] = read(st[e], s[e + 1]) /\ s[e + 1] = LineEnd
    BY <1>1, <1>6, <2>1 DEF Reads
  <2> QED
    BY <1>4, <2>1, <2>2, ReadStep DEF Whole, CsvStates
<1> QED
  BY <1>4, <1>5, <1>6

\* csv.Reader finds no error exactly if the grammar knows the first record.
LEMMA ReaderFollowsGrammar ==
  ASSUME NEW C, NEW s \in Seq(C), NEW st, Reads(st, s)
  PROVE  st[Len(s)] \notin {"quoted", "error"} <=> firstRecordOk(s)
<1> DEFINE n == Len(s)
           a == recordStart(s, 1)
<1>1. n \in Nat /\ a \in 1 .. n + 1 /\ (\A i \in 1 .. a - 1 : s[i] = LineEnd)
      /\ (a = n + 1 \/ s[a] # LineEnd)
  BY RecordStart
<1>2. st[a - 1] = "blank"
  BY <1>1, BlankBefore
<1>3. firstRecordOk(s) <=> a = n + 1 \/ recordEnds(s, a) # {}
  BY DEF firstRecordOk
<1>4. CASE a = n + 1
  <2> HIDE DEF a
  <2>1. a - 1 = n
    BY <1>1, <1>4
  <2> QED
    BY <1>2, <1>3, <1>4, <2>1
<1>5. CASE a # n + 1
  <2>1. ASSUME NEW e \in recordEnds(s, a) PROVE st[n] \notin {"quoted", "error"}
    <3>1. /\ e \in 1 .. n /\ st[e] \in Whole
          /\ e # n => e + 1 \in 1 .. n /\ st[e + 1] = "end"
      BY RecordIsOver
    <3>2. CASE e = n
      BY <3>1, <3>2 DEF Whole
    <3>3. CASE e # n
      <4>1. e + 1 \in 0 .. n /\ st[e + 1] = "end" /\ n \in e + 1 .. n
        BY <1>1, <3>1, <3>3
      <4>2. st[n] = st[e + 1]
        BY <4>1, Settled
      <4> QED
        BY <4>1, <4>2
    <3> QED
      BY <3>2, <3>3
  <2>2. ASSUME st[n] \notin {"quoted", "error"} PROVE recordEnds(s, a) # {}
    <3>1. a \in 1 .. n /\ s[a] # LineEnd
      BY <1>1, <1>5
    <3> HIDE DEF a
    <3> DEFINE Open == {i \in a .. n : st[i] # "end"}
    <3>2. st[a] \in CsvStates /\ st[a] = read(st[a - 1], s[a])
      BY <3>1 DEF Reads
    <3>3. a \in Open
      BY <1>2, <3>1, <3>2, ReadStep DEF CsvStates
    <3>4. PICK e \in Open : \A i \in Open : i <= e
      <4>1. Open \in SUBSET (1 .. n)
        BY <3>1
      <4> HIDE DEF Open
      <4> QED
        BY <1>1, <3>3, <4>1, Greatest
    <3>5. e \in a .. n /\ e \in 1 .. n /\ st[e] # "end" /\ st[e] \in CsvStates
      BY <3>1, <3>4 DEF Reads
    <3>6. e = n \/ (e + 1 \in 1 .. n /\ st[e + 1] = "end" /\ st[e + 1] = read(st[e], s[e + 1]))
      <4> SUFFICES ASSUME e # n
                   PROVE  e + 1 \in 1 .. n /\ st[e + 1] = "end"
                          /\ st[e + 1] = read(st[e], s[e + 1])
        OBVIOUS
      <4>1. e + 1 \in a .. n /\ e + 1 \in 1 .. n /\ (e + 1) - 1 = e /\ ~ (e + 1 <= e)
        BY <3>1, <3>5
      <4>2. st[e + 1] = "end"
        BY <3>4, <4>1
      <4> QED
        BY <4>1, <4>2 DEF Reads
    <3>7. st[e] # "blank"
      <4> DEFINE Good == {i \in a .. n : st[i] # "blank"}
      <4>1. a \in Good
        BY <1>2, <3>1, <3>2, ReadStep DEF CsvStates
      <4>2. ASSUME NEW i \in a .. n - 1, i \in Good PROVE i + 1 \in Good
        <5>1. i + 1 \in 1 .. n /\ (i + 1) - 1 = i /\ i + 1 \in a .. n /\ i \in 0 .. n
          BY <3>1
        <5>2. st[i + 1] = read(st[i], s[i + 1]) /\ st[i] \in CsvStates
          BY <5>1 DEF Reads
        <5> QED
          BY <4>2, <5>1, <5>2, ReadStep
      <4> HIDE DEF Good
      <4>3. a \in Int /\ n \in Int
        BY <1>1
      <4>4. \A i \in a .. n : i \in Good
        BY <4>1, <4>2, <4>3, InductionFrom
      <4> QED
        BY <3>5, <4>4 DEF Good
    <3>8. st[e] \in Whole /\ (e = n \/ s[e + 1] = LineEnd)
      <4>1. CASE e = n
        BY <2>2, <3>5, <3>7, <4>1 DEF CsvStates, Whole
      <4>2. CASE e # n
        BY <3>5, <3>6, <3>7, <4>2 DEF read, CsvStates, Whole
      <4> QED
        BY <4>1, <4>2
    <3>9. isRecord(s, a, e)
      BY <1>2, <3>1, <3>5, <3>8, ReadIsRecord
    <3> QED
      BY <3>5, <3>8, <3>9 DEF recordEnds
  <2> QED
    BY <1>3, <1>5, <2>1, <2>2
<1> QED
  BY <1>4, <1>5

\* The quotes among the first i characters.
quotesUpTo(s, i) == Cardinality({j \in 1 .. i : s[j] = Quote})

\* Inside quotes the reader has seen an odd number of them.
LEMMA QuotesAreCounted ==
  ASSUME NEW C, NEW s \in Seq(C), NEW st, Reads(st, s), st[Len(s)] = "quoted"
  PROVE  quotes(s) % 2 = 1
<1> DEFINE n == Len(s)
           even(i) == st[i] \in {"blank", "field", "plain", "quote"} => quotesUpTo(s, i) % 2 = 0
           odd(i) == st[i] = "quoted" => quotesUpTo(s, i) % 2 = 1
           Good == {i \in 0 .. n : quotesUpTo(s, i) \in Nat /\ even(i) /\ odd(i)}
<1>1. n \in Nat
  OBVIOUS
<1>2. 0 \in Good
  <2>1. {j \in 1 .. 0 : s[j] = Quote} = {}
    OBVIOUS
  <2>2. quotesUpTo(s, 0) = 0
    BY <2>1, FS_EmptySet DEF quotesUpTo
  <2> QED
    BY <2>2 DEF Reads
<1>3. ASSUME NEW i \in 0 .. n - 1, i \in Good PROVE i + 1 \in Good
  <2>1. i + 1 \in 1 .. n /\ (i + 1) - 1 = i /\ i \in 0 .. n /\ i + 1 \in 0 .. n
    OBVIOUS
  <2>2. st[i + 1] = read(st[i], s[i + 1]) /\ st[i] \in CsvStates
    BY <2>1 DEF Reads
  <2>3. quotesUpTo(s, i + 1) = quotesUpTo(s, i) + (IF s[i + 1] = Quote THEN 1 ELSE 0)
    <3> DEFINE before == {j \in 1 .. i : s[j] = Quote}
               upTo == {j \in 1 .. i + 1 : s[j] = Quote}
    <3>1. IsFiniteSet(1 .. i)
      BY FS_Interval
    <3>2. before \subseteq 1 .. i
      OBVIOUS
    <3>3. IsFiniteSet(before) /\ Cardinality(before) \in Nat /\ i + 1 \notin before
      <4>1. i + 1 \notin 1 .. i
        OBVIOUS
      <4> HIDE DEF before
      <4> QED
        BY <3>1, <3>2, <4>1, FS_Subset, FS_CardinalityType
    <3>4. upTo = IF s[i + 1] = Quote THEN before \cup {i + 1} ELSE before
      OBVIOUS
    <3> HIDE DEF before, upTo
    <3>5. Cardinality(before \cup {i + 1}) = Cardinality(before) + 1
      BY <3>3, FS_AddElement
    <3>6. Cardinality(upTo) = Cardinality(before) + (IF s[i + 1] = Quote THEN 1 ELSE 0)
      BY <3>3, <3>4, <3>5
    <3> QED
      BY <3>6 DEF quotesUpTo, before, upTo
  <2> DEFINE c == quotesUpTo(s, i)
             d == quotesUpTo(s, i + 1)
  <2>4. c \in Nat /\ d \in Nat /\ (s[i + 1] = Quote => d = c + 1) /\ (s[i + 1] # Quote => d = c)
    BY <1>3, <2>3
  <2>5. even(i) /\ odd(i)
    BY <1>3
  <2> HIDE DEF c, d
  <2>6. (c % 2 = 0 => (c + 1) % 2 = 1) /\ (c % 2 = 1 => (c + 1) % 2 = 0)
    BY <2>4
  <2>7. even(i + 1) /\ odd(i + 1)
    <3>1. st[i] \in {"blank", "field", "plain", "quote"} => c % 2 = 0
      BY <2>5 DEF c
    <3>2. st[i] = "quoted" => c % 2 = 1
      BY <2>5 DEF c
    <3>3. st[i + 1] \in {"blank", "field", "plain", "quote"} => d % 2 = 0
      BY ONLY <2>2, <2>4, <2>6, <3>1, <3>2 DEF read, CsvStates, Quote, Comma, LineEnd
    <3>4. st[i + 1] = "quoted" => d % 2 = 1
      BY ONLY <2>2, <2>4, <2>6, <3>1, <3>2 DEF read, CsvStates, Quote, Comma, LineEnd
    <3> QED
      BY <3>3, <3>4 DEF d
  <2> HIDE DEF even, odd
  <2> QED
    BY <2>1, <2>4, <2>7 DEF d
<1> HIDE DEF Good
<1>4. n \in Good
  <2>1. \A i \in 0 .. n : i \in Good
    BY <1>1, <1>2, <1>3, Induction
  <2> QED
    BY <1>1, <2>1
<1>5. quotes(s) = quotesUpTo(s, n)
  <2>1. DOMAIN s = 1 .. n
    OBVIOUS
  <2> QED
    BY <2>1, Zenon DEF quotes, quotesUpTo
<1> QED
  BY <1>4, <1>5 DEF Good

\* A sniff turns a payload down as no csv only because it is a zip file or the
\* reader ends inside quotes or in an error.
LEMMA SniffOfText ==
  ASSUME NEW C, NEW s \in Seq(C), NEW st, Reads(st, first(s)),
         st[Len(first(s))] = FoldLeft(read, "blank", first(s))
  PROVE  looksLikeCSV(sniffed(s)) <=>
           /\ first(s) = << >> \/ first(s)[1] # ZipMagic
           /\ st[Len(first(s))] \notin {"quoted", "error"}
<1> DEFINE f == first(s)
           at == FoldLeft(read, "blank", f)
<1>1. firstRecord(f) = IF at = "blank" THEN "EOF"
                       ELSE IF at \in {"quoted", "error"} THEN "error" ELSE "ok"
  BY DEF firstRecord
<1>2. /\ sniffed(s).mime = IF f # << >> /\ f[1] = ZipMagic THEN "application/zip" ELSE "text/plain"
      /\ sniffed(s).firstRecord = firstRecord(f)
  BY DEF sniffed, DetectContentType
<1> HIDE DEF f, at
<1>3. looksLikeCSV(sniffed(s)) <=>
        ~ (f # << >> /\ f[1] = ZipMagic) /\ at \notin {"quoted", "error"}
  BY <1>1, <1>2 DEF looksLikeCSV
<1> QED
  BY <1>3 DEF f, at

\* The sniff against the grammar, for the inputs of a state.
LEMMA GrammarInputs == Inputs => SniffFollowsGrammar
<1> SUFFICES ASSUME payload \in Seq(Characters), Len(payload) <= Window
             PROVE  isCSV <=> (payload = << >> \/ payload[1] # ZipMagic) /\ firstRecordOk(payload)
  BY DEF Inputs, SniffFollowsGrammar
<1>1. first(payload) = payload
  BY WindowAssumption DEF first
<1>2. PICK st : Reads(st, payload) /\ st[Len(payload)] = FoldLeft(read, "blank", payload)
  BY ReaderStates
<1>3. isCSV <=> /\ payload = << >> \/ payload[1] # ZipMagic
                /\ st[Len(payload)] \notin {"quoted", "error"}
  BY <1>1, <1>2, SniffOfText DEF isCSV
<1>4. st[Len(payload)] \notin {"quoted", "error"} <=> firstRecordOk(payload)
  BY <1>2, ReaderFollowsGrammar
<1> QED
  BY <1>3, <1>4

\* The csv sniff is right about every payload that fits its window.
THEOREM GrammarFollowed == InputSpec => []SniffFollowsGrammar
BY GrammarInputs, InputsStay, PTL

\* Of payloads of any length the window misjudges only those whose first record
\* does not end in it.
THEOREM WindowMisjudges == InputSpec => []OnlyTheWindowMisjudges
<1>1. Inputs => OnlyTheWindowMisjudges
  <2> DEFINE seen == SubSeq(payload, 1, Window)
  <2> SUFFICES ASSUME payload \in Seq(Characters), Len(payload) > Window, payload[1] # ZipMagic
               PROVE  /\ firstRecordOk(payload) /\ ~isCSV => quotes(seen) % 2 = 1
                      /\ isCSV /\ ~firstRecordOk(payload) =>
                           \A n \in recordEnds(seen, recordStart(seen, 1)) : n = Window
    BY DEF Inputs, OnlyTheWindowMisjudges
  <2>1. /\ first(payload) = seen /\ seen \in Seq(Characters) /\ Len(seen) = Window
        /\ Window \in 0 .. Len(payload) /\ Window \in 0 .. Len(seen) /\ 1 \in 1 .. Window
        /\ \A i \in 1 .. Window : payload[i] = seen[i]
        /\ Len(payload) \in Window .. Len(payload)
    BY WindowAssumption DEF first
  <2> HIDE DEF seen
  <2>2. PICK st : Reads(st, payload) /\ st[Len(payload)] = FoldLeft(read, "blank", payload)
    BY ReaderStates
  <2>3. PICK su : Reads(su, seen) /\ su[Len(seen)] = FoldLeft(read, "blank", seen)
    BY <2>1, ReaderStates
  <2>4. \A i \in 0 .. Window : st[i] = su[i]
    BY <2>1, <2>2, <2>3, SameStates
  <2>5. isCSV <=> su[Window] \notin {"quoted", "error"}
    <3>1. seen[1] # ZipMagic
      BY <2>1
    <3> QED
      BY <2>1, <2>3, <3>1, SniffOfText DEF isCSV
  <2>6. st[Len(payload)] \notin {"quoted", "error"} <=> firstRecordOk(payload)
    BY <2>2, ReaderFollowsGrammar
  <2>7. ASSUME firstRecordOk(payload), ~isCSV PROVE quotes(seen) % 2 = 1
    <3>1. su[Window] # "error"
      <4> SUFFICES ASSUME su[Window] = "error" PROVE FALSE
        OBVIOUS
      <4>1. st[Window] = "error"
        BY <2>1, <2>4
      <4>2. st[Len(payload)] = "error"
        BY <2>1, <2>2, <4>1, Settled
      <4> QED
        BY <2>6, <2>7, <4>2
    <3> QED
      BY <2>1, <2>3, <2>5, <2>7, <3>1, QuotesAreCounted
  <2>8. ASSUME NEW n \in recordEnds(seen, recordStart(seen, 1)), n # Window
        PROVE  firstRecordOk(payload)
    <3>1. n + 1 \in 1 .. Window /\ su[n + 1] = "end"
      BY <2>1, <2>3, <2>8, RecordIsOver
    <3>2. n + 1 \in 0 .. Window /\ n + 1 \in 0 .. Len(payload) /\ Len(payload) \in n + 1 .. Len(payload)
      BY <2>1, <3>1
    <3>3. st[n + 1] = "end"
      BY <2>4, <3>1, <3>2
    <3>4. st[Len(payload)] = "end"
      BY <2>2, <3>2, <3>3, Settled
    <3> QED
      BY <2>6, <3>4
  <2> QED
    BY <2>7, <2>8
<1> QED
  BY <1>1, InputsStay, PTL

(***************************************************************************)
(* The checks of an upload and the sniff together.                         *)
(***************************************************************************)

\* A file whose payload fits the window and is what was sniffed is accepted
\* exactly if all of it arrives, it is neither empty nor over the limit, and it
\* is named and written as csv or named as and begins like a zip file
\* (gcs.go:60-77 and 132-165).
AcceptedByContent ==
  file.sniff = sniffed(payload) /\ payload # << >> /\ Len(payload) <= Window =>
    (validationError(name, file, MaxSize) = "nil" <=>
       /\ ~ file.nil /\ ~ file.readErr
       /\ file.len \in 1 .. MaxSize /\ file.declared \in 0 .. MaxSize
       /\ \/ endsIn({"csv", "CSV"}) /\ payload[1] # ZipMagic /\ firstRecordOk(payload)
          \/ endsIn({"xlsx", "XLSX"}) /\ payload[1] = ZipMagic)

\* Whether a small file is accepted depends on its name, its size and the
\* grammar of what is in it, and on nothing else.
THEOREM ContentDecides == InputSpec => []AcceptedByContent
<1>1. Inputs => AcceptedByContent
  <2> SUFFICES ASSUME Inputs, AcceptedIffWholeAndTyped, SniffFollowsGrammar,
                      file.sniff = sniffed(payload), payload # << >>, Len(payload) <= Window
               PROVE  AcceptedByContent
    BY AcceptedInputs, GrammarInputs DEF AcceptedByContent
  <2>1. first(payload) = payload /\ payload \in Seq(Characters)
    BY WindowAssumption DEF first, Inputs
  <2>2. /\ file.sniff.zipMagic <=> payload[1] = ZipMagic
        /\ file.sniff.mime # "application/zip" <=> payload[1] # ZipMagic
        /\ file.sniff.firstRecord = firstRecord(payload)
    <3> DEFINE zip == first(payload) # << >> /\ first(payload)[1] = ZipMagic
               mime == DetectContentType(first(payload))
               record == firstRecord(first(payload))
    <3>1. file.sniff = [mime |-> mime, zipMagic |-> zip, firstRecord |-> record]
      BY DEF sniffed
    <3>2. zip <=> payload[1] = ZipMagic
      BY <2>1
    <3> HIDE DEF zip, mime, record
    <3>3. file.sniff.zipMagic = zip /\ file.sniff.mime = mime /\ file.sniff.firstRecord = record
      BY <3>1
    <3> USE DEF zip, mime, record
    <3>4. payload[1] = ZipMagic => file.sniff.mime = "application/zip"
      BY <2>1, <3>3 DEF DetectContentType
    <3>5. payload[1] # ZipMagic => file.sniff.mime = "text/plain"
      BY <2>1, <3>3 DEF DetectContentType
    <3> HIDE DEF zip, mime, record
    <3>6. record = firstRecord(payload)
      BY <2>1 DEF record
    <3> QED
      BY <3>2, <3>3, <3>4, <3>5, <3>6
  <2>3. isCSV <=> payload[1] # ZipMagic /\ firstRecord(payload) # "error"
    <3>1. firstRecord(payload) \in {"EOF", "error", "ok"}
      BY DEF firstRecord
    <3> QED
      BY <2>1, <2>2, <3>1 DEF isCSV, looksLikeCSV, sniffed, DetectContentType
  <2>4. isCSV <=> payload[1] # ZipMagic /\ firstRecordOk(payload)
    BY DEF SniffFollowsGrammar
  <2>5. file.len \in 1 .. MaxSize => bytesRead(file, MaxSize) = file.len
    BY MaxSizeAssumption DEF bytesRead
  <2> QED
    BY <2>2, <2>3, <2>4, <2>5 DEF AcceptedIffWholeAndTyped, AcceptedByContent
<1> QED
  BY <1>1, InputsStay, PTL
=============================================================================
