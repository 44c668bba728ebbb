----------------------------- MODULE JsonProofs -----------------------------
(***************************************************************************)
(* What Encode and Decode of JsonFields do to documents of any length, for *)
(* any table of fields.  A fold is the last of the states it goes through  *)
(* (FoldStates); what holds of it is shown by induction on them.           *)
(***************************************************************************)
EXTENDS JsonFields, FiniteSetTheorems, TLAPS

(***************************************************************************)
(* Induction, and what follows from it for numbers and folds.              *)
(***************************************************************************)

\* Induction up to n: a set that holds 0, and with a number the next one, has
\* them all; of the sets 0 .. k that miss one, none is the smallest.
LEMMA Induction ==
  ASSUME NEW n \in Nat, NEW S, 0 \in S, \A k \in 0 .. n - 1 : k \in S => k + 1 \in S
  PROVE  \A k \in 0 .. n : k \in S
<1> DEFINE upto(k) == 0 .. k
           missing == {upto(k) : k \in {l \in 0 .. n : l \notin S}}
<1> SUFFICES ASSUME missing # {} PROVE FALSE
  OBVIOUS
<1>1. missing \subseteq FiniteSubsetsOf(0 .. n)
  <2>1. ASSUME NEW k \in 0 .. n PROVE upto(k) \in FiniteSubsetsOf(0 .. n)
    <3>1. IsFiniteSet(0 .. k)
      BY FS_Interval
    <3> QED
      BY <3>1 DEF FiniteSubsetsOf
  <2> HIDE DEF upto
  <2> QED
    BY <2>1
<1> HIDE DEF missing
<1>2. PICK x \in missing : \A y \in missing : ~ (<<y, x>> \in StrictSubsetOrdering(0 .. n))
  BY <1>1, FS_StrictSubsetOrderingWellFounded, WFMin
<1> USE DEF missing
<1>3. PICK k \in 0 .. n : k \notin S /\ x = upto(k)
  OBVIOUS
<1>4. k # 0 /\ k - 1 \in 0 .. n - 1
  BY <1>3
<1>5. k - 1 \notin S /\ k - 1 \in 0 .. n
  BY <1>3, <1>4
<1>6. upto(k - 1) \in missing
  BY <1>5
<1>7. <<upto(k - 1), upto(k)>> \in StrictSubsetOrdering(0 .. n)
  <2>1. upto(k - 1) \subseteq upto(k) /\ k \in upto(k) /\ k \notin upto(k - 1)
    BY <1>4
  <2>2. upto(k) \in SUBSET (0 .. n) /\ upto(k - 1) \in SUBSET (0 .. n)
    BY <1>4
  <2> HIDE DEF upto
  <2> QED
    BY <2>1, <2>2 DEF StrictSubsetOrdering
<1> QED
  BY <1>2, <1>3, <1>6, <1>7

\* Induction from a number on.
LEMMA InductionFrom ==
  ASSUME NEW lo \in Int, NEW hi \in Int, NEW S, lo \in S,
         \A k \in lo .. hi - 1 : k \in S => k + 1 \in S
  PROVE  \A k \in lo .. hi : k \in S
<1> DEFINE n == hi - lo
           G == {k \in 0 .. n : lo + k \in S}
<1> SUFFICES ASSUME NEW k \in lo .. hi PROVE k \in S
  OBVIOUS
<1>1. n \in Nat /\ 0 \in G
  OBVIOUS
<1>2. ASSUME NEW i \in 0 .. n - 1, i \in G PROVE i + 1 \in G
  <2>1. lo + i \in lo .. hi - 1 /\ lo + (i + 1) = (lo + i) + 1 /\ i + 1 \in 0 .. n
    OBVIOUS
  <2> QED
    BY <1>2, <2>1
<1> HIDE DEF G
<1>3. k - lo \in 0 .. n /\ lo + (k - lo) = k
  OBVIOUS
<1>4. \A i \in 0 .. n : i \in G
  <2> HIDE DEF n
  <2> QED
    BY <1>1, <1>2, Induction
<1> HIDE DEF n
<1> QED
  BY <1>3, <1>4 DEF G

\* A set of numbers that is not empty and has a bound has a greatest element.
LEMMA Greatest ==
  ASSUME NEW n \in Nat, NEW G \in SUBSET (1 .. n), G # {}
  PROVE  \E i \in G : \A j \in G : j <= i
<1> DEFINE P(k) == G \cap (1 .. k) # {} =>
                     \E i \in G \cap (1 .. k) : \A j \in G \cap (1 .. k) : j <= i
           S == {k \in 0 .. n : P(k)}
<1>1. 0 \in S
  OBVIOUS
<1>2. ASSUME NEW k \in 0 .. n - 1, k \in S PROVE k + 1 \in S
  <2>1. CASE k + 1 \in G
    <3>1. \A j \in G \cap (1 .. k + 1) : j <= k + 1
      OBVIOUS
    <3>2. k + 1 \in G \cap (1 .. k + 1)
      BY <2>1
    <3> QED
      BY <3>1, <3>2
  <2>2. CASE k + 1 \notin G
    <3>1. G \cap (1 .. k + 1) = G \cap (1 .. k)
      BY <2>2
    <3> QED
      BY <1>2, <3>1
  <2> QED
    BY <2>1, <2>2
<1> HIDE DEF S
<1>3. n \in S
  BY <1>1, <1>2, Induction
<1>4. G \cap (1 .. n) = G
  OBVIOUS
<1> QED
  BY <1>3, <1>4 DEF S

\* The greatest number of a set 1 .. n is n.
LEMMA MaxOfPrefix ==
  ASSUME NEW n \in Nat \ {0}, NEW s \in SUBSET (1 .. n), n \in s
  PROVE  Max(s) = n
<1>1. \A y \in s : n >= y
  OBVIOUS
<1>2. \A x \in s : (\A y \in s : x >= y) => x = n
  OBVIOUS
<1> QED
  BY <1>1, <1>2 DEF Max

\* The recursion by which the community modules define a fold, over every set
\* of positions: the step to the greatest position is the last.
Recursion(h, n, base, step) ==
  h = [s \in SUBSET (1 .. n) |->
         IF s = {} THEN base ELSE step[<<h[s \ {Max(s)}], Max(s)>>]]

\* It has a solution if the step stays inside a set S.
LEMMA RecursionHasSolution ==
  ASSUME NEW n \in Nat, NEW S, NEW base \in S, NEW step \in [S \X (1 .. n) -> S]
  PROVE  \E h \in [SUBSET (1 .. n) -> S] : Recursion(h, n, base, step)
<1> DEFINE sol(k, h) == /\ h \in [SUBSET (1 .. k) -> S]
                        /\ h[{}] = base
                        /\ \A s \in SUBSET (1 .. k) : s # {} =>
                             h[s] = step[<<h[s \ {Max(s)}], Max(s)>>]
           Solved == {k \in 0 .. n : \E h : sol(k, h)}
<1>1. 0 \in Solved
  <2> DEFINE g == [s \in SUBSET (1 .. 0) |-> base]
  <2>1. sol(0, g)
    <3>1. \A s \in SUBSET (1 .. 0) : s = {}
      OBVIOUS
    <3> QED
      BY <3>1
  <2> HIDE DEF g, sol
  <2> QED
    BY <2>1
<1>2. ASSUME NEW k \in 0 .. n - 1, k \in Solved PROVE k + 1 \in Solved
  <2>1. PICK h : sol(k, h)
    BY <1>2
  <2> DEFINE m == k + 1
             new(s) == IF m \in s THEN step[<<h[s \ {m}], m>>] ELSE h[s]
             g == [s \in SUBSET (1 .. m) |-> new(s)]
  <2>2. m \in 1 .. n /\ m \in Nat \ {0}
    OBVIOUS
  <2>3. ASSUME NEW s \in SUBSET (1 .. m), m \notin s
        PROVE  s \in SUBSET (1 .. k)
    BY <2>3
  <2>4. ASSUME NEW s \in SUBSET (1 .. m)
        PROVE  g[s] = new(s) /\ new(s) \in S
    <3>1. CASE m \in s
      <4>1. s \ {m} \in SUBSET (1 .. k)
        BY <2>3
      <4> QED
        BY <2>1, <2>2, <3>1, <4>1
    <3>2. CASE m \notin s
      BY <2>1, <2>3, <3>2
    <3> QED
      BY <3>1, <3>2
  <2>5. g[{}] = base
    BY <2>1
  <2>6. ASSUME NEW s \in SUBSET (1 .. m), s # {}
        PROVE  g[s] = step[<<g[s \ {Max(s)}], Max(s)>>]
    <3>1. CASE m \in s
      <4>1. Max(s) = m
        BY <2>2, <3>1, MaxOfPrefix
      <4>2. s \ {m} \in SUBSET (1 .. m) /\ m \notin s \ {m}
        OBVIOUS
      <4>3. g[s \ {m}] = h[s \ {m}]
        BY <2>4, <4>2
      <4> HIDE DEF g
      <4> QED
        BY <2>4, <3>1, <4>1, <4>3
    <3>2. CASE m \notin s
      <4>1. s \in SUBSET (1 .. k) /\ s \ {Max(s)} \in SUBSET (1 .. m)
            /\ m \notin s \ {Max(s)}
        BY <2>3, <3>2
      <4>2. g[s] = h[s] /\ g[s \ {Max(s)}] = h[s \ {Max(s)}]
        BY <2>4, <3>2, <4>1
      <4> HIDE DEF g
      <4> QED
        BY <2>1, <2>6, <4>1, <4>2
    <3> QED
      BY <3>1, <3>2
  <2>7. g \in [SUBSET (1 .. m) -> S]
    BY <2>4
  <2> HIDE DEF g
  <2>8. sol(m, g)
    BY <2>5, <2>6, <2>7
  <2> HIDE DEF sol
  <2> QED
    BY <2>8
<1> HIDE DEF Solved
<1>3. n \in Solved
  BY <1>1, <1>2, Induction
<1>4. PICK h : sol(n, h)
  BY <1>3 DEF Solved
<1>5. Recursion(h, n, base, step)
  BY <1>4 DEF Recursion
<1> QED
  BY <1>4, <1>5

(***************************************************************************)
(* Decode, one member after the other.                                     *)
(***************************************************************************)

\* A table of fields as ogen generates them: different names, a zero value for
\* each, and in the mask the bit of every field that the schema requires, which
\* is every field that is not a slice.
Table(T) ==
  /\ \E n \in Nat : DOMAIN T.names = 1 .. n /\ T.mask \subseteq 0 .. n - 1
  /\ \A i, j \in DOMAIN T.names : T.names[i] = T.names[j] => i = j
  /\ T.required \subseteq {T.names[i] : i \in DOMAIN T.names}
  /\ \A i \in DOMAIN T.names : T.names[i] \in T.required <=> i - 1 \in T.mask
  /\ T.zero \in [{T.names[i] : i \in DOMAIN T.names} -> {T.zero[T.names[i]] : i \in DOMAIN T.names}]
  /\ \A i \in DOMAIN T.names :
       /\ T.types[i] \in {"string", "int32", "int64", "time.Time", "[]string"}
       /\ T.types[i] = "[]string" <=> i - 1 \notin T.mask
       /\ T.types[i] = "[]string" => T.zero[T.names[i]] = {}

Names(T) == {T.names[i] : i \in DOMAIN T.names}

\* What a field may be while doc is decoded, and the states of Decode.
Values(T, doc) ==
  {T.zero[T.names[i]] : i \in DOMAIN T.names}
    \cup {taken(T.types[i], T.zero[T.names[i]], doc[j].value) :
            i \in DOMAIN T.names, j \in DOMAIN doc}

States(T, doc) ==
  [s : [Names(T) -> Values(T, doc)], requiredBitSet : SUBSET T.mask,
   err : {"nil", "decode", "decode field"}]

start(T) == [s |-> T.zero, requiredBitSet |-> {}, err |-> "nil"]

\* Whether the callback accepts the member.
takesMember(T, m) ==
  /\ \A n \in DOMAIN T.names : m.key = T.names[n] => accepts(T.types[n], m.value)
  /\ (\A n \in DOMAIN T.names : m.key # T.names[n]) => m.value.kind # "malformed"

\* A name has one index.
LEMMA IndexOfName ==
  ASSUME NEW T, Table(T), NEW n \in DOMAIN T.names
  PROVE  fieldIdx(T, T.names[n]) = n
BY DEF Table, fieldIdx

\* What the callback does with a member: it stops at an error, fails on a value
\* it cannot take, and otherwise sets the bit and the field of the key.
LEMMA MemberStep ==
  ASSUME NEW T, Table(T), NEW doc, NEW j \in DOMAIN doc, NEW st \in States(T, doc)
  PROVE  LET m == doc[j]
             next == member(T, st, m)
         IN  /\ next \in States(T, doc)
             /\ next.err = "nil" <=> st.err = "nil" /\ takesMember(T, m)
             /\ next.err = "nil" =>
                  /\ next.requiredBitSet = st.requiredBitSet
                       \cup {n - 1 : n \in {n \in DOMAIN T.names :
                                              n - 1 \in T.mask /\ T.names[n] = m.key}}
                  /\ \A n \in DOMAIN T.names :
                       next.s[T.names[n]] =
                         IF m.key = T.names[n]
                         THEN taken(T.types[n], T.zero[T.names[n]], m.value)
                         ELSE st.s[T.names[n]]
<1> DEFINE m == doc[j]
           next == member(T, st, m)
<1>1. CASE st.err # "nil"
  BY <1>1 DEF member
<1>2. CASE st.err = "nil" /\ \A i \in DOMAIN T.names : T.names[i] # m.key
  <2>1. next = IF m.value.kind = "malformed" THEN [st EXCEPT !.err = "decode"] ELSE st
    BY <1>2 DEF member
  <2>2. takesMember(T, m) <=> m.value.kind # "malformed"
    BY <1>2 DEF takesMember
  <2>3. next \in States(T, doc)
    BY <2>1 DEF States
  <2>4. next.err = "nil" <=> takesMember(T, m)
    BY <1>2, <2>1, <2>2 DEF States
  <2>5. next.err = "nil" => next = st
    BY <2>1 DEF States
  <2>6. {n \in DOMAIN T.names : n - 1 \in T.mask /\ T.names[n] = m.key} = {}
    BY <1>2
  <2> HIDE DEF next, m
  <2>7. st.requiredBitSet
          = st.requiredBitSet \cup {n - 1 : n \in {n \in DOMAIN T.names :
                                              n - 1 \in T.mask /\ T.names[n] = m.key}}
    BY <2>6
  <2>8. \A n \in DOMAIN T.names : m.key # T.names[n]
    BY <1>2
  <2> QED
    BY <1>2, <2>3, <2>4, <2>5, <2>7, <2>8 DEF m, next
<1>3. ASSUME NEW k \in DOMAIN T.names, T.names[k] = m.key, st.err = "nil"
      PROVE  /\ next \in States(T, doc)
             /\ next.err = "nil" <=> takesMember(T, m)
             /\ next.err = "nil" =>
                  /\ next.requiredBitSet = st.requiredBitSet
                       \cup {n - 1 : n \in {n \in DOMAIN T.names :
                                              n - 1 \in T.mask /\ T.names[n] = m.key}}
                  /\ \A n \in DOMAIN T.names :
                       next.s[T.names[n]] =
                         IF m.key = T.names[n]
                         THEN taken(T.types[n], T.zero[T.names[n]], m.value)
                         ELSE st.s[T.names[n]]
  <2> DEFINE new == taken(T.types[k], T.zero[T.names[k]], m.value)
             bit == {k - 1} \cap T.mask
  <2>1. fieldIdx(T, m.key) = k
    BY <1>3, IndexOfName
  <2>2. \A old : taken(T.types[k], old, m.value) = new
    BY DEF taken
  <2>3. takesMember(T, m) <=> accepts(T.types[k], m.value)
    BY <1>3 DEF takesMember, Table
  <2>4. \A n \in DOMAIN T.names : m.key = T.names[n] <=> n = k
    BY <1>3 DEF Table
  <2>5. {n - 1 : n \in {n \in DOMAIN T.names : n - 1 \in T.mask /\ T.names[n] = m.key}} = bit
    BY <1>3, <2>4
  <2>6. new \in Values(T, doc) /\ m.key \in Names(T)
    BY <1>3 DEF Values, Names
  <2>7. IF accepts(T.types[k], m.value)
        THEN next = [s |-> [st.s EXCEPT ![m.key] = new],
                     requiredBitSet |-> st.requiredBitSet \cup bit, err |-> "nil"]
        ELSE next \in States(T, doc) /\ next.err = "decode field"
    <3> DEFINE seen == [st EXCEPT !.requiredBitSet = @ \cup bits(T, m.key)]
    <3>1. bits(T, m.key) = bit
      BY <2>1 DEF bits
    <3>2. next = IF accepts(T.types[k], m.value)
                 THEN [seen EXCEPT !.s[m.key] = taken(T.types[k], @, m.value)]
                 ELSE [seen EXCEPT !.err = "decode field"]
      BY <1>3, <2>1 DEF member
    <3>3. seen = [s |-> st.s, requiredBitSet |-> st.requiredBitSet \cup bit, err |-> "nil"]
      <4> DEFINE b == st.requiredBitSet \cup bit
                 old == st.s
      <4>1. st = [s |-> old, requiredBitSet |-> st.requiredBitSet, err |-> "nil"]
        BY <1>3 DEF States
      <4>2. seen = [st EXCEPT !.requiredBitSet = b]
        BY <3>1
      <4> HIDE DEF b, seen, bit, old
      <4>3. seen = [s |-> old, requiredBitSet |-> b, err |-> "nil"]
        BY <4>1, <4>2
      <4> QED
        BY <4>3 DEF b, old
    <3> HIDE DEF next, m, bit, new, seen
    <3>4. [seen EXCEPT !.s[m.key] = taken(T.types[k], @, m.value)]
            = [seen EXCEPT !.s = [st.s EXCEPT ![m.key] = new]]
      <4>1. [seen EXCEPT !.s[m.key] = taken(T.types[k], @, m.value)]
              = [seen EXCEPT !.s[m.key] = new]
        BY <2>2
      <4>2. seen.s = st.s
        BY <3>3
      <4> QED
        BY <4>1, <4>2
    <3>5. \A x : [seen EXCEPT !.s = x]
                  = [s |-> x, requiredBitSet |-> st.requiredBitSet \cup bit, err |-> "nil"]
      BY <3>3
    <3>6. /\ [seen EXCEPT !.err = "decode field"] \in States(T, doc)
          /\ [seen EXCEPT !.err = "decode field"].err = "decode field"
      <4>1. st.requiredBitSet \cup bit \subseteq T.mask
        BY DEF States, bit
      <4>2. seen \in States(T, doc)
        BY <3>3, <4>1 DEF States
      <4> QED
        BY <4>2 DEF States
    <3> QED
      BY <3>2, <3>4, <3>5, <3>6
  <2>8. bit \subseteq T.mask
    OBVIOUS
  <2> HIDE DEF next, m, bit, new
  <2>9. [st.s EXCEPT ![m.key] = new] \in [Names(T) -> Values(T, doc)]
    BY <2>6 DEF States
  <2>10. next \in States(T, doc) /\ (next.err = "nil" <=> takesMember(T, m))
    <3>1. st.requiredBitSet \cup bit \in SUBSET T.mask
      BY <2>8 DEF States
    <3>2. CASE accepts(T.types[k], m.value)
      <4> DEFINE x == [st.s EXCEPT ![m.key] = new]
                 r == st.requiredBitSet \cup bit
      <4>1. next = [s |-> x, requiredBitSet |-> r, err |-> "nil"]
        BY <2>7, <3>2
      <4>2. x \in [Names(T) -> Values(T, doc)] /\ r \in SUBSET T.mask
        BY <2>9, <3>1
      <4> HIDE DEF x, r
      <4> QED
        BY <2>3, <3>2, <4>1, <4>2 DEF States
    <3> QED
      BY <2>3, <2>7, <3>2
  <2>11. ASSUME next.err = "nil", NEW n \in DOMAIN T.names
         PROVE  next.s[T.names[n]] = IF m.key = T.names[n]
                                     THEN taken(T.types[n], T.zero[T.names[n]], m.value)
                                     ELSE st.s[T.names[n]]
    <3>1. next.s = [st.s EXCEPT ![m.key] = new]
      BY <2>7, <2>11
    <3>2. st.s \in [Names(T) -> Values(T, doc)] /\ T.names[n] \in Names(T)
      BY DEF States, Names
    <3>3. m.key = T.names[n] => new = taken(T.types[n], T.zero[T.names[n]], m.value)
      BY <2>4 DEF new
    <3> QED
      BY <2>6, <3>1, <3>2, <3>3
  <2>12. next.err = "nil" => next.requiredBitSet = st.requiredBitSet \cup bit
    BY <2>7
  <2> QED
    BY <2>5, <2>10, <2>11, <2>12
<1> HIDE DEF next, m
<1> QED
  BY <1>1, <1>2, <1>3 DEF next, m

\* The state after the last member.
final(T, doc) == FoldLeft(LAMBDA st, m : member(T, st, m), start(T), doc)

\* The fold goes through a state after each member and ends in the last one.
LEMMA DecodeStates ==
  ASSUME NEW T, Table(T), NEW doc, NEW n \in Nat, DOMAIN doc = 1 .. n
  PROVE  \E st \in [0 .. n -> States(T, doc)] :
           /\ st[0] = start(T)
           /\ \A i \in 1 .. n : st[i] = member(T, st[i - 1], doc[i])
           /\ st[n] = final(T, doc)
<1> DEFINE S == States(T, doc)
           step == [p \in S \X (1 .. n) |-> member(T, p[1], doc[p[2]])]
           equation(h) == h = [s \in SUBSET (DOMAIN doc) |->
                                 IF s = {} THEN start(T)
                                 ELSE member(T, h[s \ {Max(s)}], doc[Max(s)])]
<1>1. start(T) \in S
  <2>1. T.zero \in [Names(T) -> Values(T, doc)]
    <3>1. T.zero \in [Names(T) -> {T.zero[T.names[i]] : i \in DOMAIN T.names}]
      BY DEF Table, Names
    <3>2. {T.zero[T.names[i]] : i \in DOMAIN T.names} \subseteq Values(T, doc)
      BY DEF Values
    <3> QED
      BY <3>1, <3>2
  <2> QED
    BY <2>1 DEF start, States
<1>2. ASSUME NEW a \in S, NEW i \in 1 .. n PROVE member(T, a, doc[i]) \in S
  BY <1>2, MemberStep
<1>3. step \in [S \X (1 .. n) -> S]
  <2> HIDE DEF S
  <2> QED
    BY <1>2
<1>4. \A s \in SUBSET (1 .. n) : s # {} => Max(s) \in s /\ Max(s) \in 1 .. n
  <2> SUFFICES ASSUME NEW s \in SUBSET (1 .. n), s # {} PROVE Max(s) \in s
    OBVIOUS
  <2>1. \E x \in s : \A y \in s : x >= y
    BY Greatest
  <2> QED
    BY <2>1 DEF Max
<1>5. \E h : equation(h)
  <2> HIDE DEF S, step
  <2>1. PICK h \in [SUBSET (1 .. n) -> S] : Recursion(h, n, start(T), step)
    BY <1>1, <1>3, RecursionHasSolution
  <2>2. ASSUME NEW s \in SUBSET (1 .. n), s # {}
        PROVE  step[<<h[s \ {Max(s)}], Max(s)>>] = member(T, h[s \ {Max(s)}], doc[Max(s)])
    <3>1. h[s \ {Max(s)}] \in S
      BY <2>1
    <3>2. Max(s) \in 1 .. n
      BY <1>4, <2>2
    <3> HIDE DEF S
    <3> QED
      BY <3>1, <3>2 DEF step
  <2>3. equation(h)
    BY <2>1, <2>2 DEF Recursion
  <2> HIDE DEF equation
  <2> QED
    BY <2>3
<1>6. PICK h : equation(h) /\ final(T, doc) = h[DOMAIN doc]
  BY <1>5 DEF final, FoldLeft, MapThenFoldSet
<1> DEFINE st == [i \in 0 .. n |-> h[1 .. i]]
<1>7. st[0] = start(T)
  <2>1. 1 .. 0 = {} /\ {} \in SUBSET (DOMAIN doc)
    OBVIOUS
  <2>2. h[{}] = start(T)
    BY <1>6
  <2> QED
    BY <2>1, <2>2
<1>8. ASSUME NEW i \in 1 .. n PROVE st[i] = member(T, st[i - 1], doc[i])
  <2>1. Max(1 .. i) = i
    BY MaxOfPrefix
  <2>2. (1 .. i) \ {i} = 1 .. i - 1 /\ 1 .. i # {} /\ 1 .. i \in SUBSET (DOMAIN doc)
    OBVIOUS
  <2>3. h[1 .. i] = member(T, h[(1 .. i) \ {Max(1 .. i)}], doc[Max(1 .. i)])
    BY <1>6, <2>2
  <2>4. st[i] = h[1 .. i] /\ st[i - 1] = h[1 .. i - 1]
    OBVIOUS
  <2> HIDE DEF st
  <2> QED
    BY <2>1, <2>2, <2>3, <2>4
<1>9. st[n] = final(T, doc)
  BY <1>6
<1> DEFINE Good == {i \in 0 .. n : st[i] \in S}
<1>10. \A i \in 0 .. n : i \in Good
  <2> HIDE DEF st, S
  <2>1. 0 \in Good
    BY <1>1, <1>7
  <2>2. ASSUME NEW i \in 0 .. n - 1, i \in Good PROVE i + 1 \in Good
    <3>1. i + 1 \in 1 .. n /\ (i + 1) - 1 = i /\ st[i] \in S
      BY <2>2
    <3>2. st[i + 1] = member(T, st[i], doc[i + 1])
      BY <1>8, <3>1
    <3> QED
      BY <1>2, <3>1, <3>2
  <2> HIDE DEF Good
  <2> QED
    BY <2>1, <2>2, Induction
<1>11. st \in [0 .. n -> S]
  <2> HIDE DEF S
  <2> QED
    BY <1>10
<1> HIDE DEF st, S
<1> QED
  BY <1>7, <1>8, <1>9, <1>11 DEF S

\* What Decode knows after the first i members, if it has not failed: the bits
\* of the fields given so far, and of each field the value given last.
KnowsBits(T, doc, i, st) ==
  \A n \in DOMAIN T.names :
    n - 1 \in st.requiredBitSet <=>
      n - 1 \in T.mask /\ \E j \in 1 .. i : doc[j].key = T.names[n]

KnowsValues(T, doc, i, st) ==
  \A n \in DOMAIN T.names :
    /\ (\A j \in 1 .. i : doc[j].key # T.names[n]) => st.s[T.names[n]] = T.zero[T.names[n]]
    /\ \A j \in 1 .. i :
         doc[j].key = T.names[n] /\ (\A k \in j + 1 .. i : doc[k].key # T.names[n]) =>
           st.s[T.names[n]] = taken(T.types[n], T.zero[T.names[n]], doc[j].value)

Knows(T, doc, i, st) ==
  /\ st.err = "nil" <=> \A j \in 1 .. i : takesMember(T, doc[j])
  /\ st.err = "nil" => KnowsBits(T, doc, i, st) /\ KnowsValues(T, doc, i, st)

\* By induction over the members.
LEMMA DecodeKnows ==
  ASSUME NEW T, Table(T), NEW doc, NEW n \in Nat, DOMAIN doc = 1 .. n
  PROVE  final(T, doc) \in States(T, doc) /\ Knows(T, doc, n, final(T, doc))
<1>1. PICK st \in [0 .. n -> States(T, doc)] :
             /\ st[0] = start(T)
             /\ \A i \in 1 .. n : st[i] = member(T, st[i - 1], doc[i])
             /\ st[n] = final(T, doc)
  BY DecodeStates
<1> DEFINE Good == {i \in 0 .. n : Knows(T, doc, i, st[i])}
<1>2. 0 \in Good
  <2>1. Knows(T, doc, 0, start(T))
    BY DEF Knows, KnowsBits, KnowsValues, start
  <2> QED
    BY <1>1, <2>1
<1>3. ASSUME NEW i \in 0 .. n - 1, i \in Good PROVE i + 1 \in Good
  <2> DEFINE old == st[i]
             new == st[i + 1]
             m == doc[i + 1]
  <2>1. i + 1 \in DOMAIN doc /\ old \in States(T, doc) /\ new = member(T, old, m)
    <3>1. i + 1 \in 1 .. n /\ (i + 1) - 1 = i /\ i \in 0 .. n
      OBVIOUS
    <3> QED
      BY <1>1, <3>1
  <2>2. Knows(T, doc, i, old)
    BY <1>3
  <2>3. 1 .. i + 1 = (1 .. i) \cup {i + 1}
    OBVIOUS
  <2> HIDE DEF old, new, m, Good
  <2>4. /\ new.err = "nil" <=> old.err = "nil" /\ takesMember(T, m)
        /\ new.err = "nil" =>
             /\ new.requiredBitSet = old.requiredBitSet
                  \cup {k - 1 : k \in {k \in DOMAIN T.names :
                                         k - 1 \in T.mask /\ T.names[k] = m.key}}
             /\ \A k \in DOMAIN T.names :
                  new.s[T.names[k]] = IF m.key = T.names[k]
                                      THEN taken(T.types[k], T.zero[T.names[k]], m.value)
                                      ELSE old.s[T.names[k]]
    BY <2>1, MemberStep DEF m
  <2>5. new.err = "nil" <=> \A j \in 1 .. i + 1 : takesMember(T, doc[j])
    BY <2>2, <2>3, <2>4 DEF Knows, m
  <2>6. ASSUME new.err = "nil" PROVE KnowsBits(T, doc, i + 1, new)
    <3> SUFFICES ASSUME NEW k \in DOMAIN T.names
                 PROVE  k - 1 \in new.requiredBitSet <=>
                          k - 1 \in T.mask /\ \E j \in 1 .. i + 1 : doc[j].key = T.names[k]
      BY DEF KnowsBits
    <3>1. DOMAIN T.names \subseteq Int
      BY DEF Table
    <3>2. k - 1 \in new.requiredBitSet <=>
            k - 1 \in old.requiredBitSet \/ (k - 1 \in T.mask /\ T.names[k] = m.key)
      BY <2>4, <2>6, <3>1
    <3>3. k - 1 \in old.requiredBitSet <=>
            k - 1 \in T.mask /\ \E j \in 1 .. i : doc[j].key = T.names[k]
      BY <2>2, <2>4, <2>6 DEF Knows, KnowsBits
    <3> QED
      BY <2>3, <3>2, <3>3 DEF m
  <2>7. ASSUME new.err = "nil" PROVE KnowsValues(T, doc, i + 1, new)
    <3> SUFFICES ASSUME NEW k \in DOMAIN T.names
                 PROVE  /\ (\A j \in 1 .. i + 1 : doc[j].key # T.names[k]) =>
                             new.s[T.names[k]] = T.zero[T.names[k]]
                        /\ \A j \in 1 .. i + 1 :
                             doc[j].key = T.names[k]
                               /\ (\A l \in j + 1 .. i + 1 : doc[l].key # T.names[k]) =>
                             new.s[T.names[k]]
                               = taken(T.types[k], T.zero[T.names[k]], doc[j].value)
      BY DEF KnowsValues
    <3>1. KnowsValues(T, doc, i, old)
      BY <2>2, <2>4, <2>7 DEF Knows
    <3>2. new.s[T.names[k]] = IF m.key = T.names[k]
                              THEN taken(T.types[k], T.zero[T.names[k]], m.value)
                              ELSE old.s[T.names[k]]
      BY <2>4, <2>7
    <3>3. CASE m.key = T.names[k]
      <4>1. ASSUME NEW j \in 1 .. i + 1, \A l \in j + 1 .. i + 1 : doc[l].key # T.names[k]
            PROVE  j = i + 1
        BY <3>3, <4>1 DEF m
      <4>2. i + 1 \in 1 .. i + 1 /\ doc[i + 1].key = T.names[k]
        BY <3>3 DEF m
      <4>3. new.s[T.names[k]] = taken(T.types[k], T.zero[T.names[k]], doc[i + 1].value)
        BY <3>2, <3>3 DEF m
      <4> QED
        BY <4>1, <4>2, <4>3
    <3>4. CASE m.key # T.names[k]
      <4>1. ASSUME NEW j \in 1 .. i + 1, doc[j].key = T.names[k],
                   \A l \in j + 1 .. i + 1 : doc[l].key # T.names[k]
            PROVE  j \in 1 .. i /\ \A l \in j + 1 .. i : doc[l].key # T.names[k]
        BY <3>4, <4>1 DEF m
      <4> QED
        BY <2>3, <3>1, <3>2, <3>4, <4>1 DEF KnowsValues
    <3> QED
      BY <3>3, <3>4
  <2>8. Knows(T, doc, i + 1, new)
    BY <2>5, <2>6, <2>7 DEF Knows
  <2> QED
    BY <2>8 DEF new, Good
<1> HIDE DEF Good
<1>4. \A i \in 0 .. n : i \in Good
  BY <1>2, <1>3, Induction
<1>5. Knows(T, doc, n, st[n])
  BY <1>4 DEF Good
<1> QED
  BY <1>1, <1>5

(***************************************************************************)
(* inOrder lists a set of numbers, each once.                              *)
(***************************************************************************)
Lists(f, S) ==
  /\ Cardinality(S) \in Nat /\ f \in [1 .. Cardinality(S) -> S]
  /\ \A k \in S : \E i \in 1 .. Cardinality(S) : f[i] = k
  /\ \A i, j \in 1 .. Cardinality(S) : f[i] = f[j] => i = j

\* The rank of a number in the set is one more than how many are smaller, and
\* as many different ranks as numbers leave no rank unused.
LEMMA InOrder ==
  ASSUME NEW n \in Nat, NEW S \in SUBSET (0 .. n)
  PROVE  Lists(inOrder(S), S)
<1> DEFINE smaller(k) == {j \in S : j < k}
           N == Cardinality(S)
           rank == [k \in S |-> Cardinality(smaller(k)) + 1]
<1>1. IsFiniteSet(S) /\ N \in Nat /\ S \subseteq Int
  <2>1. S \subseteq Int
    OBVIOUS
  <2>2. IsFiniteSet(0 .. n)
    BY FS_Interval
  <2>3. IsFiniteSet(S)
    BY <2>2, FS_Subset
  <2> HIDE DEF rank, smaller
  <2> QED
    BY <2>1, <2>3, FS_CardinalityType
<1>2. ASSUME NEW k \in S
      PROVE  IsFiniteSet(smaller(k)) /\ Cardinality(smaller(k)) \in 0 .. N - 1
  <2>1. smaller(k) \in SUBSET (S \ {k})
    <3>1. \A j \in S : j < k => j # k
      BY <1>1
    <3> QED
      BY <3>1
  <2>2. IsFiniteSet(S \ {k}) /\ Cardinality(S \ {k}) = N - 1
    BY <1>1, FS_RemoveElement
  <2> HIDE DEF smaller
  <2>3. IsFiniteSet(smaller(k)) /\ Cardinality(smaller(k)) <= N - 1
    BY <2>1, <2>2, FS_Subset
  <2> QED
    BY <1>1, <2>3, FS_CardinalityType
<1>3. ASSUME NEW k \in S, NEW l \in S, k < l
      PROVE  Cardinality(smaller(k)) < Cardinality(smaller(l))
  <2>1. smaller(k) \cup {k} \in SUBSET smaller(l) /\ k \notin smaller(k)
    <3>1. \A j \in S : j < k => j < l
      BY <1>1, <1>3
    <3>2. ~ (k < k)
      BY <1>1
    <3> QED
      BY <1>3, <3>1, <3>2
  <2> HIDE DEF smaller
  <2>2. Cardinality(smaller(k) \cup {k}) = Cardinality(smaller(k)) + 1
    BY <1>2, <2>1, FS_AddElement
  <2>3. Cardinality(smaller(k) \cup {k}) <= Cardinality(smaller(l))
    BY <1>2, <2>1, FS_Subset
  <2> QED
    BY <1>2, <2>2, <2>3
<1>4. ASSUME NEW k \in S, NEW l \in S, Cardinality(smaller(k)) = Cardinality(smaller(l))
      PROVE  k = l
  <2>1. k < l \/ l < k \/ k = l
    BY <1>1
  <2>2. Cardinality(smaller(k)) \in Int
    BY <1>2
  <2> HIDE DEF smaller
  <2> QED
    BY <1>3, <1>4, <2>1, <2>2
<1>5. rank \in Surjection(S, 1 .. N)
  <2>1. rank \in [S -> 1 .. N]
    <3>1. ASSUME NEW k \in S PROVE Cardinality(smaller(k)) + 1 \in 1 .. N
      <4> HIDE DEF smaller
      <4> QED
        BY <1>1, <1>2
    <3> HIDE DEF smaller, N
    <3> QED
      BY <3>1
  <2>2. ASSUME NEW k \in S, NEW l \in S, rank[k] = rank[l] PROVE k = l
    <3>1. Cardinality(smaller(k)) \in Int /\ Cardinality(smaller(l)) \in Int
      BY <1>2
    <3>2. Cardinality(smaller(k)) + 1 = Cardinality(smaller(l)) + 1
      BY <2>2
    <3> HIDE DEF smaller
    <3> QED
      BY <1>4, <3>1, <3>2
  <2> HIDE DEF rank
  <2>3. rank \in Injection(S, 1 .. N)
    BY <2>1, <2>2 DEF Injection, IsInjective
  <2>4. IsFiniteSet(1 .. N) /\ Cardinality(1 .. N) = N
    BY <1>1, FS_Interval
  <2> QED
    BY <2>3, <2>4, FS_Injection
<1>6. ASSUME NEW i \in 1 .. N
      PROVE  \E k \in S : Cardinality(smaller(k)) = i - 1
  <2>1. PICK k \in S : rank[k] = i
    <3> HIDE DEF rank
    <3> QED
      BY <1>5 DEF Surjection
  <2>2. Cardinality(smaller(k)) + 1 = i /\ Cardinality(smaller(k)) \in Int
    BY <1>2, <2>1
  <2>3. Cardinality(smaller(k)) = i - 1
    <3> HIDE DEF smaller
    <3> QED
      BY <1>1, <2>2
  <2> HIDE DEF smaller
  <2> QED
    BY <2>3
<1> DEFINE f == inOrder(S)
<1>7. DOMAIN f = 1 .. N /\ f = [i \in 1 .. N |-> f[i]]
  <2> DEFINE ofRank(i) == CHOOSE k \in S : Cardinality({j \in S : j < k}) = i - 1
  <2>1. f = [i \in 1 .. N |-> ofRank(i)]
    BY DEF inOrder
  <2> HIDE DEF f, N, ofRank
  <2> QED
    BY <2>1
<1>8. ASSUME NEW i \in 1 .. N PROVE f[i] \in S /\ Cardinality(smaller(f[i])) = i - 1
  <2>1. f[i] = CHOOSE k \in S : Cardinality(smaller(k)) = i - 1
    BY DEF inOrder
  <2> HIDE DEF smaller, f
  <2> QED
    BY <1>6, <2>1
<1>9. ASSUME NEW k \in S PROVE \E i \in 1 .. N : f[i] = k
  <2> DEFINE i == Cardinality(smaller(k)) + 1
  <2>1. i \in 1 .. N /\ i - 1 = Cardinality(smaller(k))
    <3> HIDE DEF smaller
    <3> QED
      BY <1>1, <1>2
  <2> HIDE DEF smaller, f, i
  <2> QED
    BY <1>4, <1>8, <2>1
<1> HIDE DEF f, smaller
<1>10. \A i, j \in 1 .. N : f[i] = f[j] => i = j
  BY <1>1, <1>8
<1>11. f \in [1 .. N -> S]
  BY <1>7, <1>8
<1> QED
  BY <1>1, <1>9, <1>10, <1>11 DEF Lists, f

\* The names of the fields missing are listed as often as fields are missing.
LEMMA FailuresNameTheMissing ==
  ASSUME NEW T, Table(T), NEW M \in SUBSET {n \in DOMAIN T.names : n - 1 \in T.mask},
         NEW result, result = {n - 1 : n \in M}
  PROVE  /\ ToSet(failures(T, result)) = {T.names[n] : n \in M}
         /\ Len(failures(T, result)) = Cardinality(M)
<1> DEFINE f == inOrder(result)
           N == Cardinality(result)
           F == failures(T, result)
<1>1. PICK nf \in Nat : DOMAIN T.names = 1 .. nf /\ T.mask \subseteq 0 .. nf - 1
  BY DEF Table
<1>2. M \subseteq 1 .. nf /\ result \in SUBSET (0 .. nf)
  BY <1>1
<1>3. Lists(f, result)
  BY <1>2, InOrder
<1>4. Cardinality(M) = N
  <2> DEFINE g == [n \in M |-> n - 1]
  <2>1. g \in [M -> result]
    OBVIOUS
  <2>2. \A a, b \in M : g[a] = g[b] => a = b
    BY <1>2
  <2>3. \A r \in result : \E a \in M : g[a] = r
    OBVIOUS
  <2> HIDE DEF g
  <2>4. g \in Bijection(M, result)
    BY <2>1, <2>2, <2>3 DEF Bijection, Injection, Surjection, IsInjective
  <2>5. IsFiniteSet(M)
    <3>1. IsFiniteSet(1 .. nf)
      BY FS_Interval
    <3> QED
      BY <1>2, <3>1, FS_Subset
  <2> QED
    BY <2>4, <2>5, FS_Bijection DEF ExistsBijection
<1>5. /\ DOMAIN f = 1 .. N /\ N \in Nat
      /\ \A i \in 1 .. N : f[i] \in result
      /\ \A k \in result : \E i \in 1 .. N : f[i] = k
  <2> HIDE DEF f
  <2> QED
    BY <1>3 DEF Lists
<1>6. F = [i \in 1 .. N |-> T.names[f[i] + 1]]
  BY <1>5 DEF failures
<1>7. Len(F) = N
  <2> HIDE DEF F, N, f
  <2> QED
    BY <1>5, <1>6
<1>8. ToSet(F) = {T.names[f[i] + 1] : i \in 1 .. N}
  <2> HIDE DEF F, N, f
  <2> QED
    BY <1>6 DEF ToSet
<1>9. {T.names[f[i] + 1] : i \in 1 .. N} = {T.names[n] : n \in M}
  <2> HIDE DEF F, N, f
  <2>1. ASSUME NEW i \in 1 .. N PROVE f[i] + 1 \in M
    <3>1. PICK n \in M : f[i] = n - 1
      BY <1>5
    <3> QED
      BY <1>2, <3>1
  <2>2. ASSUME NEW n \in M PROVE \E i \in 1 .. N : f[i] + 1 = n
    <3>1. PICK i \in 1 .. N : f[i] = n - 1
      BY <1>5
    <3> QED
      BY <1>2, <3>1
  <2> QED
    BY <2>1, <2>2
<1> QED
  BY <1>4, <1>7, <1>8, <1>9

\* Decode does what the schema says of the whole object.
LEMMA DecodeMeetsTheSchema ==
  ASSUME NEW T, Table(T), NEW doc, NEW n \in Nat, DOMAIN doc = 1 .. n
  PROVE  meetsSchema(T, doc)
<1> DEFINE end == final(T, doc)
           result == missed(end.requiredBitSet, T.mask)
           d == Decode(T, doc)
           M == Missing(T, doc)
<1>1. end \in States(T, doc) /\ Knows(T, doc, n, end)
  BY DecodeKnows
<1>2. /\ d.s = end.s
      /\ d.err = IF end.err # "nil" THEN end.err
                 ELSE IF result # {} THEN "required" ELSE "nil"
      /\ d.failures = IF end.err = "nil" THEN failures(T, result) ELSE << >>
  BY DEF Decode, final, start
<1>3. DOMAIN T.names \subseteq Int
  BY DEF Table
<1> HIDE DEF end, d
<1>4. end.err = "nil" <=> Readable(T, doc)
  <2>1. \A i \in 1 .. n :
          takesMember(T, doc[i]) <=>
            /\ \A k \in DOMAIN T.names : i \in Given(T, doc, k) => accepts(T.types[k], doc[i].value)
            /\ (\A k \in DOMAIN T.names : i \notin Given(T, doc, k)) => doc[i].value.kind # "malformed"
    BY DEF takesMember, Given
  <2>2. Readable(T, doc) <=> \A i \in 1 .. n : takesMember(T, doc[i])
    BY <2>1 DEF Readable
  <2> QED
    BY <1>1, <2>2 DEF Knows
<1>5. ASSUME end.err = "nil" PROVE result = {k - 1 : k \in M}
  <2>1. end.requiredBitSet \subseteq T.mask
    BY <1>1 DEF States
  <2>2. result = T.mask \ end.requiredBitSet
    BY <2>1 DEF missed
  <2>3. \A k \in DOMAIN T.names : k - 1 \in end.requiredBitSet <=>
          k - 1 \in T.mask /\ Given(T, doc, k) # {}
    <3>1. KnowsBits(T, doc, n, end)
      BY <1>1, <1>5 DEF Knows
    <3>2. \A k \in DOMAIN T.names :
            Given(T, doc, k) # {} <=> \E j \in 1 .. n : doc[j].key = T.names[k]
      BY DEF Given
    <3> QED
      BY <3>1, <3>2 DEF KnowsBits
  <2>4. \A b \in T.mask : b + 1 \in DOMAIN T.names /\ (b + 1) - 1 = b
    BY DEF Table
  <2> HIDE DEF result
  <2>5. ASSUME NEW b \in result PROVE \E k \in M : b = k - 1
    <3>1. b + 1 \in DOMAIN T.names /\ (b + 1) - 1 = b /\ b \in T.mask
      BY <2>2, <2>4
    <3>2. b + 1 \in M
      BY <2>2, <2>3, <3>1 DEF Missing, Table
    <3> QED
      BY <3>1, <3>2
  <2>6. ASSUME NEW k \in M PROVE k - 1 \in result
    BY <2>2, <2>3 DEF M, Missing, Table
  <2> QED
    BY <2>5, <2>6
<1> HIDE DEF result, M
<1>6. d.err = "nil" <=> Readable(T, doc) /\ M = {}
  BY <1>2, <1>4, <1>5
<1>7. ASSUME Readable(T, doc)
      PROVE  ToSet(d.failures) = {T.names[k] : k \in M} /\ Len(d.failures) = Cardinality(M)
  <2>1. M \in SUBSET {k \in DOMAIN T.names : k - 1 \in T.mask}
    BY DEF M, Missing, Table
  <2>2. result = {k - 1 : k \in M} /\ d.failures = failures(T, result)
    BY <1>2, <1>4, <1>5, <1>7
  <2> QED
    BY <2>1, <2>2, FailuresNameTheMissing
<1>8. ASSUME d.err = "nil", NEW k \in DOMAIN T.names
      PROVE  d.s[T.names[k]] = finalValue(T, doc, k)
  <2> DEFINE given == Given(T, doc, k)
             last == CHOOSE i \in given : \A j \in given : j <= i
  <2>1. KnowsValues(T, doc, n, end)
    BY <1>1, <1>4, <1>6, <1>8 DEF Knows
  <2>2. finalValue(T, doc, k) = IF given = {} THEN T.zero[T.names[k]]
                                ELSE taken(T.types[k], T.zero[T.names[k]], doc[last].value)
    BY DEF finalValue
  <2>3. given = {j \in 1 .. n : doc[j].key = T.names[k]}
    BY DEF Given
  <2>4. CASE given = {}
    <3>1. \A j \in 1 .. n : doc[j].key # T.names[k]
      BY <2>3, <2>4
    <3> QED
      BY <1>2, <2>1, <2>2, <2>4, <3>1 DEF KnowsValues
  <2>5. CASE given # {}
    <3>1. given \in SUBSET (1 .. n)
      BY <2>3
    <3> HIDE DEF given
    <3>2. last \in given /\ \A j \in given : j <= last
      <4>1. \E i \in given : \A j \in given : j <= i
        BY <2>5, <3>1, Greatest
      <4> QED
        BY <4>1
    <3> HIDE DEF last
    <3>3. last \in 1 .. n /\ doc[last].key = T.names[k]
      BY <2>3, <3>2
    <3>4. \A j \in last + 1 .. n : doc[j].key # T.names[k]
      BY <2>3, <3>2, <3>3
    <3>5. end.s[T.names[k]] = taken(T.types[k], T.zero[T.names[k]], doc[last].value)
      BY <2>1, <3>3, <3>4 DEF KnowsValues
    <3> QED
      BY <1>2, <2>2, <2>5, <3>5
  <2> QED
    BY <2>4, <2>5
<1> QED
  BY <1>6, <1>7, <1>8 DEF meetsSchema, d, M

(***************************************************************************)
(* Encode, and Decode of what it wrote.                                    *)
(***************************************************************************)

\* What the Go type of a field holds; a slice is nil or has elements.
Fits(type, x) ==
  /\ type = "int32" => x \in -MaxInt32 - 1 .. MaxInt32
  /\ type = "int64" => x \in -MaxInt64 - 1 .. MaxInt64
  /\ type = "time.Time" => x \in Moments
  /\ type = "[]string" => x = {} \/ \E elements : x = {elements} /\ elements = [i \in DOMAIN elements |-> elements[i]]

\* What Decode leaves in a field fits its type.
LEMMA DecodedFits ==
  ASSUME NEW T, Table(T), NEW doc, NEW n \in Nat, DOMAIN doc = 1 .. n,
         Readable(T, doc), Missing(T, doc) = {}, NEW k \in DOMAIN T.names
  PROVE  Fits(T.types[k], finalValue(T, doc, k))
<1> DEFINE given == Given(T, doc, k)
           last == CHOOSE i \in given : \A j \in given : j <= i
           x == finalValue(T, doc, k)
<1>1. x = IF given = {} THEN T.zero[T.names[k]]
          ELSE taken(T.types[k], T.zero[T.names[k]], doc[last].value)
  BY DEF finalValue
<1>2. T.types[k] \in {"string", "int32", "int64", "time.Time", "[]string"}
  BY DEF Table
<1> HIDE DEF x
<1>3. CASE given = {}
  <2>1. T.types[k] = "[]string" /\ x = {}
    BY <1>1, <1>3 DEF Missing, Table
  <2> QED
    BY <2>1 DEF Fits, x
<1>4. CASE given # {}
  <2>1. given \in SUBSET (1 .. n)
    BY DEF Given
  <2>2. \A i \in given : accepts(T.types[k], doc[i].value)
    BY DEF Readable, Given
  <2> HIDE DEF given
  <2>3. last \in given
    BY <1>4, <2>1, Greatest
  <2> HIDE DEF last
  <2> DEFINE v == doc[last].value
  <2>4. accepts(T.types[k], v) /\ x = taken(T.types[k], T.zero[T.names[k]], v)
    BY <1>1, <1>4, <2>2, <2>3
  <2> HIDE DEF v
  <2>5. CASE T.types[k] = "[]string"
    <3> DEFINE elements == [i \in DOMAIN v.v |-> v.v[i].v]
    <3>1. x = {elements}
      BY <2>4, <2>5 DEF taken
    <3>2. elements = [i \in DOMAIN elements |-> elements[i]]
      OBVIOUS
    <3> HIDE DEF elements
    <3> QED
      BY <2>5, <3>1, <3>2 DEF Fits, x
  <2>6. CASE T.types[k] # "[]string"
    <3>1. x = v.v
      BY <2>4, <2>6 DEF taken
    <3> QED
      BY <1>2, <2>4, <2>6, <3>1 DEF Fits, accepts, x
  <2> QED
    BY <2>5, <2>6
<1> QED
  BY <1>3, <1>4

\* What is written of a value that fits is accepted, and taken for the value.
LEMMA WrittenIsTaken ==
  ASSUME NEW type \in {"string", "int32", "int64", "time.Time", "[]string"},
         NEW x, Fits(type, x), type = "[]string" => x # {}
  PROVE  /\ accepts(type, written(type, x))
         /\ \A old : taken(type, old, written(type, x))
                       = IF type = "time.Time" THEN Second[x] ELSE x
<1>1. CASE type = "string"
  BY <1>1 DEF accepts, taken, written, Str
<1>2. CASE type = "int32"
  BY <1>2 DEF accepts, taken, written, Num, Fits
<1>3. CASE type = "int64"
  BY <1>3 DEF accepts, taken, written, Num, Fits
<1>4. CASE type = "time.Time"
  BY <1>4, SecondsAreWhole DEF accepts, taken, written, Str, Fits, MomentAssumption
<1>5. CASE type = "[]string"
  <2>1. PICK elements : x = {elements} /\ elements = [i \in DOMAIN elements |-> elements[i]]
    BY <1>5 DEF Fits
  <2> DEFINE values == [i \in DOMAIN elements |-> Str(elements[i])]
             v == written(type, x)
  <2>2. (CHOOSE e \in x : TRUE) = elements
    BY <2>1
  <2>3. v = Arr(values)
    BY <1>5, <2>2 DEF written
  <2>4. v.kind = "array" /\ v.v = values
    BY <2>3 DEF Arr
  <2>5. DOMAIN values = DOMAIN elements
        /\ \A i \in DOMAIN elements : values[i].kind = "string" /\ values[i].v = elements[i]
    BY DEF Str
  <2> HIDE DEF values, v
  <2>6. accepts(type, v)
    BY <1>5, <2>4, <2>5 DEF accepts
  <2>7. [i \in DOMAIN v.v |-> v.v[i].v] = elements
    BY <2>1, <2>4, <2>5
  <2>8. \A old : taken(type, old, v) = x
    BY <1>5, <2>1, <2>7 DEF taken
  <2> QED
    BY <1>5, <2>6, <2>8 DEF v
<1> QED
  BY <1>1, <1>2, <1>3, <1>4, <1>5

\* The fields Encode writes.
Present(T, s) == {k \in DOMAIN T.names : T.types[k] = "[]string" => s[T.names[k]] # {}}

\* Each of them has one member, with the value written for it.
LEMMA EncodedOnce ==
  ASSUME NEW T, Table(T), NEW s
  PROVE  LET doc == encodeFields(T, s) IN
         /\ \E n \in Nat : DOMAIN doc = 1 .. n
         /\ \A i \in DOMAIN doc : \E k \in Present(T, s) : i \in Given(T, doc, k)
         /\ \A k \in DOMAIN T.names \ Present(T, s) : Given(T, doc, k) = {}
         /\ \A k \in Present(T, s) :
              \E i \in DOMAIN doc : /\ Given(T, doc, k) = {i}
                                    /\ doc[i].value = written(T.types[k], s[T.names[k]])
<1> DEFINE doc == encodeFields(T, s)
           P == Present(T, s)
           f == inOrder(P)
           N == Cardinality(P)
<1>1. PICK nf \in Nat : DOMAIN T.names = 1 .. nf
  BY DEF Table
<1>2. P \in SUBSET (0 .. nf) /\ P \subseteq DOMAIN T.names
  BY <1>1 DEF Present
<1>3. Lists(f, P)
  BY <1>2, InOrder
<1>4. doc = [j \in DOMAIN f |->
               [key |-> T.names[f[j]], value |-> written(T.types[f[j]], s[T.names[f[j]]])]]
  BY DEF encodeFields, Present
<1> HIDE DEF doc, P, f, N
<1>5. /\ DOMAIN f = 1 .. N /\ N \in Nat
      /\ \A i \in 1 .. N : f[i] \in P
      /\ \A k \in P : \E i \in 1 .. N : f[i] = k
      /\ \A i, j \in 1 .. N : f[i] = f[j] => i = j
  BY <1>3 DEF Lists, N
<1>6. DOMAIN doc = 1 .. N
  BY <1>4, <1>5
<1>7. \A j \in 1 .. N : /\ doc[j].key = T.names[f[j]]
                        /\ doc[j].value = written(T.types[f[j]], s[T.names[f[j]]])
  BY <1>4, <1>5
<1>8. \A j \in 1 .. N, k \in DOMAIN T.names : doc[j].key = T.names[k] <=> f[j] = k
  <2>1. \A a, b \in DOMAIN T.names : T.names[a] = T.names[b] => a = b
    BY DEF Table
  <2>2. \A j \in 1 .. N : f[j] \in DOMAIN T.names
    BY <1>2, <1>5
  <2> QED
    BY <1>7, <2>1, <2>2
<1>9. \A k \in DOMAIN T.names : Given(T, doc, k) = {j \in 1 .. N : f[j] = k}
  BY <1>6, <1>8 DEF Given
<1>10. ASSUME NEW i \in DOMAIN doc PROVE \E k \in P : i \in Given(T, doc, k)
  <2>1. i \in 1 .. N /\ f[i] \in P /\ f[i] \in DOMAIN T.names
    BY <1>2, <1>5, <1>6
  <2>2. i \in Given(T, doc, f[i])
    BY ONLY <1>9, <2>1
  <2> QED
    BY ONLY <2>1, <2>2
<1>11. \A k \in DOMAIN T.names \ P : Given(T, doc, k) = {}
  BY <1>5, <1>9
<1>12. ASSUME NEW k \in P
       PROVE  \E i \in DOMAIN doc : /\ Given(T, doc, k) = {i}
                                    /\ doc[i].value = written(T.types[k], s[T.names[k]])
  <2>1. PICK i \in 1 .. N : f[i] = k
    BY <1>5
  <2>2. Given(T, doc, k) = {i}
    BY <1>2, <1>5, <1>9, <2>1
  <2> QED
    BY <1>6, <1>7, <2>1, <2>2
<1> QED
  BY <1>5, <1>6, <1>10, <1>11, <1>12 DEF doc, P

\* Decode understands what Encode wrote and takes it for what it was.
LEMMA EncodedIsDecoded ==
  ASSUME NEW T, Table(T), NEW s, \A k \in DOMAIN T.names : Fits(T.types[k], s[T.names[k]])
  PROVE  LET e == Decode(T, encodeFields(T, s)) IN
         /\ e.err = "nil"
         /\ \A k \in DOMAIN T.names : e.s[T.names[k]] = roundTrip(T, s, k)
<1> DEFINE doc == encodeFields(T, s)
           P == Present(T, s)
           e == Decode(T, doc)
<1>1. /\ \E n \in Nat : DOMAIN doc = 1 .. n
      /\ \A i \in DOMAIN doc : \E k \in P : i \in Given(T, doc, k)
      /\ \A k \in DOMAIN T.names \ P : Given(T, doc, k) = {}
      /\ \A k \in P : \E i \in DOMAIN doc :
           Given(T, doc, k) = {i} /\ doc[i].value = written(T.types[k], s[T.names[k]])
  BY EncodedOnce
<1>2. \A k \in DOMAIN T.names :
        /\ T.types[k] \in {"string", "int32", "int64", "time.Time", "[]string"}
        /\ k \in P <=> (T.types[k] = "[]string" => s[T.names[k]] # {})
  BY DEF Table, Present
<1>3. P \subseteq DOMAIN T.names
  BY DEF Present
<1> HIDE DEF doc, P
<1>4. meetsSchema(T, doc)
  BY <1>1, DecodeMeetsTheSchema
<1>5. ASSUME NEW k \in P
      PROVE  /\ accepts(T.types[k], written(T.types[k], s[T.names[k]]))
             /\ \A old : taken(T.types[k], old, written(T.types[k], s[T.names[k]])) = roundTrip(T, s, k)
  BY <1>2, <1>3, WrittenIsTaken DEF roundTrip
<1>6. Readable(T, doc)
  <2>1. ASSUME NEW i \in DOMAIN doc, NEW k \in DOMAIN T.names, i \in Given(T, doc, k)
        PROVE  accepts(T.types[k], doc[i].value)
    <3>1. k \in P
      BY <1>1, <2>1
    <3>2. doc[i].value = written(T.types[k], s[T.names[k]])
      BY <1>1, <2>1, <3>1
    <3> QED
      BY <1>5, <3>1, <3>2
  <2> QED
    BY <1>1, <1>3, <2>1 DEF Readable
<1>7. Missing(T, doc) = {}
  <2>1. ASSUME NEW k \in DOMAIN T.names, k - 1 \in T.mask PROVE Given(T, doc, k) # {}
    <3>1. k \in P
      BY <1>2, <2>1 DEF Table
    <3> QED
      BY <1>1, <3>1
  <2> QED
    BY <2>1 DEF Missing, Table
<1>8. e.err = "nil"
  BY <1>4, <1>6, <1>7 DEF meetsSchema
<1>9. ASSUME NEW k \in DOMAIN T.names PROVE e.s[T.names[k]] = roundTrip(T, s, k)
  <2>1. e.s[T.names[k]] = finalValue(T, doc, k)
    BY <1>4, <1>8 DEF meetsSchema
  <2>2. CASE k \in P
    <3>1. PICK i \in DOMAIN doc :
               Given(T, doc, k) = {i} /\ doc[i].value = written(T.types[k], s[T.names[k]])
      BY <1>1, <2>2
    <3>2. (CHOOSE l \in {i} : \A j \in {i} : j <= l) = i
      <4>1. i \in Int
        BY <1>1
      <4> QED
        BY <4>1
    <3>3. finalValue(T, doc, k) = taken(T.types[k], T.zero[T.names[k]], doc[i].value)
      BY <3>1, <3>2 DEF finalValue
    <3> QED
      BY <1>5, <2>1, <2>2, <3>1, <3>3
  <2>3. CASE k \notin P
    <3>1. finalValue(T, doc, k) = T.zero[T.names[k]]
      BY <1>1, <2>3 DEF finalValue
    <3>2. T.types[k] = "[]string" /\ s[T.names[k]] = {} /\ T.zero[T.names[k]] = {}
      BY <1>2, <2>3 DEF Table
    <3> QED
      BY <2>1, <3>1, <3>2 DEF roundTrip
  <2> QED
    BY <2>2, <2>3
<1> QED
  BY <1>8, <1>9 DEF doc

\* What was decoded, encoded and decoded again, is the same.
LEMMA EncodeIsFaithfulToDecode ==
  ASSUME NEW T, Table(T), NEW doc, NEW n \in Nat, DOMAIN doc = 1 .. n
  PROVE  isFaithful(T, doc)
<1> DEFINE d == Decode(T, doc)
<1> SUFFICES ASSUME d.err = "nil"
             PROVE  LET e == Decode(T, encodeFields(T, d.s)) IN
                    /\ e.err = "nil"
                    /\ \A k \in DOMAIN T.names : e.s[T.names[k]] = roundTrip(T, d.s, k)
  BY DEF isFaithful
<1>1. meetsSchema(T, doc)
  BY DecodeMeetsTheSchema
<1>2. /\ Readable(T, doc) /\ Missing(T, doc) = {}
      /\ \A k \in DOMAIN T.names : d.s[T.names[k]] = finalValue(T, doc, k)
  BY <1>1 DEF meetsSchema
<1> HIDE DEF d
<1>3. \A k \in DOMAIN T.names : Fits(T.types[k], d.s[T.names[k]])
  BY <1>2, DecodedFits
<1> QED
  BY <1>3, EncodedIsDecoded

\* The two tables are of the kind ogen generates.
LEMMA Tables == Table(ErrorType) /\ Table(UploadResponseType)
<1>1. Table(ErrorType)
  <2> DEFINE T == ErrorType
  <2>1. /\ DOMAIN T.names = 1 .. 3 /\ T.mask = {0, 1}
        /\ T.required = {"code", "message"}
        /\ T.names[1] = "code" /\ T.names[2] = "message" /\ T.names[3] = "details"
        /\ T.types[1] = "int32" /\ T.types[2] = "string" /\ T.types[3] = "[]string"
    BY DEF ErrorType
  <2>2. DOMAIN T.zero = {"code", "message", "details"} /\ T.zero["details"] = {}
        /\ T.zero = [f \in DOMAIN T.zero |-> T.zero[f]]
    BY DEF ErrorType
  <2> HIDE DEF T
  <2>3. {T.names[i] : i \in DOMAIN T.names} = {"code", "message", "details"}
    BY <2>1
  <2>4. T.zero \in [{T.names[i] : i \in DOMAIN T.names}
                      -> {T.zero[T.names[i]] : i \in DOMAIN T.names}]
    BY <2>2, <2>3
  <2>5. \A i, j \in DOMAIN T.names : T.names[i] = T.names[j] => i = j
    BY <2>1
  <2>6. /\ T.required \subseteq {T.names[i] : i \in DOMAIN T.names}
        /\ \A i \in DOMAIN T.names : T.names[i] \in T.required <=> i - 1 \in T.mask
    BY <2>1, <2>3
  <2> QED
    BY <2>1, <2>2, <2>4, <2>5, <2>6 DEF Table, T
<1>2. Table(UploadResponseType)
  <2> DEFINE T == UploadResponseType
  <2>1. /\ DOMAIN T.names = 1 .. 5 /\ T.mask = {0, 1, 2, 3, 4}
        /\ T.required = {"filename", "fileSize", "bucket", "gcspath", "uploadTime"}
        /\ T.names[1] = "filename" /\ T.names[2] = "fileSize" /\ T.names[3] = "bucket"
        /\ T.names[4] = "gcspath" /\ T.names[5] = "uploadTime"
        /\ T.types[1] = "string" /\ T.types[2] = "int64" /\ T.types[3] = "string"
        /\ T.types[4] = "string" /\ T.types[5] = "time.Time"
    BY DEF UploadResponseType
  <2>2. DOMAIN T.zero = {"filename", "fileSize", "bucket", "gcspath", "uploadTime"}
        /\ T.zero = [f \in DOMAIN T.zero |-> T.zero[f]]
    BY DEF UploadResponseType
  <2> HIDE DEF T
  <2>3. {T.names[i] : i \in DOMAIN T.names}
          = {"filename", "fileSize", "bucket", "gcspath", "uploadTime"}
    BY <2>1
  <2>4. T.zero \in [{T.names[i] : i \in DOMAIN T.names}
                      -> {T.zero[T.names[i]] : i \in DOMAIN T.names}]
    BY <2>2, <2>3
  <2>5. \A i, j \in DOMAIN T.names : T.names[i] = T.names[j] => i = j
    BY <2>1
  <2>6. /\ T.required \subseteq {T.names[i] : i \in DOMAIN T.names}
        /\ \A i \in DOMAIN T.names : T.names[i] \in T.required <=> i - 1 \in T.mask
    BY <2>1, <2>3
  <2> QED
    BY <2>1, <2>2, <2>4, <2>5, <2>6 DEF Table, T
<1> QED
  BY <1>1, <1>2

=============================================================================
