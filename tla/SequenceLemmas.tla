---------------------------- MODULE SequenceLemmas ----------------------------
(* What Head, Tail, Append and concatenation do to the elements of a         *)
(* sequence, in the form in which the proofs of this project use it.         *)
EXTENDS Integers, Sequences, SequenceTheorems, WellFoundedInduction, TLAPS

(* A sequence that is not empty. *)
LEMMA NonEmpty ==
    ASSUME NEW S, NEW s \in Seq(S), s # << >>
    PROVE  /\ Len(s) \in Nat /\ Len(s) > 0 /\ DOMAIN s = 1..Len(s)
           /\ Head(s) = s[1] /\ s[1] \in S /\ s[Len(s)] \in S
           /\ Tail(s) \in Seq(S) /\ Len(Tail(s)) = Len(s) - 1
           /\ \A i \in 1..(Len(s) - 1) : Tail(s)[i] = s[i + 1]
  OBVIOUS

(* An empty one. *)
LEMMA EmptyLen ==
    ASSUME NEW S, NEW s \in Seq(S)
    PROVE  s = << >> <=> Len(s) = 0
  OBVIOUS

(* One more element. *)
LEMMA Appended ==
    ASSUME NEW S, NEW s \in Seq(S), NEW e \in S
    PROVE  /\ Append(s, e) \in Seq(S) /\ Len(s) \in Nat /\ Len(Append(s, e)) = Len(s) + 1
           /\ DOMAIN s = 1..Len(s) /\ DOMAIN Append(s, e) = 1..(Len(s) + 1)
           /\ Append(s, e)[Len(s) + 1] = e
           /\ \A i \in 1..Len(s) : Append(s, e)[i] = s[i]
  OBVIOUS

(* One sequence behind another. *)
LEMMA Concatenated ==
    ASSUME NEW S, NEW s \in Seq(S), NEW t \in Seq(S)
    PROVE  /\ s \o t \in Seq(S) /\ Len(s) \in Nat /\ Len(t) \in Nat
           /\ Len(s \o t) = Len(s) + Len(t) /\ DOMAIN (s \o t) = 1..(Len(s) + Len(t))
           /\ \A i \in 1..Len(s) : (s \o t)[i] = s[i]
           /\ \A i \in 1..Len(t) : (s \o t)[Len(s) + i] = t[i]
  OBVIOUS

(* Nothing behind a sequence. *)
LEMMA EmptyRight ==
    ASSUME NEW S, NEW s \in Seq(S)
    PROVE  s \o << >> = s
  BY ConcatEmptySeq

(* Appending to the second of two sequences is appending to both. *)
LEMMA AppendRight ==
    ASSUME NEW S, NEW s \in Seq(S), NEW t \in Seq(S), NEW e \in S
    PROVE  /\ s \o Append(t, e) = Append(s \o t, e)
           /\ s \o t \o << e >> = Append(s \o t, e)
           /\ s \o (t \o << e >>) = Append(s \o t, e)
<1>1. s \o t \in Seq(S) /\ << e >> \in Seq(S)
  OBVIOUS
<1>2. Append(t, e) = t \o << e >> /\ Append(s \o t, e) = (s \o t) \o << e >>
  BY <1>1, AppendIsConcat
<1>3. (s \o t) \o << e >> = s \o (t \o << e >>)
  BY <1>1, ConcatAssociative
<1> QED BY <1>2, <1>3

(* The head of the second of two sequences moves to the end of the first. *)
LEMMA HeadMoves ==
    ASSUME NEW S, NEW s \in Seq(S), NEW t \in Seq(S), t # << >>
    PROVE  Append(s, Head(t)) \o Tail(t) = s \o t
<1> DEFINE h == Head(t)
           u == Tail(t)
<1>1. /\ h \in S /\ u \in Seq(S) /\ Len(t) \in Nat /\ Len(t) > 0 /\ h = t[1] /\ Len(u) = Len(t) - 1
      /\ \A i \in 1..(Len(t) - 1) : u[i] = t[i + 1]
  BY NonEmpty
<1> HIDE DEF h, u
<1>2. << h >> \in Seq(S) /\ Len(<< h >>) = 1 /\ << h >>[1] = h
  BY <1>1
<1>3. << h >> \o u = t
  <2>1. /\ << h >> \o u \in Seq(S) /\ Len(<< h >> \o u) = 1 + Len(u)
        /\ (<< h >> \o u)[1] = h /\ \A i \in 1..Len(u) : (<< h >> \o u)[1 + i] = u[i]
    BY <1>1, <1>2, Concatenated
  <2>2. PICK v \in Seq(S) : v = << h >> \o u
    BY <2>1
  <2>3. Len(v) = Len(t)
    BY <1>1, <2>1, <2>2
  <2>4. ASSUME NEW i \in 1..Len(v) PROVE v[i] = t[i]
    <3>1. CASE i = 1
      BY <1>1, <2>1, <2>2, <3>1
    <3>2. CASE i # 1
      <4>1. i - 1 \in 1..(Len(t) - 1) /\ i = 1 + (i - 1) /\ i = (i - 1) + 1
        BY <1>1, <2>3, <3>2
      <4>2. v[i] = u[i - 1]
        BY <1>1, <2>1, <2>2, <4>1
      <4> QED BY <1>1, <4>1, <4>2
    <3> QED BY <3>1, <3>2
  <2>5. v = t
    BY <2>3, <2>4, SeqEqual
  <2> QED BY <2>2, <2>5
<1>4. Append(s, h) = s \o << h >>
  BY <1>1, AppendIsConcat
<1>5. (s \o << h >>) \o u = s \o (<< h >> \o u)
  BY <1>1, <1>2, ConcatAssociative
<1> QED BY <1>3, <1>4, <1>5 DEF h, u

-----------------------------------------------------------------------------
(* A nonempty set of numbers has a least element: induction over numbers,    *)
(* in a form that needs no operator as a parameter.                          *)
LEMMA Least ==
    ASSUME NEW T \in SUBSET Nat, T # {}
    PROVE  \E x \in T : \A y \in T : x <= y
<1>1. \E x \in T : \A y \in T : ~(<<y, x>> \in OpToRel(<, Nat))
  BY NatLessThanWellFounded, WFMin
<1>2. PICK x \in T : \A y \in T : ~(<<y, x>> \in OpToRel(<, Nat))
  BY <1>1
<1>3. ASSUME NEW y \in T PROVE x <= y
  <2>1. ~(y < x)
    BY <1>2 DEF OpToRel
  <2> QED
    BY <2>1
<1> QED BY <1>3

(* Sequences joined from the last one backwards: what is joined from k on    *)
(* is s[k] and what is joined from k + 1 on.                                 *)
LEMMA JoinExists ==
    ASSUME NEW S, NEW s \in Seq(Seq(S))
    PROVE  \E f : /\ f \in [1..(Len(s) + 1) -> Seq(S)]
                 /\ f[Len(s) + 1] = << >>
                 /\ \A k \in 1..Len(s) : f[k] = s[k] \o f[k + 1]
<1>N. PICK N \in Nat : N = Len(s) /\ \A k \in 1..N : s[k] \in Seq(S)
  <2>1. Len(s) \in Nat /\ \A k \in 1..Len(s) : s[k] \in Seq(S)
    BY ElementOfSeq
  <2> QED
    BY <2>1
<1> DEFINE From(a, f) == /\ f \in [a..(N + 1) -> Seq(S)] /\ f[N + 1] = << >>
                         /\ \A k \in a..N : f[k] = s[k] \o f[k + 1]
           Exists(a) == \E f : From(a, f)
           Bad == {m \in Nat : m <= N /\ ~Exists(N + 1 - m)}
<1>0. << >> \in Seq(S)
  OBVIOUS
<1>1. Exists(N + 1)
  <2> DEFINE g == [k \in (N + 1)..(N + 1) |-> << >>]
  <2>1. g \in [(N + 1)..(N + 1) -> Seq(S)]
    BY <1>0
  <2>2. N + 1 \in (N + 1)..(N + 1) /\ (N + 1)..N = {}
    OBVIOUS
  <2>3. From(N + 1, g)
    BY <2>1, <2>2
  <2> QED
    BY <2>3
<1>2. ASSUME NEW a \in 1..N, Exists(a + 1) PROVE Exists(a)
  <2>1. PICK f : From(a + 1, f)
    BY <1>2
  <2>2. s[a] \in Seq(S) /\ f[a + 1] \in Seq(S)
    <3>1. f \in [(a + 1)..(N + 1) -> Seq(S)]
      BY <2>1
    <3>2. a + 1 \in (a + 1)..(N + 1)
      OBVIOUS
    <3> QED
      BY <1>N, <3>1, <3>2
  <2>3. PICK e \in Seq(S) : e = s[a] \o f[a + 1]
    BY <2>2, Concatenated
  <2> DEFINE g == [k \in a..(N + 1) |-> IF k = a THEN e ELSE f[k]]
  <2>4. g \in [a..(N + 1) -> Seq(S)]
    <3>1. \A k \in a..(N + 1) : k # a => k \in (a + 1)..(N + 1)
      OBVIOUS
    <3> QED
      BY <2>1, <2>3, <3>1
  <2>5. g[N + 1] = << >>
    BY <2>1
  <2>6. ASSUME NEW k \in a..N PROVE g[k] = s[k] \o g[k + 1]
    <3>1. k + 1 \in a..(N + 1) /\ k + 1 # a /\ k \in a..(N + 1)
      OBVIOUS
    <3>2. g[k + 1] = f[k + 1]
      BY <3>1
    <3>3. CASE k = a
      BY <2>3, <3>1, <3>2, <3>3
    <3>4. CASE k # a
      <4>1. k \in (a + 1)..N
        BY <3>4
      <4>2. f[k] = s[k] \o f[k + 1]
        BY <2>1, <4>1
      <4> QED
        BY <3>1, <3>2, <3>4, <4>2
    <3> QED
      BY <3>3, <3>4
  <2>7. From(a, g)
    BY <2>4, <2>5, <2>6
  <2> QED
    BY <2>7
<1> HIDE DEF Exists
<1>3. Bad = {}
  <2> SUFFICES ASSUME Bad # {} PROVE FALSE
    OBVIOUS
  <2>1. PICK m \in Bad : \A y \in Bad : m <= y
    <3>1. Bad \in SUBSET Nat
      OBVIOUS
    <3> HIDE DEF Bad
    <3> QED
      BY <3>1, Least
  <2>2. m \in Nat /\ m <= N /\ ~Exists(N + 1 - m)
    BY <2>1
  <2>3. m # 0
    <3>1. N + 1 - 0 = N + 1
      OBVIOUS
    <3> QED
      BY <1>1, <2>2, <3>1
  <2>4. m - 1 \in Nat /\ m - 1 <= N /\ ~(m <= m - 1)
    BY <2>2, <2>3
  <2>5. Exists(N + 1 - (m - 1))
    BY <2>1, <2>4
  <2>6. N + 1 - m \in 1..N /\ N + 1 - (m - 1) = (N + 1 - m) + 1
    BY <2>2, <2>3
  <2> QED
    BY <1>2, <2>2, <2>5, <2>6
<1>4. Exists(1)
  <2>1. N + 1 - N = 1 /\ N <= N
    OBVIOUS
  <2>2. Exists(N + 1 - N)
    BY <1>3, <2>1
  <2> QED
    BY <2>1, <2>2
<1> QED BY <1>N, <1>4 DEF Exists

LEMMA JoinTyped ==
    ASSUME NEW S, NEW s \in Seq(Seq(S)), NEW f,
           f[Len(s) + 1] = << >>, \A k \in 1..Len(s) : f[k] = s[k] \o f[k + 1]
    PROVE  \A k \in 1..(Len(s) + 1) : f[k] \in Seq(S)
<1>N. PICK N \in Nat : N = Len(s) /\ \A k \in 1..N : s[k] \in Seq(S)
  <2>1. Len(s) \in Nat /\ \A k \in 1..Len(s) : s[k] \in Seq(S)
    BY ElementOfSeq
  <2> QED
    BY <2>1
<1> DEFINE Bad == {m \in Nat : m <= N /\ f[N + 1 - m] \notin Seq(S)}
<1>1. Bad = {}
  <2> SUFFICES ASSUME Bad # {} PROVE FALSE
    OBVIOUS
  <2>1. PICK m \in Bad : \A y \in Bad : m <= y
    <3>1. Bad \in SUBSET Nat
      OBVIOUS
    <3> HIDE DEF Bad
    <3> QED
      BY <3>1, Least
  <2>2. m \in Nat /\ m <= N /\ f[N + 1 - m] \notin Seq(S)
    BY <2>1
  <2>3. m # 0
    <3>1. N + 1 - 0 = N + 1 /\ << >> \in Seq(S)
      OBVIOUS
    <3> QED
      BY <1>N, <2>2, <3>1
  <2>4. m - 1 \in Nat /\ m - 1 <= N /\ ~(m <= m - 1)
    BY <2>2, <2>3
  <2>5. f[N + 1 - (m - 1)] \in Seq(S)
    BY <2>1, <2>4
  <2>6. PICK a \in 1..N : a = N + 1 - m /\ N + 1 - (m - 1) = a + 1
    BY <2>2, <2>3
  <2>7. f[a] = s[a] \o f[a + 1] /\ s[a] \in Seq(S) /\ f[a + 1] \in Seq(S)
    BY <1>N, <2>5, <2>6
  <2> QED
    BY <2>2, <2>6, <2>7
<1>2. ASSUME NEW k \in 1..(N + 1) PROVE f[k] \in Seq(S)
  <2>1. PICK m \in Nat : m <= N /\ N + 1 - m = k
    <3>1. N + 1 - k \in Nat /\ N + 1 - k <= N /\ N + 1 - (N + 1 - k) = k
      OBVIOUS
    <3> QED
      BY <3>1
  <2> QED
    BY <1>1, <2>1
<1> QED BY <1>N, <1>2
=============================================================================
