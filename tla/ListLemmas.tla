----------------------------- MODULE ListLemmas -----------------------------
(***************************************************************************)
(* What push_back, pop_front and retain leave in the lists of the kernel,  *)
(* with and without repetitions, and the little counting that the proofs   *)
(* need.                                                                   *)
(***************************************************************************)
EXTENDS Lists, TLAPS

\* An empty list has no elements.
LEMMA EmptyHasNot == \A x : ~Has(<<>>, x)
BY DEF Has

\* push_back adds the element and loses nobody.
LEMMA AppendHas ==
  ASSUME NEW S, NEW s \in Seq(S), NEW e \in S
  PROVE  /\ Append(s, e) \in Seq(S)
         /\ \A x : Has(Append(s, e), x) <=> Has(s, x) \/ x = e
<1>1. /\ Append(s, e) \in Seq(S)
      /\ Len(Append(s, e)) = Len(s) + 1
      /\ Len(s) \in Nat
      /\ \A i \in 1 .. Len(s) : Append(s, e)[i] = s[i]
      /\ Append(s, e)[Len(s) + 1] = e
  OBVIOUS
<1>. QED
  BY <1>1 DEF Has

\* push_back of an element that is not there repeats nothing.
LEMMA AppendDistinct ==
  ASSUME NEW S, NEW s \in Seq(S), NEW e \in S, Distinct(s), ~Has(s, e)
  PROVE  Append(s, e) \in Seq(S) /\ Distinct(Append(s, e))
<1>1. /\ Append(s, e) \in Seq(S)
      /\ Len(Append(s, e)) = Len(s) + 1
      /\ Len(s) \in Nat
      /\ \A i \in 1 .. Len(s) : Append(s, e)[i] = s[i]
      /\ Append(s, e)[Len(s) + 1] = e
  OBVIOUS
<1>. QED
  BY <1>1 DEF Has, Distinct

\* pop_front loses nobody but the element it returns.
LEMMA TailKeeps ==
  ASSUME NEW S, NEW s \in Seq(S), s # <<>>
  PROVE  /\ Head(s) \in S
         /\ Tail(s) \in Seq(S)
         /\ Has(s, Head(s))
         /\ \A x : Has(s, x) => x = Head(s) \/ Has(Tail(s), x)
         /\ \A x : Has(Tail(s), x) => Has(s, x)
<1>1. /\ Head(s) = s[1] /\ Head(s) \in S /\ Tail(s) \in Seq(S)
      /\ Len(s) \in Nat \ {0} /\ Len(Tail(s)) = Len(s) - 1
      /\ \A i \in 1 .. Len(s) - 1 : Tail(s)[i] = s[i + 1]
  OBVIOUS
<1>2. ASSUME NEW x, Has(s, x), x # Head(s) PROVE Has(Tail(s), x)
  <2>1. PICK i \in 1 .. Len(s) : s[i] = x
    BY <1>2 DEF Has
  <2>2. i - 1 \in 1 .. Len(Tail(s)) /\ Tail(s)[i - 1] = x
    BY <1>1, <1>2, <2>1
  <2>. QED
    BY <2>2 DEF Has
<1>3. ASSUME NEW x, Has(Tail(s), x) PROVE Has(s, x)
  BY <1>1, <1>3 DEF Has
<1>. QED
  BY <1>1, <1>2, <1>3 DEF Has

\* pop_front of a list without repetitions.
LEMMA TailDistinct ==
  ASSUME NEW S, NEW s \in Seq(S), s # <<>>, Distinct(s)
  PROVE  /\ Distinct(Tail(s))
         /\ \A x : Has(Tail(s), x) <=> Has(s, x) /\ x # Head(s)
<1>1. /\ Head(s) = s[1] /\ Len(s) \in Nat \ {0} /\ Len(Tail(s)) = Len(s) - 1
      /\ \A i \in 1 .. Len(s) - 1 : Tail(s)[i] = s[i + 1]
  OBVIOUS
<1>2. Distinct(Tail(s))
  <2>. SUFFICES ASSUME NEW i \in 1 .. Len(s) - 1, NEW j \in 1 .. Len(s) - 1,
                       s[i + 1] = s[j + 1]
                PROVE  i = j
    BY <1>1 DEF Distinct
  <2>1. i + 1 \in 1 .. Len(s) /\ j + 1 \in 1 .. Len(s)
    BY <1>1
  <2>2. i + 1 = j + 1
    BY <2>1 DEF Distinct
  <2>. QED
    BY <1>1, <2>2
<1>3. ASSUME NEW x, Has(Tail(s), x) PROVE x # Head(s)
  <2>1. PICK i \in 1 .. Len(s) - 1 : s[i + 1] = x
    BY <1>1, <1>3 DEF Has
  <2>2. i + 1 \in 1 .. Len(s) /\ 1 \in 1 .. Len(s) /\ i + 1 # 1
    BY <1>1, <2>1
  <2>. QED
    BY <1>1, <2>1, <2>2 DEF Distinct
<1>. QED
  BY <1>2, <1>3, TailKeeps

\* retain keeps what it is told to and loses the rest.
LEMMA RetainedHas ==
  ASSUME NEW T, NEW s \in Seq(T), NEW S, NEW r \in Retained(s, S)
  PROVE  /\ r \in Seq(T) /\ Len(r) <= Len(s)
         /\ \A x : Has(r, x) <=> Has(s, x) /\ x \in S
<1>1. PICK f \in Ascending(Kept(s, S), Len(s)) : r = [i \in DOMAIN f |-> s[f[i]]]
  BY DEF Retained
<1>2. PICK m \in 0 .. Len(s) : /\ f \in [1 .. m -> Kept(s, S)]
                               /\ \A k \in Kept(s, S) : \E i \in 1 .. m : f[i] = k
  BY DEF Ascending
<1>3. Len(s) \in Nat /\ \A i \in 1 .. Len(s) : s[i] \in T
  OBVIOUS
<1>4. r = [i \in 1 .. m |-> s[f[i]]] /\ \A i \in 1 .. m : f[i] \in 1 .. Len(s) /\ s[f[i]] \in S
  BY <1>1, <1>2 DEF Kept
<1>5. r \in [1 .. m -> T] /\ m \in Nat
  BY <1>2, <1>3, <1>4
<1>6. r \in Seq(T) /\ Len(r) = m
  BY <1>5
<1>7. ASSUME NEW x, Has(s, x), x \in S PROVE Has(r, x)
  <2>1. PICK k \in Kept(s, S) : s[k] = x
    BY <1>7 DEF Has, Kept
  <2>2. PICK i \in 1 .. m : f[i] = k
    BY <1>2
  <2>. QED
    BY <1>4, <1>6, <2>1, <2>2 DEF Has
<1>8. ASSUME NEW x, Has(r, x) PROVE Has(s, x) /\ x \in S
  BY <1>4, <1>6, <1>8 DEF Has
<1>. QED
  BY <1>2, <1>3, <1>6, <1>7, <1>8
=============================================================================
