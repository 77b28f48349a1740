------------------------ MODULE QueryLanguageProofs -------------------------
(* Proofs about QueryLanguage and LeafQueries, for every vocabulary and all texts and
   queries, of any length and depth.  In this order:

     what a parser returns is what stands in the text     ...Sound, AllRead
     the walk reaches every clause                        WalkedClauses
     the builder keeps the clauses and the meaning        LeavesBuilt, MatchesMeant
     what was meant is what a parser returns              ...Complete, AllMeant
     the stages, one after the other                      Inv and the theorems

   Each is an induction.  Over the places of a text, from its end, for the parsers;
   over the height of an expression (Shallowest) for the others: a set of
   expressions that fail has one of least height, whose groups do not.         *)
EXTENDS QueryLanguage, FiniteSetTheorems, SequenceTheorems, WellFoundedInduction, TLAPS

(* Induction, and flat sequences. *)

(* The order of the numbers is well founded. *)
LEMMA NatWellFounded == IsWellFoundedOn({p \in Nat \X Nat : p[1] < p[2]}, Nat)
BY NatLessThanWellFounded, Zenon DEF OpToRel

(* A set of numbers has a least one. *)
LEMMA Least ==
  ASSUME NEW S \in SUBSET Nat, S # {}
  PROVE  \E m \in S : \A n \in S : m <= n
<1> DEFINE R == {p \in Nat \X Nat : p[1] < p[2]}
<1>1. IsWellFoundedOn(R, Nat)
  BY NatWellFounded
<1> HIDE DEF R
<1>2. PICK m \in S : \A n \in S : <<n, m>> \notin R
  BY <1>1, WFMin
<1>3. \A n \in S : ~(n < m)
  BY <1>2 DEF R
<1> QED BY <1>3
-----------------------------------------------------------------------------
(* FlattenSeq. *)

(* f[i] is what the first i sequences of ss make in a row. *)
Sums(f, ss) ==
  /\ DOMAIN f = 1 .. Len(ss)
  /\ \A i \in 1 .. Len(ss) : f[i] = IF i = 1 THEN ss[i] ELSE f[i - 1] \o ss[i]

(* There is such an f. *)
LEMMA SumsExist ==
  ASSUME NEW S, NEW ss \in Seq(Seq(S))
  PROVE  \E f \in [1 .. Len(ss) -> Seq(S)] : Sums(f, ss)
<1> DEFINE L == Len(ss)
           Good(f, n) == \A i \in 1 .. n : f[i] = IF i = 1 THEN ss[i] ELSE f[i - 1] \o ss[i]
           Has(n) == \E f \in [1 .. n -> Seq(S)] : Good(f, n)
           Bad == {n \in 0 .. L : ~Has(n)}
<1>1. /\ L \in Nat
      /\ \A i \in 1 .. L : ss[i] \in Seq(S)
  BY LenProperties, ElementOfSeq
<1>2. Bad = {}
  <2>1. SUFFICES ASSUME Bad # {} PROVE FALSE
    OBVIOUS
  <2>2. PICK m \in Bad : \A n \in Bad : m <= n
    <3>1. Bad \in SUBSET Nat
      BY <1>1
    <3> QED BY <2>1, <3>1, Least
  <2>3. m # 0
    <3>1. [i \in 1 .. 0 |-> <<>>] \in [1 .. 0 -> Seq(S)]
      OBVIOUS
    <3>2. Good([i \in 1 .. 0 |-> <<>>], 0)
      OBVIOUS
    <3> HIDE DEF Good
    <3>3. Has(0)
      BY <3>1, <3>2
    <3> QED BY <3>3
  <2>4. m - 1 \in 0 .. L /\ m - 1 \notin Bad /\ m \in 1 .. L
    <3> HIDE DEF Has
    <3>1. m \in 0 .. L
      OBVIOUS
    <3>2. m - 1 \in 0 .. L /\ m \in 1 .. L
      BY <3>1, <2>3, <1>1
    <3>3. m - 1 \notin Bad
      BY <2>2, <3>2, <1>1
    <3> QED BY <3>2, <3>3
  <2>5. PICK f \in [1 .. m - 1 -> Seq(S)] : Good(f, m - 1)
    <3> HIDE DEF Good
    <3> QED BY <2>4
  <2> DEFINE g == [i \in 1 .. m |-> IF i < m THEN f[i] ELSE IF m = 1 THEN ss[1] ELSE f[m - 1] \o ss[m]]
  <2>6. g \in [1 .. m -> Seq(S)]
    <3>1. ASSUME NEW i \in 1 .. m, i < m PROVE f[i] \in Seq(S)
      BY <2>4, <3>1, <1>1
    <3>2. ASSUME m # 1 PROVE f[m - 1] \o ss[m] \in Seq(S)
      <4>1. f[m - 1] \in Seq(S) /\ ss[m] \in Seq(S)
        BY <2>4, <1>1, <3>2
      <4> QED BY <4>1, ConcatProperties
    <3>3. ss[1] \in Seq(S)
      BY <2>4, <1>1
    <3>4. ASSUME NEW i \in 1 .. m PROVE g[i] \in Seq(S)
      <4>1. CASE i < m
        BY <3>1, <4>1
      <4>2. CASE i = m
        BY <3>2, <3>3, <4>2
      <4> QED BY <4>1, <4>2, <2>4
    <3>5. g = [i \in 1 .. m |-> g[i]]
      OBVIOUS
    <3> HIDE DEF g
    <3> QED BY <3>4, <3>5
  <2>7. Good(g, m)
    <3>1. SUFFICES ASSUME NEW i \in 1 .. m
                   PROVE  g[i] = IF i = 1 THEN ss[i] ELSE g[i - 1] \o ss[i]
      OBVIOUS
    <3>2. CASE i = m
      BY <2>4, <3>2
    <3>3. CASE i < m
      <4>1. i \in 1 .. m - 1 /\ (i # 1 => i - 1 \in 1 .. m /\ i - 1 < m)
        BY <2>4, <3>3
      <4>2. f[i] = IF i = 1 THEN ss[i] ELSE f[i - 1] \o ss[i]
        BY <2>5, <4>1
      <4> QED BY <3>3, <4>1, <4>2
    <3> QED BY <2>4, <3>2, <3>3
  <2> HIDE DEF g, Good
  <2>8. Has(m)
    BY <2>6, <2>7
  <2>9. ~Has(m)
    <3> HIDE DEF Has
    <3> QED OBVIOUS
  <2> HIDE DEF Has
  <2> QED BY <2>8, <2>9
<1>3. Has(L)
  <2> HIDE DEF Has
  <2> QED BY <1>2, <1>1
<1> QED BY <1>3 DEF Sums

(* Sequences that begin alike have sums that begin alike. *)
LEMMA SumsAgree ==
  ASSUME NEW ss, NEW tt, NEW f, NEW g, NEW n \in Nat, Sums(f, ss), Sums(g, tt),
         Len(ss) \in Nat, Len(tt) \in Nat, n <= Len(ss), n <= Len(tt),
         \A i \in 1 .. n : ss[i] = tt[i]
  PROVE  \A i \in 1 .. n : f[i] = g[i]
<1> DEFINE Off == {i \in 1 .. n : f[i] # g[i]}
<1>1. SUFFICES ASSUME Off # {} PROVE FALSE
  OBVIOUS
<1>2. PICK m \in Off : \A i \in Off : m <= i
  <2>1. Off \in SUBSET Nat
    OBVIOUS
  <2> QED BY <2>1, <1>1, Least
<1>3. m \in 1 .. n /\ f[m] # g[m]
  OBVIOUS
<1>4. m \in 1 .. Len(ss) /\ m \in 1 .. Len(tt) /\ ss[m] = tt[m]
  BY <1>3
<1>5. /\ f[m] = IF m = 1 THEN ss[m] ELSE f[m - 1] \o ss[m]
      /\ g[m] = IF m = 1 THEN tt[m] ELSE g[m - 1] \o tt[m]
  BY <1>4 DEF Sums
<1>6. m # 1 => f[m - 1] = g[m - 1]
  BY <1>2, <1>3
<1> QED BY <1>3, <1>4, <1>5, <1>6

(* FlattenSeq is the last of the sums. *)
LEMMA FlattenSums ==
  ASSUME NEW S, NEW ss \in Seq(Seq(S)), ss # <<>>
  PROVE  \E f \in [1 .. Len(ss) -> Seq(S)] : Sums(f, ss) /\ FlattenSeq(ss) = f[Len(ss)]
<1> DEFINE L == Len(ss)
           D(f) == f = [i \in 1 .. L |-> IF i = 1 THEN ss[i] ELSE f[i - 1] \o ss[i]]
           F == CHOOSE f : D(f)
<1>0. L \in Nat \ {0}
  BY EmptySeq
<1>1. PICK f \in [1 .. L -> Seq(S)] : Sums(f, ss)
  BY SumsExist
<1>2. D(f)
  BY <1>1 DEF Sums
<1>3. D(F)
  BY <1>2
<1>4. Sums(F, ss)
  BY <1>3 DEF Sums
<1>5. FlattenSeq(ss) = F[L]
  BY <1>0, Zenon DEF FlattenSeq
<1> HIDE DEF F
<1>6. F[L] = f[L]
  <2>1. Sums(F, ss) /\ Sums(f, ss) /\ Len(ss) \in Nat /\ Len(ss) \in 1 .. Len(ss)
    BY <1>0, <1>1, <1>4
  <2>2. \A i \in 1 .. Len(ss) : F[i] = f[i]
    BY <2>1, SumsAgree
  <2> QED BY <2>1, <2>2
<1> QED BY <1>1, <1>5, <1>6

(* Flattening nothing gives nothing. *)
LEMMA FlattenEmpty == FlattenSeq(<<>>) = <<>>
BY DEF FlattenSeq

(* What is appended stands at the end of the flat sequence. *)
LEMMA FlattenAppend ==
  ASSUME NEW S, NEW ss \in Seq(Seq(S)), NEW s \in Seq(S)
  PROVE  /\ FlattenSeq(ss) \in Seq(S)
         /\ FlattenSeq(Append(ss, s)) = FlattenSeq(ss) \o s
<1> DEFINE L == Len(ss)
           tt == Append(ss, s)
<1>1. /\ tt \in Seq(Seq(S)) /\ Len(tt) = L + 1 /\ L \in Nat /\ tt # <<>>
      /\ \A i \in 1 .. L : tt[i] = ss[i]
      /\ tt[L + 1] = s
  BY AppendProperties, LenProperties
<1> HIDE DEF tt
<1>2. PICK g \in [1 .. Len(tt) -> Seq(S)] : Sums(g, tt) /\ FlattenSeq(tt) = g[Len(tt)]
  BY <1>1, FlattenSums
<1>3. CASE ss = <<>>
  <2>1. L = 0 /\ FlattenSeq(ss) = <<>>
    BY <1>3, FlattenEmpty
  <2>2. g[Len(tt)] = s
    BY <1>1, <1>2, <2>1 DEF Sums
  <2>3. <<>> \in Seq(S) /\ <<>> \o s = s
    BY EmptySeq, ConcatEmptySeq
  <2> QED BY <1>2, <2>1, <2>2, <2>3 DEF tt
<1>4. CASE ss # <<>>
  <2>1. PICK f \in [1 .. L -> Seq(S)] : Sums(f, ss) /\ FlattenSeq(ss) = f[L]
    BY <1>4, FlattenSums
  <2>2. L \in 1 .. L
    BY <1>4, EmptySeq
  <2>3. \A i \in 1 .. L : f[i] = g[i]
    <3>1. L <= Len(tt) /\ Len(tt) \in Nat /\ \A i \in 1 .. L : ss[i] = tt[i]
      BY <1>1
    <3>2. Sums(f, ss) /\ Sums(g, tt) /\ L \in Nat /\ L <= Len(ss)
      BY <1>1, <1>2, <2>1
    <3> QED BY <3>1, <3>2, SumsAgree
  <2>4. g[L + 1] = g[L] \o s
    <3>1. L + 1 \in 1 .. Len(tt) /\ L + 1 # 1 /\ (L + 1) - 1 = L
      BY <1>1, <2>2
    <3> QED BY <1>1, <1>2, <3>1 DEF Sums
  <2>5. FlattenSeq(ss) \in Seq(S)
    BY <2>1, <2>2
  <2> QED BY <1>1, <1>2, <2>1, <2>2, <2>3, <2>4, <2>5 DEF tt
<1> QED BY <1>3, <1>4

(* The last element apart. *)
LEMMA LastApart ==
  ASSUME NEW S, NEW s \in Seq(S), s # <<>>
  PROVE  \E t \in Seq(S), x \in S : s = Append(t, x) /\ Len(t) = Len(s) - 1
<1>1. PICK t \in Seq(S), x \in S : s = Append(t, x)
  BY SequenceEmptyOrAppend
<1>2. Len(s) = Len(t) + 1 /\ Len(t) \in Nat
  BY <1>1, AppendProperties, LenProperties
<1> QED BY <1>1, <1>2

(* The first element apart. *)
LEMMA FlattenCons ==
  ASSUME NEW S, NEW ss \in Seq(Seq(S)), NEW s \in Seq(S)
  PROVE  FlattenSeq(<<s>> \o ss) = s \o FlattenSeq(ss)
<1> DEFINE Bad == {n \in Nat : \E tt \in Seq(Seq(S)) : Len(tt) = n /\ FlattenSeq(<<s>> \o tt) # s \o FlattenSeq(tt)}
<1>1. SUFFICES ASSUME Bad # {} PROVE FALSE
  BY LenProperties
<1>2. PICK m \in Bad : \A n \in Bad : m <= n
  BY <1>1, Least
<1>3. PICK tt \in Seq(Seq(S)) : Len(tt) = m /\ FlattenSeq(<<s>> \o tt) # s \o FlattenSeq(tt)
  OBVIOUS
<1>4. <<s>> \in Seq(Seq(S)) /\ <<>> \in Seq(Seq(S)) /\ <<>> \in Seq(S)
  OBVIOUS
<1>5. tt # <<>>
  <2>1. <<s>> \o <<>> = Append(<<>>, s)
    OBVIOUS
  <2>2. FlattenSeq(<<s>> \o <<>>) = <<>> \o s
    BY <1>4, <2>1, FlattenAppend, FlattenEmpty
  <2>3. <<>> \o s = s /\ s \o <<>> = s
    BY ConcatEmptySeq
  <2> QED BY <1>3, <2>2, <2>3, FlattenEmpty
<1>6. PICK uu \in Seq(Seq(S)), u \in Seq(S) : tt = Append(uu, u) /\ Len(uu) = m - 1
  <2>1. Len(tt) = m
    BY <1>3
  <2> HIDE DEF Bad
  <2> QED BY <1>5, <2>1, LastApart
<1>7. FlattenSeq(<<s>> \o uu) = s \o FlattenSeq(uu)
  <2>1. m - 1 \in Nat /\ m - 1 \notin Bad
    <3>1. m \in Nat
      OBVIOUS
    <3> HIDE DEF Bad
    <3> QED BY <3>1, <1>2, <1>6, LenProperties
  <2> QED BY <2>1, <1>6
<1>8. <<s>> \o tt = Append(<<s>> \o uu, u)
  <2>1. <<u>> \in Seq(Seq(S)) /\ <<s>> \o uu \in Seq(Seq(S))
    BY <1>4, ConcatProperties
  <2>2. tt = uu \o <<u>>
    BY <1>6, AppendIsConcat
  <2>3. Append(<<s>> \o uu, u) = (<<s>> \o uu) \o <<u>>
    BY <2>1, AppendIsConcat
  <2> HIDE DEF Bad
  <2>4. <<s>> \o (uu \o <<u>>) = (<<s>> \o uu) \o <<u>>
    <3> DEFINE T == Seq(S)
    <3>1. \A a, b, c \in Seq(T) : (a \o b) \o c = a \o (b \o c)
      <4> HIDE DEF T
      <4> QED BY ConcatAssociative
    <3>2. <<s>> \in Seq(T) /\ uu \in Seq(T) /\ <<u>> \in Seq(T)
      BY <1>4, <1>6, <2>1
    <3> HIDE DEF T
    <3> QED BY <3>1, <3>2, Zenon
  <2> QED BY <2>2, <2>3, <2>4
<1>9. FlattenSeq(<<s>> \o tt) = FlattenSeq(<<s>> \o uu) \o u
  <2>1. <<s>> \o uu \in Seq(Seq(S))
    BY <1>4, ConcatProperties
  <2> QED BY <1>8, <2>1, FlattenAppend
<1>10. FlattenSeq(tt) = FlattenSeq(uu) \o u /\ FlattenSeq(uu) \in Seq(S)
  BY <1>6, FlattenAppend
<1>11. (s \o FlattenSeq(uu)) \o u = s \o (FlattenSeq(uu) \o u)
  <2> DEFINE t == FlattenSeq(uu)
  <2>1. t \in Seq(S)
    BY <1>10
  <2> HIDE DEF Bad, t
  <2>2. (s \o t) \o u = s \o (t \o u)
    BY <2>1, ConcatAssociative, SMTT(20)
  <2> QED BY <2>2 DEF t
<1> QED BY <1>3, <1>7, <1>9, <1>10, <1>11

(* The members of two sequences in a row. *)
LEMMA ToSetConcat ==
  ASSUME NEW S, NEW s \in Seq(S), NEW t \in Seq(S)
  PROVE  ToSet(s \o t) = ToSet(s) \cup ToSet(t)
<1>1. /\ DOMAIN s = 1 .. Len(s) /\ DOMAIN t = 1 .. Len(t) /\ Len(s) \in Nat /\ Len(t) \in Nat
      /\ DOMAIN (s \o t) = 1 .. Len(s) + Len(t)
  BY LenProperties, ConcatProperties
<1>2. \A i \in 1 .. Len(s) + Len(t) : (s \o t)[i] = IF i <= Len(s) THEN s[i] ELSE t[i - Len(s)]
  BY ConcatProperties
<1>3. \A i \in DOMAIN s : s[i] \in ToSet(s \o t)
  BY <1>1, <1>2 DEF ToSet
<1>4. ASSUME NEW i \in DOMAIN t PROVE t[i] \in ToSet(s \o t)
  <2>1. i + Len(s) \in DOMAIN (s \o t) /\ (s \o t)[i + Len(s)] = t[i]
    BY <1>1, <1>2
  <2> QED BY <2>1 DEF ToSet
<1>5. ASSUME NEW i \in DOMAIN (s \o t) PROVE (s \o t)[i] \in ToSet(s) \cup ToSet(t)
  BY <1>1, <1>2 DEF ToSet
<1> QED BY <1>3, <1>4, <1>5 DEF ToSet

(* A flat sequence has the members of its parts. *)
LEMMA FlattenToSet ==
  ASSUME NEW S, NEW ss \in Seq(Seq(S))
  PROVE  ToSet(FlattenSeq(ss)) = UNION {ToSet(s) : s \in ToSet(ss)}
<1> DEFINE Flat(tt) == UNION {ToSet(s) : s \in ToSet(tt)}
           Bad == {n \in Nat : \E tt \in Seq(Seq(S)) : Len(tt) = n /\ ToSet(FlattenSeq(tt)) # Flat(tt)}
<1>1. SUFFICES ASSUME Bad # {} PROVE FALSE
  BY LenProperties
<1>2. PICK m \in Bad : \A n \in Bad : m <= n
  BY <1>1, Least
<1>3. PICK tt \in Seq(Seq(S)) : Len(tt) = m /\ ToSet(FlattenSeq(tt)) # Flat(tt)
  OBVIOUS
<1>4. tt # <<>>
  <2>1. ToSet(<<>>) = {}
    BY DEF ToSet
  <2> QED BY <1>3, <2>1, FlattenEmpty
<1>5. PICK uu \in Seq(Seq(S)), u \in Seq(S) : tt = Append(uu, u) /\ Len(uu) = m - 1
  <2>1. Len(tt) = m
    BY <1>3
  <2> HIDE DEF Bad, Flat
  <2> QED BY <1>4, <2>1, LastApart
<1>6. ToSet(FlattenSeq(uu)) = Flat(uu)
  <2>1. m - 1 \in Nat /\ m - 1 \notin Bad
    <3>1. m \in Nat
      OBVIOUS
    <3> HIDE DEF Bad
    <3> QED BY <3>1, <1>2, <1>5, LenProperties
  <2> QED BY <2>1, <1>5
<1>7. FlattenSeq(tt) = FlattenSeq(uu) \o u /\ FlattenSeq(uu) \in Seq(S)
  BY <1>5, FlattenAppend
<1>8. ToSet(FlattenSeq(tt)) = Flat(uu) \cup ToSet(u)
  BY <1>6, <1>7, ToSetConcat
<1>9. tt = uu \o <<u>> /\ <<u>> \in Seq(Seq(S))
  BY <1>5, AppendIsConcat
<1>10. ToSet(tt) = ToSet(uu) \cup {u}
  <2>1. ToSet(<<u>>) = {u}
    BY DEF ToSet
  <2> HIDE DEF Bad
  <2>2. ToSet(uu \o <<u>>) = ToSet(uu) \cup ToSet(<<u>>)
    <3> DEFINE v == <<u>>
    <3>1. v \in Seq(Seq(S))
      BY <1>9
    <3> HIDE DEF v, Flat
    <3>2. ToSet(uu \o v) = ToSet(uu) \cup ToSet(v)
      BY <3>1, ToSetConcat
    <3> QED BY <3>2 DEF v
  <2> QED BY <1>9, <2>1, <2>2
<1> QED BY <1>3, <1>8, <1>10
-----------------------------------------------------------------------------
(* Expressions. *)
(* An operand of any expression. *)
AnyOperand == Operand(Exprs, AnyClauses)

(* An expression is conjunctions, at least one, of operands, at least one. *)
LEMMA ExprShape ==
  ASSUME NEW e \in Exprs
  PROVE  /\ e \in Seq(Seq(AnyOperand)) /\ e # <<>>
         /\ Len(e) \in Nat \ {0} /\ DOMAIN e = 1 .. Len(e)
         /\ \A k \in 1 .. Len(e) :
              /\ e[k] \in Seq(AnyOperand) /\ e[k] # <<>>
              /\ Len(e[k]) \in Nat \ {0} /\ DOMAIN e[k] = 1 .. Len(e[k])
              /\ \A j \in 1 .. Len(e[k]) : e[k][j] \in AnyOperand
<1>1. e \in Seq(NonEmpty(AnyOperand)) /\ e # <<>>
  BY ExprsAssumption DEF NonEmpty, AnyOperand
<1>2. NonEmpty(AnyOperand) \subseteq Seq(AnyOperand)
  BY DEF NonEmpty
<1>3. /\ e \in Seq(Seq(AnyOperand))
      /\ Len(e) \in Nat \ {0} /\ DOMAIN e = 1 .. Len(e)
  BY <1>1, <1>2, SeqMonotonic, EmptySeq, LenProperties
<1>4. ASSUME NEW k \in 1 .. Len(e)
      PROVE  /\ e[k] \in Seq(AnyOperand) /\ e[k] # <<>>
             /\ Len(e[k]) \in Nat \ {0} /\ DOMAIN e[k] = 1 .. Len(e[k])
             /\ \A j \in 1 .. Len(e[k]) : e[k][j] \in AnyOperand
  <2>1. e[k] \in NonEmpty(AnyOperand)
    BY <1>1, ElementOfSeq
  <2>2. e[k] \in Seq(AnyOperand) /\ e[k] # <<>>
    BY <2>1 DEF NonEmpty
  <2> QED BY <2>2, EmptySeq, LenProperties, ElementOfSeq
<1> QED BY <1>1, <1>3, <1>4

(* The fields of an operand. *)
LEMMA OperandShape ==
  ASSUME NEW n \in AnyOperand
  PROVE  /\ n = [op |-> n.op, not |-> n.not, kind |-> n.kind, of |-> n.of]
         /\ n.op \in BOOLEAN /\ n.not \in BOOLEAN /\ n.kind \in {"group", "clause"}
         /\ n.kind = "group" => n.of \in Exprs
         /\ n.kind # "group" => n.of \in AnyClauses
BY DEF AnyOperand, Operand

(* The groups of an expression are lower than the expression. *)
LEMMA Shallowest ==
  ASSUME NEW B \in SUBSET Exprs, B # {}
  PROVE  \E e \in B : \A k \in 1 .. Len(e) : \A j \in 1 .. Len(e[k]) :
           e[k][j].kind = "group" => e[k][j].of \in Exprs \ B
<1> DEFINE H == {Height(e) : e \in B}
<1>1. H \in SUBSET Nat /\ H # {}
  BY ExprsAssumption
<1>2. PICK m \in H : \A n \in H : m <= n
  BY <1>1, Least
<1>3. PICK e \in B : Height(e) = m
  OBVIOUS
<1>4. ASSUME NEW k \in 1 .. Len(e), NEW j \in 1 .. Len(e[k]), e[k][j].kind = "group"
      PROVE  e[k][j].of \in Exprs \ B
  <2> DEFINE a == e[k]
             n == a[j]
  <2>1. e \in Exprs
    OBVIOUS
  <2>2. a \in ToSet(e) /\ n \in ToSet(a) /\ n \in AnyOperand
    BY <2>1, ExprShape DEF ToSet
  <2>3. n.of \in Exprs
    BY <1>4, <2>2, OperandShape
  <2>4. Height(n.of) < Height(e)
    BY <1>4, <2>1, <2>2, ExprsAssumption
  <2>5. Height(n.of) \in Nat /\ m \in Nat
    BY <2>3, <1>1, ExprsAssumption
  <2>6. n.of \in B => m <= Height(n.of)
    BY <1>2
  <2>7. n.of \notin B
    BY <1>3, <2>4, <2>5, <2>6
  <2> QED BY <2>3, <2>7
<1> QED BY <1>4
-----------------------------------------------------------------------------
(* How expressions are written. *)

(* A flat sequence has the type of its parts. *)
LEMMA FlattenType ==
  ASSUME NEW S, NEW ss \in Seq(Seq(S))
  PROVE  FlattenSeq(ss) \in Seq(S)
BY FlattenAppend, EmptySeq

(* Short sequences. *)
LEMMA Tuples ==
  ASSUME NEW S
  PROVE  /\ <<>> \in Seq(S)
         /\ \A x \in S : <<x>> \in Seq(S)
         /\ \A x, y \in S : <<x, y>> \in Seq(S)
OBVIOUS

(* A clause is written as fragments of text. *)
LEMMA WriteClauseType ==
  ASSUME NEW c \in AnyClauses
  PROVE  WriteClause(c) \in Seq(Fragments)
<1>1. /\ c.field \in Fragments /\ c.value \in Seq(Fragments)
      /\ c.fuzzy \in Fragments /\ c.boost \in Fragments
  BY DEF AnyClauses
<1>2. ":" \in Fragments /\ "~" \in Fragments /\ "^" \in Fragments
  BY DEF Fragments, Tokens, Punctuation
<1> DEFINE z == CASE c.fuzzy = NoFuzzy -> <<>> [] c.fuzzy = "" -> <<"~">> [] OTHER -> <<"~", c.fuzzy>>
           b == IF c.boost = NoBoost THEN <<>> ELSE <<"^", c.boost>>
           h == <<c.field, ":">>
<1>3. h \in Seq(Fragments) /\ z \in Seq(Fragments) /\ b \in Seq(Fragments)
  <2>1. h \in Seq(Fragments)
    BY <1>1, <1>2, Tuples
  <2>2. z \in {<<>>, <<"~">>, <<"~", c.fuzzy>>} /\ b \in {<<>>, <<"^", c.boost>>}
    OBVIOUS
  <2> HIDE DEF z, b
  <2>3. z \in Seq(Fragments) /\ b \in Seq(Fragments)
    BY <1>1, <1>2, <2>2, Tuples
  <2> QED BY <2>1, <2>3
<1>4. WriteClause(c) = ((h \o c.value) \o z) \o b
  BY DEF WriteClause
<1> HIDE DEF h, z, b
<1>5. h \o c.value \in Seq(Fragments)
  BY <1>1, <1>3, ConcatProperties
<1>6. (h \o c.value) \o z \in Seq(Fragments)
  BY <1>3, <1>5, ConcatProperties
<1> QED BY <1>3, <1>4, <1>6, ConcatProperties

(* So is a keyword that may be missing, ... *)
LEMMA OptionalType ==
  ASSUME NEW b, NEW t \in Keywords
  PROVE  Optional(b, t) \in Seq(Fragments)
<1>1. t \in Fragments
  BY DEF Fragments, Tokens, Idents
<1>2. Optional(b, t) \in {<<>>, <<t>>}
  BY DEF Optional
<1> QED BY <1>1, <1>2, Tuples

(* ... an operand, ... *)
LEMMA WriteOperandType ==
  ASSUME NEW n \in AnyOperand, n.kind = "group" => Write(n.of) \in Seq(Fragments)
  PROVE  WriteOperand(n) \in Seq(Fragments)
<1> DEFINE o == Optional(n.op, "AND")
           t == Optional(n.not, "NOT")
           p == IF n.kind = "group" THEN <<"(">> \o Write(n.of) \o <<")">> ELSE WriteClause(n.of)
<1>1. o \in Seq(Fragments) /\ t \in Seq(Fragments)
  BY OptionalType DEF Keywords
<1>2. p \in Seq(Fragments)
  <2>1. CASE n.kind = "group"
    <3>1. <<"(">> \in Seq(Fragments) /\ <<")">> \in Seq(Fragments)
      <4>1. "(" \in Fragments /\ ")" \in Fragments
        BY DEF Fragments, Tokens, Punctuation
      <4> QED BY <4>1, Tuples
    <3>2. <<"(">> \o Write(n.of) \in Seq(Fragments)
      BY <2>1, <3>1, ConcatProperties
    <3> QED BY <2>1, <3>1, <3>2, ConcatProperties
  <2>2. CASE n.kind # "group"
    BY <2>2, OperandShape, WriteClauseType
  <2> QED BY <2>1, <2>2
<1>3. WriteOperand(n) = (o \o t) \o p
  BY DEF WriteOperand
<1> HIDE DEF o, t, p
<1>4. o \o t \in Seq(Fragments)
  BY <1>1, ConcatProperties
<1> QED BY <1>2, <1>3, <1>4, ConcatProperties

(* ... a conjunction of such operands, ... *)
LEMMA WriteAndType ==
  ASSUME NEW a, NEW n \in Nat, DOMAIN a = 1 .. n,
         \A j \in 1 .. n : WriteOperand(a[j]) \in Seq(Fragments)
  PROVE  WriteAnd(a) \in Seq(Fragments)
<1>1. [j \in DOMAIN a |-> WriteOperand(a[j])] \in Seq(Seq(Fragments))
  OBVIOUS
<1> QED BY <1>1, FlattenType DEF WriteAnd

(* ... and so, by the height of its groups, is every expression. *)
LEMMA WriteType ==
  ASSUME NEW e \in Exprs
  PROVE  Write(e) \in Seq(Fragments)
<1> DEFINE B == {x \in Exprs : Write(x) \notin Seq(Fragments)}
<1>1. SUFFICES ASSUME B # {} PROVE FALSE
  OBVIOUS
<1>2. PICK x \in B : \A k \in 1 .. Len(x) : \A j \in 1 .. Len(x[k]) :
           x[k][j].kind = "group" => x[k][j].of \in Exprs \ B
  <2> HIDE DEF B
  <2>1. B \in SUBSET Exprs
    BY DEF B
  <2> QED BY <1>1, <2>1, Shallowest
<1>3. x \in Exprs /\ Write(x) \notin Seq(Fragments)
  OBVIOUS
<1>4. ASSUME NEW k \in 1 .. Len(x)
      PROVE  WriteAnd(x[k]) \in Seq(Fragments)
  <2>1. ASSUME NEW j \in 1 .. Len(x[k])
        PROVE  WriteOperand(x[k][j]) \in Seq(Fragments)
    BY <1>2, <1>3, ExprShape, WriteOperandType
  <2> HIDE DEF B
  <2>2. DOMAIN x[k] = 1 .. Len(x[k]) /\ Len(x[k]) \in Nat
    BY <1>3, ExprShape
  <2> QED BY <2>1, <2>2, WriteAndType
<1> HIDE DEF B
<1>5. ASSUME NEW k \in 1 .. Len(x)
      PROVE  Optional(k > 1, "OR") \o WriteAnd(x[k]) \in Seq(Fragments)
  <2>1. Optional(k > 1, "OR") \in Seq(Fragments)
    BY OptionalType DEF Keywords
  <2> QED BY <1>4, <2>1, ConcatProperties
<1>6. [k \in DOMAIN x |-> Optional(k > 1, "OR") \o WriteAnd(x[k])] \in Seq(Seq(Fragments))
  <2>1. DOMAIN x = 1 .. Len(x) /\ Len(x) \in Nat
    BY <1>3, ExprShape
  <2> QED BY <1>5, <2>1
<1>7. WriteDef(x) \in Seq(Fragments)
  BY <1>6, FlattenType DEF WriteDef
<1>8. Write(x) = WriteDef(x)
  BY <1>3, RecursionAssumption
<1> QED BY <1>3, <1>7, <1>8

(* A sequence is its first member and the others. *)
LEMMA ConsEqual ==
  ASSUME NEW T, NEW u \in Seq(T), NEW v \in Seq(T), NEW y \in T,
         Len(u) = Len(v) + 1, u[1] = y, \A i \in 1 .. Len(v) : u[i + 1] = v[i]
  PROVE  u = <<y>> \o v
<1>1. <<y>> \in Seq(T) /\ Len(<<y>>) = 1 /\ Len(v) \in Nat
  BY LenProperties
<1>2. /\ <<y>> \o v \in Seq(T) /\ Len(<<y>> \o v) = Len(u)
      /\ \A i \in 1 .. Len(u) : (<<y>> \o v)[i] = IF i <= 1 THEN <<y>>[i] ELSE v[i - 1]
  BY <1>1, ConcatProperties
<1>3. ASSUME NEW i \in 1 .. Len(u) PROVE u[i] = (<<y>> \o v)[i]
  <2>1. CASE i = 1
    BY <1>2, <2>1
  <2>2. CASE i # 1
    <3>1. i - 1 \in 1 .. Len(v) /\ (i - 1) + 1 = i
      BY <1>1, <2>2
    <3> QED BY <1>2, <2>2, <3>1
  <2> QED BY <2>1, <2>2
<1> QED BY <1>2, <1>3, SeqEqual

(* What a sequence with x in front of s is. *)
LEMMA ConsShape ==
  ASSUME NEW T, NEW x \in T, NEW s \in Seq(T)
  PROVE  /\ <<x>> \o s \in Seq(T) /\ <<x>> \o s # <<>>
         /\ Len(<<x>> \o s) = Len(s) + 1 /\ Len(s) \in Nat
         /\ DOMAIN (<<x>> \o s) = 1 .. Len(s) + 1 /\ DOMAIN s = 1 .. Len(s)
         /\ (<<x>> \o s)[1] = x
         /\ \A i \in 1 .. Len(s) : (<<x>> \o s)[i + 1] = s[i]
<1>1. <<x>> \in Seq(T) /\ Len(<<x>>) = 1 /\ Len(s) \in Nat /\ DOMAIN s = 1 .. Len(s)
  BY LenProperties
<1>2. /\ <<x>> \o s \in Seq(T) /\ Len(<<x>> \o s) = Len(s) + 1
      /\ \A i \in 1 .. Len(s) + 1 : (<<x>> \o s)[i] = IF i <= 1 THEN <<x>>[i] ELSE s[i - 1]
  BY <1>1, ConcatProperties
<1>3. DOMAIN (<<x>> \o s) = 1 .. Len(s) + 1
  BY <1>2, LenProperties
<1>4. <<x>> \o s # <<>>
  BY <1>1, <1>2, EmptySeq
<1>5. \A i \in 1 .. Len(s) : (<<x>> \o s)[i + 1] = s[i]
  BY <1>1, <1>2
<1> QED BY <1>1, <1>2, <1>3, <1>4, <1>5

(* A sequence that is not empty has a first member and others. *)
LEMMA ConsApart ==
  ASSUME NEW T, NEW s \in Seq(T), s # <<>>
  PROVE  /\ s = <<s[1]>> \o Tail(s) /\ s[1] \in T /\ Tail(s) \in Seq(T)
         /\ Len(Tail(s)) = Len(s) - 1 /\ Len(s) \in Nat \ {0}
         /\ \A i \in 1 .. Len(s) - 1 : Tail(s)[i] = s[i + 1]
<1>1. Len(s) \in Nat \ {0} /\ s[1] \in T
  BY EmptySeq, ElementOfSeq
<1>2. /\ Tail(s) \in Seq(T) /\ Len(Tail(s)) = Len(s) - 1
      /\ \A i \in 1 .. Len(s) - 1 : Tail(s)[i] = s[i + 1]
  BY HeadTailProperties
<1>3. Len(s) = Len(Tail(s)) + 1
  BY <1>1, <1>2
<1> QED BY <1>1, <1>2, <1>3, ConsEqual

(* Every operand is written as fragments. *)
LEMMA OperandsWritten == \A n \in AnyOperand : WriteOperand(n) \in Seq(Fragments)
BY OperandShape, WriteType, WriteOperandType

(* So is every sequence of operands. *)
LEMMA ConjunctionsWritten == \A a \in Seq(AnyOperand) : WriteAnd(a) \in Seq(Fragments)
BY OperandsWritten, LenProperties, ElementOfSeq, WriteAndType

(* No operand is written as nothing. *)
LEMMA WriteAndEmpty == WriteAnd(<<>>) = <<>>
<1>1. [j \in DOMAIN <<>> |-> WriteOperand(<<>>[j])] = <<>>
  OBVIOUS
<1> QED BY <1>1, FlattenEmpty DEF WriteAnd

(* Operands are written one after the other. *)
LEMMA WriteAndCons ==
  ASSUME NEW n \in AnyOperand, NEW a \in Seq(AnyOperand)
  PROVE  WriteAnd(<<n>> \o a) = WriteOperand(n) \o WriteAnd(a)
<1> DEFINE b == <<n>> \o a
           u == [j \in DOMAIN b |-> WriteOperand(b[j])]
           v == [j \in DOMAIN a |-> WriteOperand(a[j])]
<1>1. /\ DOMAIN b = 1 .. Len(a) + 1 /\ DOMAIN a = 1 .. Len(a) /\ Len(a) \in Nat
      /\ b[1] = n /\ \A i \in 1 .. Len(a) : b[i + 1] = a[i]
      /\ b \in Seq(AnyOperand) /\ Len(b) = Len(a) + 1
  BY ConsShape
<1> HIDE DEF b
<1>2. u \in Seq(Seq(Fragments)) /\ v \in Seq(Seq(Fragments)) /\ Len(u) = Len(a) + 1 /\ Len(v) = Len(a)
  <2>1. \A j \in 1 .. Len(a) + 1 : WriteOperand(b[j]) \in Seq(Fragments)
    BY <1>1, ElementOfSeq, OperandsWritten
  <2>2. \A j \in 1 .. Len(a) : WriteOperand(a[j]) \in Seq(Fragments)
    BY <1>1, ElementOfSeq, OperandsWritten
  <2> QED BY <1>1, <2>1, <2>2
<1>3. u[1] = WriteOperand(n) /\ \A i \in 1 .. Len(a) : u[i + 1] = v[i]
  BY <1>1
<1>4. u = <<WriteOperand(n)>> \o v
  <2> HIDE DEF u, v
  <2>1. /\ Len(u) = Len(v) + 1 /\ \A i \in 1 .. Len(v) : u[i + 1] = v[i]
        /\ WriteOperand(n) \in Seq(Fragments)
    BY <1>2, <1>3, OperandsWritten
  <2> QED BY <1>2, <1>3, <2>1, ConsEqual
<1>5. FlattenSeq(u) = WriteOperand(n) \o FlattenSeq(v)
  <2> HIDE DEF u, v
  <2> QED BY <1>2, <1>4, FlattenCons, OperandsWritten
<1> QED BY <1>5 DEF WriteAnd, b

(* The conjunctions after the first, each with the OR before it. *)
WriteOrs(r) == FlattenSeq([k \in DOMAIN r |-> <<"OR">> \o WriteAnd(r[k])])

(* A conjunction with its OR is written as fragments. *)
LEMMA OrWritten == ASSUME NEW a \in Seq(AnyOperand) PROVE <<"OR">> \o WriteAnd(a) \in Seq(Fragments)
<1>1. <<"OR">> \in Seq(Fragments)
  BY Tuples DEF Fragments, Tokens, Idents, Keywords
<1> QED BY <1>1, ConjunctionsWritten, ConcatProperties

(* So are conjunctions, each with its OR. *)
LEMMA OrsWritten == ASSUME NEW r \in Seq(Seq(AnyOperand)) PROVE WriteOrs(r) \in Seq(Fragments)
<1>1. DOMAIN r = 1 .. Len(r) /\ Len(r) \in Nat
  BY LenProperties
<1>2. \A k \in 1 .. Len(r) : <<"OR">> \o WriteAnd(r[k]) \in Seq(Fragments)
  BY OrWritten, ElementOfSeq
<1>3. [k \in DOMAIN r |-> <<"OR">> \o WriteAnd(r[k])] \in Seq(Seq(Fragments))
  BY <1>1, <1>2
<1> QED BY <1>3, FlattenType DEF WriteOrs

(* No further conjunction is written as nothing. *)
LEMMA WriteOrsEmpty == WriteOrs(<<>>) = <<>>
<1>1. [k \in DOMAIN <<>> |-> <<"OR">> \o WriteAnd(<<>>[k])] = <<>>
  OBVIOUS
<1> QED BY <1>1, FlattenEmpty DEF WriteOrs

(* Conjunctions are written one after the other, the first of an expression without OR. *)
LEMMA WriteOrsCons ==
  ASSUME NEW a \in Seq(AnyOperand), NEW r \in Seq(Seq(AnyOperand))
  PROVE  /\ WriteOrs(<<a>> \o r) = (<<"OR">> \o WriteAnd(a)) \o WriteOrs(r)
         /\ WriteDef(<<a>> \o r) = WriteAnd(a) \o WriteOrs(r)
<1> DEFINE e == <<a>> \o r
           u == [k \in DOMAIN e |-> <<"OR">> \o WriteAnd(e[k])]
           w == [k \in DOMAIN e |-> Optional(k > 1, "OR") \o WriteAnd(e[k])]
           v == [k \in DOMAIN r |-> <<"OR">> \o WriteAnd(r[k])]
<1>1. /\ DOMAIN e = 1 .. Len(r) + 1 /\ DOMAIN r = 1 .. Len(r) /\ Len(r) \in Nat
      /\ e[1] = a /\ \A i \in 1 .. Len(r) : e[i + 1] = r[i]
      /\ e \in Seq(Seq(AnyOperand)) /\ Len(e) = Len(r) + 1
  BY ConsShape
<1> HIDE DEF e
<1>2. /\ \A j \in 1 .. Len(r) + 1 : <<"OR">> \o WriteAnd(e[j]) \in Seq(Fragments)
      /\ \A j \in 1 .. Len(r) : <<"OR">> \o WriteAnd(r[j]) \in Seq(Fragments)
      /\ WriteAnd(a) \in Seq(Fragments) /\ <<"OR">> \o WriteAnd(a) \in Seq(Fragments)
  BY <1>1, ElementOfSeq, OrWritten, ConjunctionsWritten
<1>3. \A j \in 1 .. Len(r) + 1 :
        Optional(j > 1, "OR") \o WriteAnd(e[j]) = IF j = 1 THEN WriteAnd(a) ELSE <<"OR">> \o WriteAnd(e[j])
  <2>1. <<>> \o WriteAnd(a) = WriteAnd(a)
    BY <1>2, ConcatEmptySeq
  <2>2. Optional(1 > 1, "OR") = <<>>
    BY DEF Optional
  <2>3. ASSUME NEW j \in 1 .. Len(r) + 1, j # 1 PROVE Optional(j > 1, "OR") = <<"OR">>
    BY <1>1, <2>3 DEF Optional
  <2> QED BY <1>1, <2>1, <2>2, <2>3
<1>4. u \in Seq(Seq(Fragments)) /\ v \in Seq(Seq(Fragments)) /\ Len(u) = Len(r) + 1 /\ Len(v) = Len(r)
  <2>1. u \in Seq(Seq(Fragments)) /\ Len(u) = Len(r) + 1
    BY <1>1, <1>2
  <2>2. v \in Seq(Seq(Fragments)) /\ Len(v) = Len(r)
    BY <1>1, <1>2
  <2> QED BY <2>1, <2>2
<1>5. w \in Seq(Seq(Fragments)) /\ Len(w) = Len(r) + 1
  <2>1. \A j \in 1 .. Len(r) + 1 : Optional(j > 1, "OR") \o WriteAnd(e[j]) \in Seq(Fragments)
    BY <1>2, <1>3
  <2> QED BY <1>1, <2>1
<1>6. u[1] = <<"OR">> \o WriteAnd(a) /\ \A i \in 1 .. Len(r) : u[i + 1] = v[i]
  <2>1. 1 \in 1 .. Len(r) + 1 /\ \A i \in 1 .. Len(r) : i + 1 \in 1 .. Len(r) + 1
    BY <1>1
  <2>2. u[1] = <<"OR">> \o WriteAnd(a)
    BY <1>1, <2>1
  <2>3. \A i \in 1 .. Len(r) : u[i + 1] = v[i]
    BY <1>1, <2>1
  <2> QED BY <2>2, <2>3
<1>7. w[1] = WriteAnd(a) /\ \A i \in 1 .. Len(r) : w[i + 1] = v[i]
  <2>1. \A k \in 1 .. Len(r) + 1 : w[k] = IF k = 1 THEN WriteAnd(a) ELSE u[k]
    BY <1>1, <1>3
  <2>2. ASSUME NEW i \in 1 .. Len(r) PROVE w[i + 1] = v[i]
    <3>1. i + 1 \in 1 .. Len(r) + 1 /\ i + 1 # 1 /\ 1 \in 1 .. Len(r) + 1
      BY <1>1
    <3> HIDE DEF u, w, v
    <3> QED BY <1>6, <2>1, <3>1
  <2>3. 1 \in 1 .. Len(r) + 1
    BY <1>1
  <2> HIDE DEF u, w, v
  <2> QED BY <2>1, <2>2, <2>3
<1> HIDE DEF u, v, w
<1>8. u = <<<<"OR">> \o WriteAnd(a)>> \o v
  <2> DEFINE x == <<"OR">> \o WriteAnd(a)
  <2>1. x \in Seq(Fragments) /\ u[1] = x
    BY <1>2, <1>6
  <2> HIDE DEF x
  <2>2. Len(u) = Len(v) + 1 /\ \A i \in 1 .. Len(v) : u[i + 1] = v[i]
    BY <1>4, <1>6
  <2>3. u = <<x>> \o v
    BY <1>4, <2>1, <2>2, ConsEqual
  <2> QED BY <2>3 DEF x
<1>9. w = <<WriteAnd(a)>> \o v
  <2>1. Len(w) = Len(v) + 1 /\ \A i \in 1 .. Len(v) : w[i + 1] = v[i]
    BY <1>4, <1>5, <1>7
  <2> DEFINE x == WriteAnd(a)
  <2>2. x \in Seq(Fragments) /\ w[1] = x
    BY <1>2, <1>7
  <2> HIDE DEF x
  <2>3. w = <<x>> \o v
    BY <1>4, <1>5, <2>1, <2>2, ConsEqual
  <2> QED BY <2>3 DEF x
<1>10. FlattenSeq(u) = (<<"OR">> \o WriteAnd(a)) \o FlattenSeq(v)
  BY <1>2, <1>4, <1>8, FlattenCons
<1>11. FlattenSeq(w) = WriteAnd(a) \o FlattenSeq(v)
  BY <1>2, <1>4, <1>9, FlattenCons
<1> QED BY <1>10, <1>11 DEF WriteOrs, WriteDef, u, v, w, e
-----------------------------------------------------------------------------
(* What is read is what stands in the text. *)

(* A text is a sequence of fragments. *)
LEMMA TextShape ==
  ASSUME NEW ts \in Texts
  PROVE  ts \in Seq(Fragments) /\ Len(ts) \in Nat /\ DOMAIN ts = 1 .. Len(ts)
<1>1. CASE ts \in Others
  <2>1. ts \in Seq(Tokens) /\ Tokens \subseteq Fragments
    BY <1>1, QueriesAssumption DEF Fragments
  <2>2. ts \in Seq(Fragments)
    BY <2>1, SeqMonotonic
  <2> QED BY <2>2, LenProperties
<1>2. CASE ts \notin Others
  <2>1. PICK q \in Queries : ts = Write(q)
    BY <1>2 DEF Texts
  <2>2. ts \in Seq(Fragments)
    BY <2>1, QueriesAssumption, WriteType
  <2> QED BY <2>2, LenProperties
<1> QED BY <1>1, <1>2

(* The tokens of ts from position i up to j are those of s ... *)
Reads(ts, i, s, j) ==
  /\ j = i + Len(s) /\ j <= Len(ts) + 1
  /\ \A k \in 1 .. Len(s) : ts[i + k - 1] = s[k]

(* ... or, quotes apart, have their values. *)
Spells(ts, i, s, j) ==
  /\ j = i + Len(s) /\ j <= Len(ts) + 1
  /\ \A k \in 1 .. Len(s) : Value(ts[i + k - 1]) = Value(s[k])

(* The former is the stricter. *)
LEMMA ReadsSpells ==
  ASSUME NEW ts, NEW i, NEW s, NEW j, Reads(ts, i, s, j)
  PROVE  Spells(ts, i, s, j)
BY DEF Reads, Spells

(* Nothing stands everywhere. *)
LEMMA SpellsEmpty ==
  ASSUME NEW ts, NEW i \in Nat, i <= Len(ts) + 1
  PROVE  Spells(ts, i, <<>>, i)
BY DEF Spells

(* One token in a text. *)
LEMMA ReadsOne ==
  ASSUME NEW ts, Len(ts) \in Nat, NEW i \in Nat, NEW x, NEW j, Reads(ts, i, <<x>>, j)
  PROVE  j = i + 1 /\ i <= Len(ts) /\ ts[i] = x
BY DEF Reads

(* One value. *)
LEMMA SpellsOne ==
  ASSUME NEW ts, Len(ts) \in Nat, NEW i \in Nat, NEW x, i <= Len(ts), Value(ts[i]) = Value(x)
  PROVE  Spells(ts, i, <<x>>, i + 1)
<1> DEFINE v(y) == Value(y)
<1>1. v(ts[i]) = v(x)
  OBVIOUS
<1> HIDE DEF v
<1>2. \A k \in 1 .. Len(<<x>>) : v(ts[i + k - 1]) = v(<<x>>[k])
  BY <1>1
<1> QED BY <1>2 DEF Spells, v

(* Two values. *)
LEMMA SpellsTwo ==
  ASSUME NEW ts, Len(ts) \in Nat, NEW i \in Nat, i + 1 <= Len(ts),
         NEW x, NEW y, Value(ts[i]) = Value(x), Value(ts[i + 1]) = Value(y)
  PROVE  Spells(ts, i, <<x, y>>, i + 2)
<1>1. ASSUME NEW k \in 1 .. 2 PROVE Value(ts[i + k - 1]) = Value(<<x, y>>[k])
  <2>1. k = 1 \/ k = 2
    OBVIOUS
  <2>2. i + 1 - 1 = i /\ i + 2 - 1 = i + 1
    OBVIOUS
  <2>3. <<x, y>>[1] = x /\ <<x, y>>[2] = y
    OBVIOUS
  <2>4. CASE k = 1
    BY <2>2, <2>3, <2>4
  <2>5. CASE k = 2
    BY <2>2, <2>3, <2>5
  <2> QED BY <2>1, <2>4, <2>5
<1>2. Len(<<x, y>>) = 2 /\ i + 2 <= Len(ts) + 1
  OBVIOUS
<1> QED BY <1>1, <1>2 DEF Spells

(* The parts of what a parser returns. *)
LEMMA NodeOf == \A n, i : Node(n, i).ok /\ Node(n, i).node = n /\ Node(n, i).next = i
BY DEF Node

(* What stands one after the other stands there in a row. *)
LEMMA SpellsJoin ==
  ASSUME NEW ts, Len(ts) \in Nat, NEW i \in Nat, NEW j, NEW k,
         NEW s \in Seq(Fragments), NEW t \in Seq(Fragments),
         Spells(ts, i, s, j), Spells(ts, j, t, k)
  PROVE  Spells(ts, i, s \o t, k)
<1>1. /\ Len(s \o t) = Len(s) + Len(t) /\ Len(s) \in Nat /\ Len(t) \in Nat
      /\ \A n \in 1 .. Len(s) + Len(t) : (s \o t)[n] = IF n <= Len(s) THEN s[n] ELSE t[n - Len(s)]
  BY ConcatProperties, LenProperties
<1>2. j = i + Len(s) /\ k = i + Len(s) + Len(t) /\ k <= Len(ts) + 1
  BY <1>1 DEF Spells
<1>3. ASSUME NEW n \in 1 .. Len(s) + Len(t) PROVE Value(ts[i + n - 1]) = Value((s \o t)[n])
  <2>1. CASE n <= Len(s)
    BY <1>1, <2>1 DEF Spells
  <2>2. CASE n > Len(s)
    <3>1. n - Len(s) \in 1 .. Len(t) /\ j + (n - Len(s)) - 1 = i + n - 1
      BY <1>1, <1>2, <2>2
    <3>2. Value(ts[j + (n - Len(s)) - 1]) = Value(t[n - Len(s)])
      BY <3>1 DEF Spells
    <3> QED BY <1>1, <2>2, <3>1, <3>2
  <2> QED BY <1>1, <2>1, <2>2
<1> DEFINE st == s \o t
<1>4. /\ Len(st) = Len(s) + Len(t) /\ Len(st) \in Nat
      /\ \A n \in 1 .. Len(st) : Value(ts[i + n - 1]) = Value(st[n])
  BY <1>1, <1>3
<1> HIDE DEF st
<1>5. k = i + Len(st)
  BY <1>1, <1>2, <1>4
<1>6. Spells(ts, i, st, k)
  BY <1>2, <1>4, <1>5 DEF Spells
<1> QED BY <1>6 DEF st

(* What stands in a row stands one after the other. *)
LEMMA ReadsSplit ==
  ASSUME NEW ts, Len(ts) \in Nat, NEW i \in Nat, NEW k,
         NEW s \in Seq(Fragments), NEW t \in Seq(Fragments),
         Reads(ts, i, s \o t, k)
  PROVE  /\ i + Len(s) \in Nat
         /\ Reads(ts, i, s, i + Len(s)) /\ Reads(ts, i + Len(s), t, k)
<1>1. /\ Len(s \o t) = Len(s) + Len(t) /\ Len(s) \in Nat /\ Len(t) \in Nat
      /\ \A n \in 1 .. Len(s) + Len(t) : (s \o t)[n] = IF n <= Len(s) THEN s[n] ELSE t[n - Len(s)]
  BY ConcatProperties, LenProperties
<1>2. k = i + Len(s) + Len(t) /\ k <= Len(ts) + 1
  BY <1>1 DEF Reads
<1>3. \A n \in 1 .. Len(s) + Len(t) : ts[i + n - 1] = (s \o t)[n]
  BY <1>1 DEF Reads
<1>4. ASSUME NEW n \in 1 .. Len(s) PROVE ts[i + n - 1] = s[n]
  BY <1>1, <1>3
<1>5. ASSUME NEW n \in 1 .. Len(t) PROVE ts[(i + Len(s)) + n - 1] = t[n]
  <2>1. n + Len(s) \in 1 .. Len(s) + Len(t) /\ ~(n + Len(s) <= Len(s)) /\ (n + Len(s)) - Len(s) = n
        /\ i + (n + Len(s)) - 1 = (i + Len(s)) + n - 1
    BY <1>1
  <2> QED BY <1>1, <1>3, <2>1
<1> QED BY <1>1, <1>2, <1>4, <1>5 DEF Reads

(* Where what stands in a text ends. *)
LEMMA ReadsBounds ==
  ASSUME NEW ts, NEW i \in Nat, NEW s \in Seq(Fragments), NEW j, Reads(ts, i, s, j)
  PROVE  j \in Nat /\ i <= j /\ j <= Len(ts) + 1 /\ j = i + Len(s)
BY LenProperties DEF Reads

(* Where what a text spells ends. *)
LEMMA SpellsBounds ==
  ASSUME NEW ts, NEW i \in Nat, NEW s \in Seq(Fragments), NEW j, Spells(ts, i, s, j)
  PROVE  j \in Nat /\ i <= j /\ j <= Len(ts) + 1 /\ j = i + Len(s)
BY LenProperties DEF Spells

(* What can be told of words. *)
LEMMA WordFacts ==
  /\ EndOfText \notin Idents \cup Strings \cup CompareOps \cup Punctuation
  /\ Keywords \subseteq Idents /\ Names \subseteq Idents /\ Words \subseteq Idents
  /\ (Idents \cup Strings) \cap (CompareOps \cup Punctuation) = {}
  /\ CompareOps \cap Punctuation = {} /\ Idents \cap Strings = {}
  /\ "" \notin Idents /\ NoFuzzy \notin Idents /\ NoBoost \notin Idents
  /\ NoFuzzy # ""
BY TokensAssumption DEF Idents, CompareOps, Punctuation, EndOfText, NoFuzzy

(* The marks of the grammar are punctuation. *)
LEMMA Marks == {":", "~", "^", "(", ")", "[", "]"} \subseteq Punctuation
BY DEF Punctuation

(* Where there is a token, the text has not ended. *)
LEMMA TokAt ==
  ASSUME NEW ts, NEW i, Tok(ts, i) \in Idents \cup Strings \cup CompareOps \cup Punctuation
  PROVE  i <= Len(ts) /\ ts[i] = Tok(ts, i)
BY WordFacts DEF Tok

(* What is no quoted string has no quotes to take off. *)
LEMMA NoQuotes ==
  /\ \A t : t \notin Strings => Value(t) = t
  /\ (Idents \cup CompareOps \cup Punctuation \cup {EndOfText}) \cap Strings = {}
BY TokensAssumption DEF Value

(* A literal matches such a token by what it is. *)
LEMMA LitOf ==
  ASSUME NEW ts, NEW i, Tok(ts, i) \in Idents \cup CompareOps \cup Punctuation \cup {EndOfText}
  PROVE  Lit(ts, i) = Tok(ts, i)
BY NoQuotes DEF Lit

(* Where a literal matches there is a token, it or a quoted one. *)
LEMMA LitAt ==
  ASSUME NEW ts, NEW i, Lit(ts, i) \in Keywords \cup CompareOps \cup Punctuation
  PROVE  /\ i <= Len(ts) /\ Value(ts[i]) = Lit(ts, i) /\ ts[i] \in Strings \cup {Lit(ts, i)}
         /\ Value(Lit(ts, i)) = Lit(ts, i)
<1>1. i <= Len(ts)
  <2>1. SUFFICES ASSUME ~(i <= Len(ts)) PROVE FALSE
    OBVIOUS
  <2>2. Tok(ts, i) = EndOfText
    BY <2>1 DEF Tok
  <2>3. Lit(ts, i) = EndOfText
    BY <2>2, LitOf
  <2> QED BY <2>3, WordFacts
<1>2. Value(ts[i]) = Lit(ts, i)
  BY <1>1 DEF Lit, Tok
<1>3. Lit(ts, i) \notin Strings
  BY NoQuotes, WordFacts
<1> QED BY <1>1, <1>2, <1>3, NoQuotes

(* The tokens of a value. *)
ValueTokens == Idents \cup Strings \cup CompareOps \cup {"[", "]"}

(* A value that is read is what stands there. *)
LEMMA ValueSound ==
  ASSUME NEW ts, Len(ts) \in Nat, NEW i \in Nat \ {0}, ParseValue(ts, i).ok
  PROVE  LET r == ParseValue(ts, i) IN
         r.node \in Seq(ValueTokens) /\ Reads(ts, i, r.node, r.next) /\ r.next > i
<1> DEFINE r == ParseValue(ts, i)
           opened == Lit(ts, i) = "[" /\ Bound(ts, i + 1)
           closed == Lit(ts, i + 2) = "TO" /\ Bound(ts, i + 3) /\ Lit(ts, i + 4) = "]"
           compared == Lit(ts, i) \in CompareOps /\ Bound(ts, i + 1)
<1>1. \A k \in Nat : Bound(ts, k) => k <= Len(ts) /\ ts[k] \in Idents \cup Strings
  BY WordFacts, TokAt DEF Bound
<1>2. CASE opened /\ closed
  <2>1. r = Node(SubSeq(ts, i, i + 4), i + 5)
    <3>1. Lit(ts, i) \notin CompareOps
      BY <1>2, WordFacts, Marks
    <3> QED BY <1>2, <3>1 DEF ParseValue
  <2>2. /\ i + 4 <= Len(ts) /\ ts[i] \in Strings \cup {"["} /\ ts[i + 1] \in Idents \cup Strings
        /\ ts[i + 2] \in Strings \cup {"TO"} /\ ts[i + 3] \in Idents \cup Strings
        /\ ts[i + 4] \in Strings \cup {"]"}
    <3>1. i + 1 \in Nat /\ i + 3 \in Nat
      OBVIOUS
    <3>2. ts[i + 1] \in Idents \cup Strings /\ ts[i + 3] \in Idents \cup Strings
      BY <3>1, <1>1, <1>2
    <3>3. ts[i] \in Strings \cup {"["}
      BY <1>2, LitAt, Marks
    <3>4. ts[i + 4] \in Strings \cup {"]"} /\ i + 4 <= Len(ts)
      BY <1>2, LitAt, Marks
    <3>5. ts[i + 2] \in Strings \cup {"TO"}
      BY <1>2, LitAt DEF Keywords
    <3> QED BY <3>2, <3>3, <3>4, <3>5
  <2>3. \A k \in i .. i + 4 : ts[k] \in ValueTokens
    <3>1. "TO" \in Idents
      BY WordFacts DEF Keywords
    <3> QED BY <2>2, <3>1 DEF ValueTokens
  <2>4. /\ SubSeq(ts, i, i + 4) \in Seq(ValueTokens) /\ Len(SubSeq(ts, i, i + 4)) = 5
        /\ \A k \in 1 .. 5 : SubSeq(ts, i, i + 4)[k] = ts[i + k - 1]
    BY <2>3, SubSeqProperties
  <2> QED BY <2>1, <2>2, <2>4 DEF Reads, Node
<1>3. CASE ~(opened /\ closed) /\ compared
  <2>1. r = Node(SubSeq(ts, i, i + 1), i + 2)
    <3>1. Lit(ts, i) # "["
      BY <1>3 DEF CompareOps
    <3> QED BY <1>3, <3>1 DEF ParseValue
  <2>2. i + 1 <= Len(ts) /\ ts[i] \in Strings \cup CompareOps /\ ts[i + 1] \in Idents \cup Strings
    <3>1. ts[i] \in Strings \cup CompareOps
      BY <1>3, LitAt
    <3>2. i + 1 \in Nat
      OBVIOUS
    <3>3. i + 1 <= Len(ts) /\ ts[i + 1] \in Idents \cup Strings
      BY <1>1, <1>3, <3>2
    <3> HIDE DEF r, opened, closed, compared
    <3> QED BY <3>1, <3>3
  <2>3. \A k \in i .. i + 1 : ts[k] \in ValueTokens
    BY <2>2 DEF ValueTokens
  <2>4. /\ SubSeq(ts, i, i + 1) \in Seq(ValueTokens) /\ Len(SubSeq(ts, i, i + 1)) = 2
        /\ \A k \in 1 .. 2 : SubSeq(ts, i, i + 1)[k] = ts[i + k - 1]
    <3>1. i + 1 \in Int /\ (i + 1) - i + 1 = 2 /\ i <= i + 1
      OBVIOUS
    <3> HIDE DEF r, opened, closed, compared
    <3> QED BY <2>3, <3>1, SubSeqProperties, SMTT(20)
  <2> QED BY <2>1, <2>2, <2>4 DEF Reads, Node
<1>4. CASE Bound(ts, i) /\ ~opened /\ ~compared
  <2>1. r = Node(<<ts[i]>>, i + 1)
    BY <1>4 DEF ParseValue
  <2>2. i <= Len(ts) /\ ts[i] \in ValueTokens
    BY <1>1, <1>4 DEF ValueTokens
  <2>3. <<ts[i]>> \in Seq(ValueTokens)
    BY <2>2, Tuples
  <2>4. Reads(ts, i, <<ts[i]>>, i + 1)
    BY <2>2 DEF Reads
  <2>5. r.node = <<ts[i]>> /\ r.next = i + 1
    BY <2>1, NodeOf
  <2> HIDE DEF r
  <2> QED BY <2>3, <2>4, <2>5 DEF r
<1>5. CASE ~(opened /\ closed) /\ ~compared /\ ~(Bound(ts, i) /\ ~opened /\ ~compared)
  <2>1. r = Fail
    BY <1>5 DEF ParseValue
  <2> QED BY <2>1 DEF Fail
<1> HIDE DEF opened, closed, compared
<1> QED BY <1>2, <1>3, <1>4, <1>5

(* How a distance and a boost are written. *)
WriteFuzzy(z) == CASE z = NoFuzzy -> <<>> [] z = "" -> <<"~">> [] OTHER -> <<"~", z>>
WriteBoost(b) == IF b = NoBoost THEN <<>> ELSE <<"^", b>>

(* The distances that may be read. *)
Distances == Idents \cup {"", NoFuzzy}

(* A distance that is read, or none, is what stands there. *)
LEMMA FuzzySound ==
  ASSUME NEW ts, Len(ts) \in Nat, NEW i \in Nat \ {0}, i <= Len(ts) + 1
  PROVE  LET r == ParseFuzzy(ts, i) IN
         /\ r.node \in Distances
         /\ Spells(ts, i, WriteFuzzy(r.node), r.next) /\ r.next >= i
<1>1. CASE Lit(ts, i) # "~"
  <2>1. ParseFuzzy(ts, i) = Node(NoFuzzy, i)
    BY <1>1 DEF ParseFuzzy
  <2>2. WriteFuzzy(NoFuzzy) = <<>>
    BY WordFacts DEF WriteFuzzy
  <2>3. NoFuzzy \in Distances
    BY DEF Distances
  <2> QED BY <2>1, <2>2, <2>3, SpellsEmpty DEF Node
<1>2. CASE Lit(ts, i) = "~" /\ Tok(ts, i + 1) \in Idents
  <2>1. ParseFuzzy(ts, i) = Node(ts[i + 1], i + 2)
    BY <1>2 DEF ParseFuzzy
  <2>2. i + 1 <= Len(ts) /\ Value(ts[i]) = Value("~") /\ ts[i + 1] \in Idents
    BY <1>2, LitAt, TokAt, Marks
  <2>3. WriteFuzzy(ts[i + 1]) = <<"~", ts[i + 1]>>
    BY <2>2, WordFacts DEF WriteFuzzy
  <2>4. Spells(ts, i, WriteFuzzy(ts[i + 1]), i + 2) /\ i + 2 >= i
    <3> DEFINE mark == "~"
    <3>1. Value(ts[i]) = Value(mark) /\ WriteFuzzy(ts[i + 1]) = <<mark, ts[i + 1]>>
      BY <2>2, <2>3
    <3> HIDE DEF mark
    <3> QED BY <2>2, <3>1, SpellsTwo
  <2>5. ParseFuzzy(ts, i).node = ts[i + 1] /\ ParseFuzzy(ts, i).next = i + 2
    BY <2>1, NodeOf
  <2> QED BY <2>2, <2>4, <2>5 DEF Distances
<1>3. CASE Lit(ts, i) = "~" /\ Tok(ts, i + 1) \notin Idents
  <2> DEFINE bare == ""
  <2>1. ParseFuzzy(ts, i) = Node(bare, i + 1)
    BY <1>3 DEF ParseFuzzy
  <2>2. i <= Len(ts) /\ Value(ts[i]) = Value("~")
    BY <1>3, LitAt, Marks
  <2>3. WriteFuzzy(bare) = <<"~">> /\ bare \in Distances
    BY WordFacts DEF WriteFuzzy, Distances
  <2> HIDE DEF bare
  <2>4. Spells(ts, i, <<"~">>, i + 1) /\ i + 1 >= i
    BY <2>2, SpellsOne
  <2> QED BY <2>1, <2>3, <2>4, NodeOf
<1> QED BY <1>1, <1>2, <1>3

(* So is a boost. *)
LEMMA BoostSound ==
  ASSUME NEW ts, Len(ts) \in Nat, NEW i \in Nat \ {0}, i <= Len(ts) + 1
  PROVE  LET r == ParseBoost(ts, i) IN
         /\ r.node \in Idents \cup {NoBoost}
         /\ Spells(ts, i, WriteBoost(r.node), r.next) /\ r.next >= i
<1>1. CASE Lit(ts, i) = "^" /\ Tok(ts, i + 1) \in Idents
  <2>1. ParseBoost(ts, i) = Node(ts[i + 1], i + 2)
    BY <1>1 DEF ParseBoost
  <2>2. i + 1 <= Len(ts) /\ Value(ts[i]) = Value("^") /\ ts[i + 1] \in Idents
    BY <1>1, LitAt, TokAt, Marks
  <2>3. WriteBoost(ts[i + 1]) = <<"^", ts[i + 1]>>
    BY <2>2, WordFacts DEF WriteBoost
  <2>4. Spells(ts, i, WriteBoost(ts[i + 1]), i + 2) /\ i + 2 >= i
    <3> DEFINE mark == "^"
    <3>1. Value(ts[i]) = Value(mark) /\ WriteBoost(ts[i + 1]) = <<mark, ts[i + 1]>>
      BY <2>2, <2>3
    <3> HIDE DEF mark
    <3> QED BY <2>2, <3>1, SpellsTwo
  <2> QED BY <2>1, <2>2, <2>4, NodeOf
<1>2. CASE ~(Lit(ts, i) = "^" /\ Tok(ts, i + 1) \in Idents)
  <2>1. ParseBoost(ts, i) = Node(NoBoost, i)
    BY <1>2 DEF ParseBoost
  <2> QED BY <2>1, SpellsEmpty DEF WriteBoost, Node
<1> QED BY <1>1, <1>2

(* What may be read: expressions, clauses, operands and boosts without a stray token. *)
CleanExprs == {e \in Exprs : \A c \in Clauses(e) : ClauseOK(c)}
CleanClauses == {c \in AnyClauses : ClauseOK(c)}
CleanOperand == Operand(CleanExprs, CleanClauses)
Factors == Idents \cup {NoBoost}

(* What is read is made of fragments. *)
LEMMA CleanParts ==
  /\ ValueTokens \subseteq Fragments /\ Distances \subseteq Fragments /\ Factors \subseteq Fragments
  /\ Idents \subseteq Fragments
  /\ \A c : ClauseOK(c) <=> /\ c.field \in Idents /\ c.value \in Seq(ValueTokens)
                            /\ c.fuzzy \in Distances /\ c.boost \in Factors
  /\ CleanOperand \subseteq AnyOperand
<1>1. ValueTokens \subseteq Fragments
  BY Marks DEF ValueTokens, Fragments, Tokens
<1>2. Distances \subseteq Fragments /\ Factors \subseteq Fragments /\ Idents \subseteq Fragments
  BY DEF Distances, Factors, Fragments, Tokens
<1>3. CleanOperand \subseteq AnyOperand
  BY DEF CleanOperand, AnyOperand, Operand, CleanExprs, CleanClauses
<1> QED BY <1>1, <1>2, <1>3 DEF ClauseOK, ValueTokens, Distances, Factors

(* Distances and boosts are written as fragments. *)
LEMMA ModifiersWritten ==
  /\ \A z \in Fragments : WriteFuzzy(z) \in Seq(Fragments)
  /\ \A b \in Fragments : WriteBoost(b) \in Seq(Fragments)
<1>1. "~" \in Fragments /\ "^" \in Fragments
  BY Marks DEF Fragments, Tokens
<1>2. ASSUME NEW z \in Fragments PROVE WriteFuzzy(z) \in Seq(Fragments)
  <2>1. WriteFuzzy(z) \in {<<>>, <<"~">>, <<"~", z>>}
    BY DEF WriteFuzzy
  <2> QED BY <1>1, <2>1, Tuples
<1>3. ASSUME NEW b \in Fragments PROVE WriteBoost(b) \in Seq(Fragments)
  <2>1. WriteBoost(b) \in {<<>>, <<"^", b>>}
    BY DEF WriteBoost
  <2> QED BY <1>1, <2>1, Tuples
<1> QED BY <1>2, <1>3

(* A clause that is read is what stands there. *)
LEMMA ClauseSound ==
  ASSUME NEW ts, Len(ts) \in Nat, NEW i \in Nat \ {0}, ParseClause(ts, i).ok
  PROVE  LET r == ParseClause(ts, i) IN
         /\ r.node \in CleanClauses
         /\ Spells(ts, i, WriteClause(r.node), r.next) /\ r.next \in Nat /\ r.next > i
<1> DEFINE v == ParseValue(ts, i + 2)
           z == ParseFuzzy(ts, v.next)
           b == ParseBoost(ts, z.next)
           c == [field |-> ts[i], value |-> v.node, fuzzy |-> z.node, boost |-> b.node]
<1>1. /\ Tok(ts, i) \in Idents /\ Lit(ts, i + 1) = ":" /\ v.ok
      /\ ParseClause(ts, i) = Node(c, b.next)
  <2>1. ASSUME ~(Tok(ts, i) \in Idents /\ Lit(ts, i + 1) = ":" /\ v.ok)
        PROVE  FALSE
    <3>1. ParseClause(ts, i) = Fail
      BY <2>1 DEF ParseClause
    <3> QED BY <3>1 DEF Fail
  <2> QED BY <2>1 DEF ParseClause
<1>2. i + 1 <= Len(ts) /\ ts[i] \in Idents /\ Value(ts[i + 1]) = Value(":")
  BY <1>1, LitAt, TokAt, Marks
<1>3. v.node \in Seq(ValueTokens) /\ Spells(ts, i + 2, v.node, v.next) /\ v.next > i + 2
  <2>1. i + 2 \in Nat \ {0}
    OBVIOUS
  <2> HIDE DEF c, b, z
  <2> QED BY <1>1, <2>1, ValueSound, ReadsSpells
<1> HIDE DEF v
<1>4. v.node \in Seq(Fragments)
  BY <1>3, CleanParts, SeqMonotonic
<1>5. v.next \in Nat \ {0} /\ v.next <= Len(ts) + 1 /\ v.next > i
  BY <1>3, <1>4, SpellsBounds
<1>6. z.node \in Distances /\ Spells(ts, v.next, WriteFuzzy(z.node), z.next) /\ z.next >= v.next
  BY <1>5, FuzzySound
<1> HIDE DEF z
<1>7. WriteFuzzy(z.node) \in Seq(Fragments)
  BY <1>6, CleanParts, ModifiersWritten
<1>8. z.next \in Nat \ {0} /\ z.next <= Len(ts) + 1 /\ z.next > i
  BY <1>5, <1>6, <1>7, SpellsBounds
<1>9. b.node \in Factors /\ Spells(ts, z.next, WriteBoost(b.node), b.next) /\ b.next >= z.next
  BY <1>8, BoostSound DEF Factors
<1> HIDE DEF b
<1>10. WriteBoost(b.node) \in Seq(Fragments)
  BY <1>9, CleanParts, ModifiersWritten
<1>11. b.next \in Nat /\ b.next > i
  BY <1>8, <1>9, <1>10, SpellsBounds
<1>12. c \in CleanClauses
  BY <1>2, <1>3, <1>4, <1>6, <1>9, CleanParts DEF CleanClauses, AnyClauses
<1>13. Spells(ts, i, <<ts[i], ":">>, i + 2) /\ <<ts[i], ":">> \in Seq(Fragments)
  <2>1. Spells(ts, i, <<ts[i], ":">>, i + 2)
    <3> DEFINE mark == ":"
    <3>1. Value(ts[i + 1]) = Value(mark)
      BY <1>2
    <3> HIDE DEF mark
    <3>2. Spells(ts, i, <<ts[i], mark>>, i + 2)
      BY <1>2, <3>1, SpellsTwo
    <3> QED BY <3>2 DEF mark
  <2>2. ":" \in Fragments
    BY Marks DEF Fragments, Tokens
  <2> QED BY <1>2, <2>1, <2>2, CleanParts, Tuples
<1>14. Spells(ts, i, WriteClause(c), b.next)
  <2> DEFINE h == <<ts[i], ":">>
  <2>1. Spells(ts, i, h, i + 2) /\ h \in Seq(Fragments)
    BY <1>13
  <2>2. WriteClause(c) = ((h \o v.node) \o WriteFuzzy(z.node)) \o WriteBoost(b.node)
    BY DEF WriteClause, WriteFuzzy, WriteBoost
  <2> HIDE DEF h, c
  <2>3. h \o v.node \in Seq(Fragments) /\ Spells(ts, i, h \o v.node, v.next)
    BY <1>3, <1>4, <2>1, SpellsJoin, ConcatProperties
  <2>4. /\ (h \o v.node) \o WriteFuzzy(z.node) \in Seq(Fragments)
        /\ Spells(ts, i, (h \o v.node) \o WriteFuzzy(z.node), z.next)
    BY <1>6, <1>7, <2>3, SpellsJoin, ConcatProperties
  <2>5. Spells(ts, i, ((h \o v.node) \o WriteFuzzy(z.node)) \o WriteBoost(b.node), b.next)
    BY <1>9, <1>10, <2>4, SpellsJoin
  <2> QED BY <2>2, <2>5
<1> HIDE DEF c
<1> QED BY <1>1, <1>11, <1>12, <1>14, NodeOf

(* The parsers return what stands at i: of an expression, of further operands, of
   further conjunctions. *)
ExpressionRead(ts, i) ==
  LET r == ParseExpression(ts, i) IN
  r.ok => /\ r.node \in CleanExprs /\ r.next \in Nat /\ r.next > i
          /\ Spells(ts, i, Write(r.node), r.next)
AndOpsRead(ts, i) ==
  LET r == ParseAndOps(ts, i) IN
  /\ r.node \in Seq(CleanOperand) /\ r.next \in Nat /\ r.next >= i
  /\ Spells(ts, i, WriteAnd(r.node), r.next)
OrOpsRead(ts, i) ==
  LET r == ParseOrOps(ts, i) IN
  /\ r.node \in Seq(NonEmpty(CleanOperand)) /\ r.next \in Nat /\ r.next >= i
  /\ Spells(ts, i, WriteOrs(r.node), r.next)
ReadAt(ts, i) == ExpressionRead(ts, i) /\ AndOpsRead(ts, i) /\ OrOpsRead(ts, i)
ReadAfter(ts, i) == \A j \in i + 1 .. Len(ts) + 1 : ReadAt(ts, j)

(* What an operand is without AND and NOT. *)
WritePrimary(n) ==
  IF n.kind = "group" THEN <<"(">> \o Write(n.of) \o <<")">> ELSE WriteClause(n.of)

(* An operand is written as AND, NOT and the rest. *)
LEMMA OperandParts ==
  ASSUME NEW n \in AnyOperand
  PROVE  /\ WriteOperand(n) = (Optional(n.op, "AND") \o Optional(n.not, "NOT")) \o WritePrimary(n)
         /\ Optional(n.op, "AND") \in Seq(Fragments) /\ Optional(n.not, "NOT") \in Seq(Fragments)
         /\ WritePrimary(n) \in Seq(Fragments)
<1>1. Optional(n.op, "AND") \in Seq(Fragments) /\ Optional(n.not, "NOT") \in Seq(Fragments)
  BY OptionalType DEF Keywords
<1>2. WritePrimary(n) \in Seq(Fragments)
  <2>1. CASE n.kind = "group"
    <3>1. <<"(">> \in Seq(Fragments) /\ <<")">> \in Seq(Fragments)
      BY Marks, Tuples DEF Fragments, Tokens
    <3>2. Write(n.of) \in Seq(Fragments)
      BY <2>1, OperandShape, WriteType
    <3>3. <<"(">> \o Write(n.of) \in Seq(Fragments)
      BY <3>1, <3>2, ConcatProperties
    <3>4. WritePrimary(n) = (<<"(">> \o Write(n.of)) \o <<")">>
      BY <2>1 DEF WritePrimary
    <3> QED BY <3>1, <3>3, <3>4, ConcatProperties
  <2>2. CASE n.kind # "group"
    BY <2>2, OperandShape, WriteClauseType DEF WritePrimary
  <2> QED BY <2>1, <2>2
<1> QED BY <1>1, <1>2 DEF WriteOperand, WritePrimary

(* A keyword that is seen, or none, is what stands there. *)
LEMMA SpellsOptional ==
  ASSUME NEW ts, Len(ts) \in Nat, NEW i \in Nat, i <= Len(ts) + 1, NEW b \in BOOLEAN,
         NEW t \in Keywords, b => Lit(ts, i) = t
  PROVE  Spells(ts, i, Optional(b, t), IF b THEN i + 1 ELSE i)
<1>1. CASE b
  <2>1. i <= Len(ts) /\ Value(ts[i]) = Value(t)
    BY <1>1, LitAt
  <2>2. Optional(b, t) = <<t>>
    BY <1>1 DEF Optional
  <2> QED BY <1>1, <2>1, <2>2, SpellsOne
<1>2. CASE ~b
  BY <1>2, SpellsEmpty DEF Optional
<1> QED BY <1>1, <1>2

(* A group or a clause that is read is what stands there. *)
LEMMA PrimarySound ==
  ASSUME NEW ts \in Texts, NEW i \in Nat \ {0}, NEW op \in BOOLEAN, NEW not \in BOOLEAN,
         ReadAfter(ts, i), ParsePrimary(ts, i, op, not).ok
  PROVE  LET r == ParsePrimary(ts, i, op, not) IN
         /\ r.node \in CleanOperand /\ r.node.op = op /\ r.node.not = not
         /\ r.next \in Nat /\ r.next > i /\ r.next <= Len(ts) + 1
         /\ Spells(ts, i, WritePrimary(r.node), r.next)
<1> DEFINE n(k, x) == [op |-> op, not |-> not, kind |-> k, of |-> x]
           group == ParseExpression(ts, i + 1)
           clause == ParseClause(ts, i)
           r == ParsePrimary(ts, i, op, not)
<1>0. Len(ts) \in Nat
  BY TextShape
<1>1. CASE Lit(ts, i) = "("
  <2>1. group.ok /\ Lit(ts, group.next) = ")" /\ r = Node(n("group", group.node), group.next + 1)
    <3>1. ASSUME ~(group.ok /\ Lit(ts, group.next) = ")") PROVE r = Fail
      BY <1>1, <3>1 DEF ParsePrimary
    <3>2. group.ok /\ Lit(ts, group.next) = ")"
      BY <3>1 DEF Fail
    <3> QED BY <1>1, <3>2 DEF ParsePrimary
  <2>2. i <= Len(ts) /\ Value(ts[i]) = Value("(")
    BY <1>1, LitAt, Marks
  <2>3. ExpressionRead(ts, i + 1)
    <3>1. i + 1 \in i + 1 .. Len(ts) + 1
      BY <1>0, <2>2
    <3> QED BY <3>1 DEF ReadAfter, ReadAt
  <2> DEFINE e == group.node
             j == group.next
  <2>4. e \in CleanExprs /\ j \in Nat /\ j > i + 1 /\ Spells(ts, i + 1, Write(e), j)
    BY <2>1, <2>3 DEF ExpressionRead
  <2>5. r = Node(n("group", e), j + 1) /\ Lit(ts, j) = ")"
    BY <2>1
  <2> HIDE DEF r, e, j
  <2>6. j <= Len(ts) /\ Value(ts[j]) = Value(")")
    BY <2>5, LitAt, Marks
  <2>7. n("group", e) \in CleanOperand
    BY <2>4 DEF CleanOperand, Operand
  <2>8. WritePrimary(n("group", e)) = (<<"(">> \o Write(e)) \o <<")">>
    BY DEF WritePrimary
  <2>9. Write(e) \in Seq(Fragments) /\ <<"(">> \in Seq(Fragments) /\ <<")">> \in Seq(Fragments)
    BY <2>4, WriteType, Marks, Tuples DEF Fragments, Tokens, CleanExprs
  <2>10. Spells(ts, i, <<"(">> \o Write(e), j) /\ <<"(">> \o Write(e) \in Seq(Fragments)
    <3>1. Spells(ts, i, <<"(">>, i + 1)
      BY <1>0, <2>2, SpellsOne
    <3> QED BY <1>0, <2>4, <2>9, <3>1, SpellsJoin, ConcatProperties
  <2>11. Spells(ts, j, <<")">>, j + 1)
    BY <1>0, <2>4, <2>6, SpellsOne
  <2>12. Spells(ts, i, (<<"(">> \o Write(e)) \o <<")">>, j + 1)
    BY <1>0, <2>9, <2>10, <2>11, SpellsJoin
  <2>13. j + 1 \in Nat /\ j + 1 > i /\ j + 1 <= Len(ts) + 1
    BY <1>0, <2>4, <2>6
  <2>14. n("group", e).op = op /\ n("group", e).not = not
    OBVIOUS
  <2> DEFINE g == n("group", e)
  <2> HIDE DEF g
  <2>15. r.node = g /\ r.next = j + 1
    BY <2>5, NodeOf DEF g
  <2> QED BY <2>7, <2>8, <2>12, <2>13, <2>14, <2>15 DEF r, g
<1>2. CASE Lit(ts, i) # "("
  <2>1. clause.ok /\ r = Node(n("clause", clause.node), clause.next)
    <3>1. ASSUME ~clause.ok PROVE r = Fail
      BY <1>2, <3>1 DEF ParsePrimary
    <3>2. clause.ok
      BY <3>1 DEF Fail
    <3> QED BY <1>2, <3>2 DEF ParsePrimary
  <2> DEFINE c == clause.node
             j == clause.next
  <2>2. /\ c \in CleanClauses /\ Spells(ts, i, WriteClause(c), j) /\ j \in Nat /\ j > i
    BY <1>0, <2>1, ClauseSound
  <2>3. r = Node(n("clause", c), j)
    BY <2>1
  <2> HIDE DEF r, c, j
  <2>4. n("clause", c) \in CleanOperand
    BY <2>2 DEF CleanOperand, Operand
  <2>5. WritePrimary(n("clause", c)) = WriteClause(c)
    BY DEF WritePrimary
  <2>6. j <= Len(ts) + 1
    BY <2>2 DEF Spells
  <2> QED BY <2>2, <2>3, <2>4, <2>5, <2>6, NodeOf DEF r
<1> QED BY <1>1, <1>2

(* op says whether an AND stands at i; the operand follows it. *)
LEMMA OperandSound ==
  ASSUME NEW ts \in Texts, NEW i \in Nat \ {0}, NEW op \in BOOLEAN, op => Lit(ts, i) = "AND",
         ReadAfter(ts, i), ParseOperand(ts, IF op THEN i + 1 ELSE i, op).ok
  PROVE  LET r == ParseOperand(ts, IF op THEN i + 1 ELSE i, op) IN
         /\ r.node \in CleanOperand
         /\ r.next \in Nat /\ r.next > i /\ r.next <= Len(ts) + 1
         /\ Spells(ts, i, WriteOperand(r.node), r.next)
<1> DEFINE k == IF op THEN i + 1 ELSE i
           not == Lit(ts, k) = "NOT"
           m == IF not THEN k + 1 ELSE k
           r == ParsePrimary(ts, m, op, not)
<1>0. Len(ts) \in Nat
  BY TextShape
<1>1. ParseOperand(ts, k, op) = r
  BY DEF ParseOperand
<1>2. /\ k \in Nat \ {0} /\ k >= i /\ m \in Nat \ {0} /\ m >= k /\ not \in BOOLEAN
      /\ not => Lit(ts, k) = "NOT"
  OBVIOUS
<1>3. ReadAfter(ts, m)
  <2> HIDE DEF k, m, not
  <2>1. m + 1 .. Len(ts) + 1 \subseteq i + 1 .. Len(ts) + 1
    BY <1>0, <1>2
  <2> QED BY <2>1 DEF ReadAfter
<1>4. /\ r.node \in CleanOperand /\ r.node.op = op /\ r.node.not = not
      /\ r.next \in Nat /\ r.next > m /\ r.next <= Len(ts) + 1
      /\ Spells(ts, m, WritePrimary(r.node), r.next)
  <2>1. r.ok
    BY <1>1
  <2> HIDE DEF k, m, not
  <2> QED BY <1>2, <1>3, <2>1, PrimarySound
<1>5. Spells(ts, i, Optional(op, "AND"), k)
  <2>1. i <= Len(ts) + 1
    <3> HIDE DEF r, k, m
    <3> QED BY <1>0, <1>2, <1>4
  <2> QED BY <1>0, <2>1, SpellsOptional DEF Keywords
<1>6. Spells(ts, k, Optional(not, "NOT"), m)
  <2>1. k <= Len(ts) + 1
    <3> HIDE DEF r, k, m
    <3> QED BY <1>0, <1>2, <1>4
  <2> HIDE DEF k, not, r
  <2> QED BY <1>0, <1>2, <2>1, SpellsOptional DEF Keywords
<1> DEFINE n == r.node
<1>7. n \in AnyOperand
  <2> HIDE DEF r
  <2> QED BY <1>4, CleanParts
<1>8. /\ WriteOperand(n) = (Optional(op, "AND") \o Optional(not, "NOT")) \o WritePrimary(n)
      /\ Optional(op, "AND") \in Seq(Fragments) /\ Optional(not, "NOT") \in Seq(Fragments)
      /\ WritePrimary(n) \in Seq(Fragments)
  <2> HIDE DEF not, r, n
  <2>1. n.op = op /\ n.not = not
    BY <1>4 DEF n
  <2> QED BY <1>7, <2>1, OperandParts
<1>9. n \in CleanOperand /\ Spells(ts, m, WritePrimary(n), r.next)
  BY <1>4
<1> HIDE DEF k, m, not, n
<1>10. /\ Spells(ts, i, Optional(op, "AND") \o Optional(not, "NOT"), m)
       /\ Optional(op, "AND") \o Optional(not, "NOT") \in Seq(Fragments)
  BY <1>0, <1>5, <1>6, <1>8, SpellsJoin, ConcatProperties
<1> HIDE DEF r
<1>11. Spells(ts, i, WriteOperand(n), r.next)
  BY <1>0, <1>8, <1>9, <1>10, SpellsJoin
<1>12. r.next \in Nat /\ r.next > i /\ r.next <= Len(ts) + 1
  BY <1>0, <1>2, <1>4
<1> QED BY <1>1, <1>9, <1>11, <1>12 DEF n, k

(* What the parsers are by definition, at every place of a text. *)
LEMMA Unfold ==
  ASSUME NEW ts \in Texts, NEW i \in 1 .. Len(ts) + 1
  PROVE  /\ ParseExpression(ts, i) = ParseExpressionDef(ts, i)
         /\ ParseAndOps(ts, i) = ParseAndOpsDef(ts, i)
         /\ ParseOrOps(ts, i) = ParseOrOpsDef(ts, i)
BY RecursionAssumption

(* Sequences of what may be read are sequences of what may be written. *)
LEMMA CleanSeqs ==
  /\ Seq(CleanOperand) \subseteq Seq(AnyOperand)
  /\ NonEmpty(CleanOperand) \subseteq Seq(CleanOperand)
  /\ Seq(NonEmpty(CleanOperand)) \subseteq Seq(Seq(AnyOperand))
<1>1. Seq(CleanOperand) \subseteq Seq(AnyOperand)
  BY CleanParts, SeqMonotonic
<1>2. NonEmpty(CleanOperand) \subseteq Seq(CleanOperand)
  BY DEF NonEmpty
<1>3. NonEmpty(CleanOperand) \subseteq Seq(AnyOperand)
  BY <1>1, <1>2
<1> QED BY <1>1, <1>2, <1>3, SeqMonotonic

(* Operands that are read are what stands there. *)
LEMMA AndOpsSound ==
  ASSUME NEW ts \in Texts, NEW i \in 1 .. Len(ts) + 1, ReadAfter(ts, i)
  PROVE  AndOpsRead(ts, i)
<1> DEFINE op == Lit(ts, i) = "AND"
           k == IF op THEN i + 1 ELSE i
           first == ParseOperand(ts, k, op)
           more == ParseAndOps(ts, first.next)
           r == ParseAndOps(ts, i)
<1>0. Len(ts) \in Nat /\ i \in Nat \ {0} /\ op \in BOOLEAN
  BY TextShape
<1>1. r = IF first.ok THEN Node(<<first.node>> \o more.node, more.next) ELSE Node(<<>>, i)
  BY Unfold DEF ParseAndOpsDef
<1>2. CASE ~first.ok
  <2>1. r = Node(<<>>, i)
    BY <1>1, <1>2
  <2>2. <<>> \in Seq(CleanOperand) /\ Spells(ts, i, WriteAnd(<<>>), i)
    BY <1>0, WriteAndEmpty, SpellsEmpty
  <2> HIDE DEF r
  <2>3. r.node = <<>> /\ r.next = i
    BY <2>1, NodeOf
  <2> QED BY <1>0, <2>2, <2>3 DEF AndOpsRead, r
<1>3. CASE first.ok
  <2> DEFINE n == first.node
             j == first.next
             a == more.node
             l == more.next
  <2>1. n \in CleanOperand /\ j \in Nat /\ j > i /\ j <= Len(ts) + 1 /\ Spells(ts, i, WriteOperand(n), j)
    <3> HIDE DEF op
    <3>1. op => Lit(ts, i) = "AND"
      BY DEF op
    <3> QED BY <1>0, <1>3, <3>1, OperandSound
  <2>2. AndOpsRead(ts, j)
    <3> HIDE DEF j
    <3>1. j \in i + 1 .. Len(ts) + 1
      BY <1>0, <2>1
    <3> QED BY <3>1 DEF ReadAfter, ReadAt
  <2>3. a \in Seq(CleanOperand) /\ l \in Nat /\ l >= j /\ Spells(ts, j, WriteAnd(a), l)
    BY <2>2 DEF AndOpsRead
  <2>4. r = Node(<<n>> \o a, l)
    BY <1>1, <1>3
  <2> HIDE DEF n, j, a, l, r
  <2>5. n \in AnyOperand /\ a \in Seq(AnyOperand) /\ <<n>> \o a \in Seq(CleanOperand)
    BY <2>1, <2>3, CleanParts, CleanSeqs, ConsShape
  <2>6. WriteAnd(<<n>> \o a) = WriteOperand(n) \o WriteAnd(a)
    BY <2>5, WriteAndCons
  <2>7. Spells(ts, i, WriteAnd(<<n>> \o a), l)
    BY <1>0, <2>1, <2>3, <2>5, <2>6, SpellsJoin, OperandsWritten, ConjunctionsWritten
  <2>8. r.node = <<n>> \o a /\ r.next = l /\ l \in Nat /\ l >= i
    <3>1. r.node = <<n>> \o a /\ r.next = l
      BY <2>4, NodeOf
    <3> QED BY <1>0, <2>1, <2>3, <3>1
  <2> QED BY <2>5, <2>7, <2>8 DEF AndOpsRead, r
<1> QED BY <1>2, <1>3

(* So is a conjunction, ... *)
LEMMA AndSound ==
  ASSUME NEW ts \in Texts, NEW i \in 1 .. Len(ts) + 1, ReadAfter(ts, i), ParseAnd(ts, i).ok
  PROVE  LET r == ParseAnd(ts, i) IN
         /\ r.node \in NonEmpty(CleanOperand) /\ r.next \in Nat /\ r.next > i /\ r.next <= Len(ts) + 1
         /\ Spells(ts, i, WriteAnd(r.node), r.next)
<1> DEFINE first == ParseOperand(ts, i, FALSE)
           more == ParseAndOps(ts, first.next)
           r == ParseAnd(ts, i)
           n == first.node
           j == first.next
           a == more.node
           l == more.next
<1>0. Len(ts) \in Nat /\ i \in Nat \ {0}
  BY TextShape
<1>1. first.ok /\ r = Node(<<n>> \o a, l)
  <2>1. ASSUME ~first.ok PROVE r = Fail
    BY <2>1 DEF ParseAnd
  <2>2. ~Fail.ok /\ r.ok
    BY DEF Fail
  <2>3. first.ok
    BY <2>1, <2>2
  <2> QED BY <2>3 DEF ParseAnd
<1>2. n \in CleanOperand /\ j \in Nat /\ j > i /\ j <= Len(ts) + 1 /\ Spells(ts, i, WriteOperand(n), j)
  BY <1>0, <1>1, OperandSound
<1>3. AndOpsRead(ts, j)
  <2> HIDE DEF j
  <2>1. j \in i + 1 .. Len(ts) + 1
    BY <1>0, <1>2
  <2> QED BY <2>1 DEF ReadAfter, ReadAt
<1>4. a \in Seq(CleanOperand) /\ l \in Nat /\ l >= j /\ Spells(ts, j, WriteAnd(a), l)
  BY <1>3 DEF AndOpsRead
<1> HIDE DEF n, j, a, l, r
<1>5. n \in AnyOperand /\ a \in Seq(AnyOperand) /\ <<n>> \o a \in Seq(CleanOperand) /\ <<n>> \o a # <<>>
  BY <1>2, <1>4, CleanParts, CleanSeqs, ConsShape
<1>6. WriteAnd(<<n>> \o a) = WriteOperand(n) \o WriteAnd(a)
  BY <1>5, WriteAndCons
<1>7. Spells(ts, i, WriteAnd(<<n>> \o a), l)
  BY <1>0, <1>2, <1>4, <1>5, <1>6, SpellsJoin, OperandsWritten, ConjunctionsWritten
<1>8. r.node = <<n>> \o a /\ r.next = l /\ l \in Nat /\ l > i
  <2>1. r.node = <<n>> \o a /\ r.next = l
    BY <1>1, NodeOf
  <2> QED BY <1>0, <1>2, <1>4, <2>1
<1>9. l <= Len(ts) + 1
  BY <1>7 DEF Spells
<1> QED BY <1>5, <1>7, <1>8, <1>9 DEF NonEmpty, r

(* ... further conjunctions, ... *)
LEMMA OrOpsSound ==
  ASSUME NEW ts \in Texts, NEW i \in 1 .. Len(ts) + 1, ReadAfter(ts, i)
  PROVE  OrOpsRead(ts, i)
<1> DEFINE first == ParseAnd(ts, i + 1)
           more == ParseOrOps(ts, first.next)
           r == ParseOrOps(ts, i)
           a == first.node
           j == first.next
           o == more.node
           l == more.next
<1>0. Len(ts) \in Nat /\ i \in Nat \ {0}
  BY TextShape
<1>1. r = IF Lit(ts, i) = "OR" /\ first.ok THEN Node(<<a>> \o o, l) ELSE Node(<<>>, i)
  BY Unfold DEF ParseOrOpsDef
<1>2. CASE ~(Lit(ts, i) = "OR" /\ first.ok)
  <2>1. r = Node(<<>>, i)
    BY <1>1, <1>2
  <2>2. <<>> \in Seq(NonEmpty(CleanOperand)) /\ Spells(ts, i, WriteOrs(<<>>), i)
    BY <1>0, WriteOrsEmpty, SpellsEmpty
  <2> HIDE DEF r
  <2>3. r.node = <<>> /\ r.next = i
    BY <2>1, NodeOf
  <2> QED BY <1>0, <2>2, <2>3 DEF OrOpsRead, r
<1>3. CASE Lit(ts, i) = "OR" /\ first.ok
  <2>0. i <= Len(ts) /\ Value(ts[i]) = Value("OR")
    BY <1>3, LitAt DEF Keywords
  <2>1. /\ a \in NonEmpty(CleanOperand) /\ j \in Nat /\ j > i + 1 /\ j <= Len(ts) + 1
        /\ Spells(ts, i + 1, WriteAnd(a), j)
    <3>1. i + 1 \in 1 .. Len(ts) + 1
      BY <1>0, <2>0
    <3>2. ReadAfter(ts, i + 1)
      BY <1>0 DEF ReadAfter
    <3> QED BY <1>3, <3>1, <3>2, AndSound
  <2>2. OrOpsRead(ts, j)
    <3> HIDE DEF j
    <3>1. j \in i + 1 .. Len(ts) + 1
      BY <1>0, <2>1
    <3> QED BY <3>1 DEF ReadAfter, ReadAt
  <2>3. o \in Seq(NonEmpty(CleanOperand)) /\ l \in Nat /\ l >= j /\ Spells(ts, j, WriteOrs(o), l)
    BY <2>2 DEF OrOpsRead
  <2>4. r = Node(<<a>> \o o, l)
    BY <1>1, <1>3
  <2> HIDE DEF a, j, o, l, r
  <2>5. /\ a \in Seq(AnyOperand) /\ o \in Seq(Seq(AnyOperand))
        /\ <<a>> \o o \in Seq(NonEmpty(CleanOperand))
    BY <2>1, <2>3, CleanSeqs, ConsShape
  <2>6. WriteOrs(<<a>> \o o) = (<<"OR">> \o WriteAnd(a)) \o WriteOrs(o)
    BY <2>5, WriteOrsCons
  <2>7. Spells(ts, i, <<"OR">> \o WriteAnd(a), j)
    <3>1. Spells(ts, i, <<"OR">>, i + 1)
      BY <1>0, <2>0, SpellsOne
    <3>2. <<"OR">> \in Seq(Fragments)
      BY WordFacts, CleanParts, Tuples DEF Keywords
    <3> QED BY <1>0, <2>1, <2>5, <3>1, <3>2, SpellsJoin, ConjunctionsWritten
  <2>8. Spells(ts, i, WriteOrs(<<a>> \o o), l)
    BY <1>0, <2>3, <2>5, <2>6, <2>7, SpellsJoin, OrWritten, OrsWritten
  <2>9. r.node = <<a>> \o o /\ r.next = l /\ l \in Nat /\ l >= i
    <3>1. r.node = <<a>> \o o /\ r.next = l
      BY <2>4, NodeOf
    <3> QED BY <1>0, <2>1, <2>3, <3>1
  <2> QED BY <2>5, <2>8, <2>9 DEF OrOpsRead, r
<1> QED BY <1>2, <1>3

(* The clauses of an expression of clean operands are clean. *)
LEMMA CleanJoin ==
  ASSUME NEW e \in Exprs, e \in Seq(Seq(CleanOperand))
  PROVE  e \in CleanExprs
<1>1. Clauses(e) = ClausesDef(e)
  BY RecursionAssumption
<1>2. ASSUME NEW c \in ClausesDef(e) PROVE ClauseOK(c)
  <2>1. PICK a \in ToSet(e) : c \in UNION {IF n.kind = "group" THEN Clauses(n.of) ELSE {n.of} : n \in ToSet(a)}
    BY DEF ClausesDef
  <2>2. PICK n \in ToSet(a) : c \in IF n.kind = "group" THEN Clauses(n.of) ELSE {n.of}
    BY <2>1
  <2>3. a \in Seq(CleanOperand)
    BY LenProperties, ElementOfSeq DEF ToSet
  <2>4. n \in CleanOperand
    BY <2>3, LenProperties, ElementOfSeq DEF ToSet
  <2> QED BY <2>2, <2>4 DEF CleanOperand, Operand, CleanExprs, CleanClauses
<1> QED BY <1>1, <1>2 DEF CleanExprs

(* ... and an expression. *)
LEMMA ExpressionSound ==
  ASSUME NEW ts \in Texts, NEW i \in 1 .. Len(ts) + 1, ReadAfter(ts, i)
  PROVE  ExpressionRead(ts, i)
<1> DEFINE first == ParseAnd(ts, i)
           more == ParseOrOps(ts, first.next)
           r == ParseExpression(ts, i)
           a == first.node
           j == first.next
           o == more.node
           l == more.next
<1>0. Len(ts) \in Nat /\ i \in Nat \ {0}
  BY TextShape
<1>1. r = IF first.ok THEN Node(<<a>> \o o, l) ELSE Fail
  BY Unfold DEF ParseExpressionDef
<1>2. CASE ~first.ok
  BY <1>1, <1>2 DEF ExpressionRead, Fail
<1>3. CASE first.ok
  <2>1. /\ a \in NonEmpty(CleanOperand) /\ j \in Nat /\ j > i /\ j <= Len(ts) + 1
        /\ Spells(ts, i, WriteAnd(a), j)
    BY <1>3, AndSound
  <2>2. OrOpsRead(ts, j)
    <3> HIDE DEF j
    <3>1. j \in i + 1 .. Len(ts) + 1
      BY <1>0, <2>1
    <3> QED BY <3>1 DEF ReadAfter, ReadAt
  <2>3. o \in Seq(NonEmpty(CleanOperand)) /\ l \in Nat /\ l >= j /\ Spells(ts, j, WriteOrs(o), l)
    BY <2>2 DEF OrOpsRead
  <2>4. r = Node(<<a>> \o o, l) /\ r.ok
    BY <1>1, <1>3, NodeOf
  <2>5. i \in 1 .. Len(ts)
    <3> HIDE DEF j
    <3> QED BY <1>0, <2>1
  <2>6. r.node \in Exprs
    <3> HIDE DEF r
    <3> QED BY <2>4, <2>5, ExprsAssumption DEF r
  <2> HIDE DEF a, j, o, l, r
  <2>7. /\ a \in Seq(AnyOperand) /\ o \in Seq(Seq(AnyOperand))
        /\ <<a>> \o o \in Seq(NonEmpty(CleanOperand))
    BY <2>1, <2>3, CleanSeqs, ConsShape
  <2>8. r.node = <<a>> \o o /\ r.next = l /\ l \in Nat /\ l > i
    <3>1. r.node = <<a>> \o o /\ r.next = l
      BY <2>4, NodeOf
    <3> QED BY <1>0, <2>1, <2>3, <3>1
  <2>9. r.node \in CleanExprs
    BY <2>6, <2>7, <2>8, CleanSeqs, SeqMonotonic, CleanJoin
  <2>10. Write(r.node) = WriteAnd(a) \o WriteOrs(o)
    BY <2>6, <2>7, <2>8, WriteOrsCons, RecursionAssumption
  <2>11. Spells(ts, i, Write(r.node), l)
    BY <1>0, <2>1, <2>3, <2>7, <2>10, SpellsJoin, ConjunctionsWritten, OrsWritten
  <2> QED BY <2>8, <2>9, <2>11 DEF ExpressionRead, r
<1> QED BY <1>2, <1>3

(* Whatever is read at a place of a text is what stands there. *)
LEMMA AllRead ==
  ASSUME NEW ts \in Texts, NEW i \in 1 .. Len(ts) + 1
  PROVE  ReadAt(ts, i)
<1>0. Len(ts) \in Nat
  BY TextShape
<1> DEFINE Bad == {n \in 0 .. Len(ts) : ~ReadAt(ts, Len(ts) + 1 - n)}
<1>1. SUFFICES ASSUME Bad # {} PROVE FALSE
  <2>1. Len(ts) + 1 - i \in 0 .. Len(ts) /\ Len(ts) + 1 - (Len(ts) + 1 - i) = i
    BY <1>0
  <2> QED BY <2>1
<1>2. PICK m \in Bad : \A n \in Bad : m <= n
  <2>1. Bad \in SUBSET Nat
    BY <1>0
  <2> QED BY <1>1, <2>1, Least
<1> DEFINE k == Len(ts) + 1 - m
<1>3. m \in 0 .. Len(ts) /\ ~ReadAt(ts, k)
  OBVIOUS
<1>4. ASSUME NEW j \in k + 1 .. Len(ts) + 1 PROVE ReadAt(ts, j)
  <2>1. /\ Len(ts) + 1 - j \in 0 .. Len(ts) /\ Len(ts) + 1 - j < m
        /\ Len(ts) + 1 - (Len(ts) + 1 - j) = j
    BY <1>0, <1>3
  <2>2. Len(ts) + 1 - j \notin Bad
    <3> HIDE DEF Bad
    <3> QED BY <1>0, <1>2, <1>3, <2>1
  <2> QED BY <2>1, <2>2
<1>5. k \in 1 .. Len(ts) + 1 /\ ReadAfter(ts, k)
  BY <1>0, <1>3, <1>4 DEF ReadAfter
<1> HIDE DEF k, Bad
<1> QED BY <1>3, <1>5, AndOpsSound, OrOpsSound, ExpressionSound DEF ReadAt

(* A text that is accepted is, quotes apart, what its tree is written as. *)
LEMMA AcceptedWhole ==
  ASSUME NEW ts \in Texts, ParseText(ts).ok
  PROVE  ParseText(ts).node \in CleanExprs /\ Unquote(Write(ParseText(ts).node)) = Unquote(ts)
<1> DEFINE r == ParseExpression(ts, 1)
           e == r.node
<1>0. Len(ts) \in Nat /\ ts \in Seq(Fragments)
  BY TextShape
<1>1. r.ok /\ r.next = Len(ts) + 1 /\ ParseText(ts) = r
  <2>1. ASSUME ~(r.ok /\ r.next = Len(ts) + 1) PROVE FALSE
    <3>1. ParseText(ts) = Fail
      BY <2>1 DEF ParseText
    <3> QED BY <3>1 DEF Fail
  <2> QED BY <2>1 DEF ParseText
<1>2. e \in CleanExprs /\ Spells(ts, 1, Write(e), Len(ts) + 1)
  <2>1. 1 \in 1 .. Len(ts) + 1
    BY <1>0
  <2> QED BY <1>1, <2>1, AllRead DEF ReadAt, ExpressionRead
<1> HIDE DEF r, e
<1>3. Write(e) \in Seq(Fragments)
  BY <1>2, WriteType DEF CleanExprs
<1>4. Len(Write(e)) = Len(ts)
  BY <1>0, <1>2, <1>3, LenProperties DEF Spells
<1>5. \A k \in 1 .. Len(ts) : Value(ts[k]) = Value(Write(e)[k])
  <2>1. \A k \in 1 .. Len(ts) : Value(ts[1 + k - 1]) = Value(Write(e)[k]) /\ 1 + k - 1 = k
    BY <1>0, <1>2, <1>4 DEF Spells
  <2> QED BY <2>1
<1>6. Unquote(Write(e)) = Unquote(ts)
  <2>1. DOMAIN Write(e) = 1 .. Len(ts) /\ DOMAIN ts = 1 .. Len(ts)
    BY <1>0, <1>3, <1>4, LenProperties
  <2> QED BY <1>5, <2>1 DEF Unquote
<1> QED BY <1>1, <1>2, <1>6 DEF r, e
-----------------------------------------------------------------------------
(* What the walk does to an expression. *)

(* What the walk makes of an operand. *)
Walked(n) == [n EXCEPT !.of = IF n.kind = "group" THEN WalkClauses(n.of) ELSE Canonized(n.of)]

(* The walk changes nothing else. *)
LEMMA WalkedOperand ==
  ASSUME NEW n \in AnyOperand
  PROVE  /\ Walked(n).op = n.op /\ Walked(n).not = n.not /\ Walked(n).kind = n.kind
         /\ n.kind = "group" => Walked(n).of = WalkClauses(n.of)
         /\ n.kind # "group" => Walked(n).of = Canonized(n.of)
BY OperandShape DEF Walked

(* Equal intervals have equal ends. *)
LEMMA SameLength ==
  ASSUME NEW m \in Nat, NEW n \in Nat, 1 .. m = 1 .. n
  PROVE  m = n
<1>1. m \in 1 .. m \/ m = 0
  OBVIOUS
<1>2. n \in 1 .. n \/ n = 0
  OBVIOUS
<1> QED BY <1>1, <1>2

(* The walk keeps the shape of an expression. *)
LEMMA WalkedShape ==
  ASSUME NEW e \in Exprs
  PROVE  /\ WalkClauses(e) \in Exprs
         /\ Len(WalkClauses(e)) = Len(e) /\ DOMAIN WalkClauses(e) = 1 .. Len(e)
         /\ \A k \in 1 .. Len(e) :
              /\ Len(WalkClauses(e)[k]) = Len(e[k])
              /\ \A j \in 1 .. Len(e[k]) : WalkClauses(e)[k][j] = Walked(e[k][j])
<1> DEFINE w == WalkClauses(e)
<1>1. w = [k \in DOMAIN e |-> [j \in DOMAIN e[k] |-> Walked(e[k][j])]]
  BY RecursionAssumption DEF WalkClausesDef, Walked
<1>2. w \in Exprs
  BY ExprsAssumption
<1> HIDE DEF w
<1>3. DOMAIN e = 1 .. Len(e) /\ DOMAIN w = 1 .. Len(w) /\ Len(e) \in Nat /\ Len(w) \in Nat
  BY <1>2, ExprShape
<1>4. DOMAIN w = DOMAIN e
  BY <1>1
<1>5. Len(w) = Len(e)
  BY <1>3, <1>4, SameLength
<1>6. ASSUME NEW k \in 1 .. Len(e)
      PROVE  Len(w[k]) = Len(e[k]) /\ \A j \in 1 .. Len(e[k]) : w[k][j] = Walked(e[k][j])
  <2>1. w[k] = [j \in DOMAIN e[k] |-> Walked(e[k][j])]
    BY <1>1, <1>3
  <2>2. /\ DOMAIN e[k] = 1 .. Len(e[k]) /\ Len(e[k]) \in Nat
        /\ DOMAIN w[k] = 1 .. Len(w[k]) /\ Len(w[k]) \in Nat
    BY <1>2, <1>5, ExprShape
  <2>3. DOMAIN w[k] = DOMAIN e[k]
    BY <2>1
  <2> QED BY <2>1, <2>2, <2>3
<1> QED BY <1>2, <1>3, <1>4, <1>5, <1>6 DEF w

(* Where a clause of an expression is. *)
LEMMA ClausesOf ==
  ASSUME NEW e \in Exprs, NEW c
  PROVE  c \in Clauses(e) <=>
           \E k \in 1 .. Len(e) : \E j \in 1 .. Len(e[k]) :
             IF e[k][j].kind = "group" THEN c \in Clauses(e[k][j].of) ELSE c = e[k][j].of
<1>1. Clauses(e) = ClausesDef(e)
  BY RecursionAssumption
<1>2. DOMAIN e = 1 .. Len(e) /\ \A k \in 1 .. Len(e) : DOMAIN e[k] = 1 .. Len(e[k])
  BY ExprShape
<1>3. c \in ClausesDef(e) <=>
        \E a \in ToSet(e) : \E n \in ToSet(a) : IF n.kind = "group" THEN c \in Clauses(n.of) ELSE c = n.of
  BY DEF ClausesDef
<1>4. c \in ClausesDef(e) <=>
        \E k \in DOMAIN e : \E j \in DOMAIN e[k] :
          IF e[k][j].kind = "group" THEN c \in Clauses(e[k][j].of) ELSE c = e[k][j].of
  BY <1>3 DEF ToSet
<1> QED BY <1>1, <1>2, <1>4

(* The walk reaches every clause, however deep. *)
LEMMA WalkedClauses ==
  ASSUME NEW e \in Exprs
  PROVE  Clauses(WalkClauses(e)) = {Canonized(c) : c \in Clauses(e)}
<1> DEFINE All(x) == {Canonized(c) : c \in Clauses(x)}
           B == {x \in Exprs : Clauses(WalkClauses(x)) # All(x)}
<1>1. SUFFICES ASSUME B # {} PROVE FALSE
  OBVIOUS
<1>2. PICK x \in B : \A k \in 1 .. Len(x) : \A j \in 1 .. Len(x[k]) :
           x[k][j].kind = "group" => x[k][j].of \in Exprs \ B
  <2> HIDE DEF B
  <2>1. B \in SUBSET Exprs
    BY DEF B
  <2> QED BY <1>1, <2>1, Shallowest
<1> DEFINE w == WalkClauses(x)
<1>3. x \in Exprs /\ Clauses(w) # All(x)
  OBVIOUS
<1>4. /\ w \in Exprs /\ Len(w) = Len(x)
      /\ \A k \in 1 .. Len(x) : /\ Len(w[k]) = Len(x[k])
                                /\ \A j \in 1 .. Len(x[k]) : w[k][j] = Walked(x[k][j])
  <2> HIDE DEF B
  <2> QED BY <1>3, WalkedShape
<1>5. ASSUME NEW k \in 1 .. Len(x), NEW j \in 1 .. Len(x[k])
      PROVE  /\ w[k][j].kind = x[k][j].kind
             /\ x[k][j].kind = "group" => Clauses(w[k][j].of) = All(x[k][j].of)
             /\ x[k][j].kind # "group" => w[k][j].of = Canonized(x[k][j].of)
  <2>1. x[k][j] \in AnyOperand
    BY <1>3, ExprShape
  <2>2. w[k][j] = Walked(x[k][j])
    BY <1>4
  <2>3. x[k][j].kind = "group" => Clauses(WalkClauses(x[k][j].of)) = All(x[k][j].of)
    BY <1>2
  <2> HIDE DEF B, All, w
  <2> QED BY <2>1, <2>2, <2>3, WalkedOperand
<1>6. ASSUME NEW d PROVE d \in Clauses(w) <=> d \in All(x)
  <2> HIDE DEF B
  <2>1. d \in Clauses(w) <=>
          \E k \in 1 .. Len(x) : \E j \in 1 .. Len(x[k]) :
            IF w[k][j].kind = "group" THEN d \in Clauses(w[k][j].of) ELSE d = w[k][j].of
    <3> HIDE DEF w
    <3> QED BY <1>4, ClausesOf
  <2>2. d \in Clauses(w) <=>
          \E k \in 1 .. Len(x) : \E j \in 1 .. Len(x[k]) :
            IF x[k][j].kind = "group" THEN d \in All(x[k][j].of) ELSE d = Canonized(x[k][j].of)
    <3> HIDE DEF All, w
    <3>1. ASSUME NEW k \in 1 .. Len(x), NEW j \in 1 .. Len(x[k])
          PROVE  (IF w[k][j].kind = "group" THEN d \in Clauses(w[k][j].of) ELSE d = w[k][j].of) <=>
                 (IF x[k][j].kind = "group" THEN d \in All(x[k][j].of) ELSE d = Canonized(x[k][j].of))
      BY <1>5
    <3> QED BY <2>1, <3>1
  <2>3. d \in All(x) <=> \E c \in Clauses(x) : d = Canonized(c)
    OBVIOUS
  <2>4. d \in Clauses(w) => d \in All(x)
    <3>1. SUFFICES ASSUME d \in Clauses(w) PROVE d \in All(x)
      OBVIOUS
    <3>2. \E k \in 1 .. Len(x) : \E j \in 1 .. Len(x[k]) :
            IF x[k][j].kind = "group" THEN d \in All(x[k][j].of) ELSE d = Canonized(x[k][j].of)
      <4> HIDE DEF All, w
      <4> QED BY <2>2, <3>1
    <3>3. PICK k \in 1 .. Len(x) : \E j \in 1 .. Len(x[k]) :
            IF x[k][j].kind = "group" THEN d \in All(x[k][j].of) ELSE d = Canonized(x[k][j].of)
      BY <3>2
    <3>4. PICK j \in 1 .. Len(x[k]) :
            IF x[k][j].kind = "group" THEN d \in All(x[k][j].of) ELSE d = Canonized(x[k][j].of)
      BY <3>3
    <3>5. CASE x[k][j].kind = "group"
      <4>1. PICK c \in Clauses(x[k][j].of) : d = Canonized(c)
        BY <3>4, <3>5
      <4>2. c \in Clauses(x)
        BY <1>3, <3>5, <4>1, ClausesOf
      <4> QED BY <4>1, <4>2
    <3>6. CASE x[k][j].kind # "group"
      <4>1. x[k][j].of \in Clauses(x)
        BY <1>3, <3>6, ClausesOf
      <4> QED BY <3>4, <3>6, <4>1
    <3> QED BY <3>5, <3>6
  <2>5. d \in All(x) => d \in Clauses(w)
    <3>1. SUFFICES ASSUME NEW c \in Clauses(x), d = Canonized(c) PROVE d \in Clauses(w)
      OBVIOUS
    <3>2. \E k \in 1 .. Len(x) : \E j \in 1 .. Len(x[k]) :
            IF x[k][j].kind = "group" THEN c \in Clauses(x[k][j].of) ELSE c = x[k][j].of
      BY <1>3, ClausesOf
    <3>3. PICK k \in 1 .. Len(x) : \E j \in 1 .. Len(x[k]) :
            IF x[k][j].kind = "group" THEN c \in Clauses(x[k][j].of) ELSE c = x[k][j].of
      BY <3>2
    <3>4. PICK j \in 1 .. Len(x[k]) :
            IF x[k][j].kind = "group" THEN c \in Clauses(x[k][j].of) ELSE c = x[k][j].of
      BY <3>3
    <3>5. IF x[k][j].kind = "group" THEN d \in All(x[k][j].of) ELSE d = Canonized(x[k][j].of)
      BY <3>1, <3>4
    <3> HIDE DEF All, w
    <3> QED BY <2>2, <3>5
  <2> QED BY <2>4, <2>5
<1> QED BY <1>3, <1>6
-----------------------------------------------------------------------------
(* What is built of an expression and its parts is among DSLs. *)
LEMMA Built ==
  ASSUME NEW e \in Exprs
  PROVE  /\ BuildExpression(e) \in DSLs /\ BuildExpression(e) = BuildExpressionDef(e)
         /\ \A k \in 1 .. Len(e) :
              /\ BuildAnd(e[k]) \in DSLs
              /\ \A j \in 1 .. Len(e[k]) : BuildPrimary(e[k][j]) \in DSLs
<1>1. BuildExpression(e) = BuildExpressionDef(e)
  BY RecursionAssumption
<1>2. DOMAIN e = 1 .. Len(e) /\ \A k \in 1 .. Len(e) : DOMAIN e[k] = 1 .. Len(e[k])
  BY ExprShape
<1> DEFINE D(x) == {BuildExpression(x)} \cup {BuildAnd(a) : a \in ToSet(x)}
                   \cup UNION {{BuildPrimary(n) : n \in ToSet(a)} : a \in ToSet(x)}
<1>3. D(e) \subseteq DSLs
  <2>1. DSLs = UNION {D(x) : x \in Exprs}
    BY DEF DSLs
  <2> HIDE DEF D
  <2> QED BY <2>1
<1>4. BuildExpression(e) \in D(e)
  OBVIOUS
<1>5. ASSUME NEW k \in 1 .. Len(e)
      PROVE  BuildAnd(e[k]) \in D(e) /\ \A j \in 1 .. Len(e[k]) : BuildPrimary(e[k][j]) \in D(e)
  <2>1. e[k] \in ToSet(e) /\ \A j \in 1 .. Len(e[k]) : e[k][j] \in ToSet(e[k])
    BY <1>2 DEF ToSet
  <2> QED BY <2>1
<1> HIDE DEF D
<1> QED BY <1>1, <1>3, <1>4, <1>5

(* The queries of the operands with one sign. *)
Operands(a, not) == {BuildPrimary(a[j]) : j \in {i \in 1 .. Len(a) : a[i].not = not}}

(* BuildOperands lists them. *)
LEMMA BuildOperandsShape ==
  ASSUME NEW e \in Exprs, NEW k \in 1 .. Len(e), NEW not
  PROVE  /\ BuildOperands(e[k], not) \in Seq(DSLs)
         /\ ToSet(BuildOperands(e[k], not)) = Operands(e[k], not)
<1> DEFINE a == e[k]
           ss == [j \in DOMAIN a |-> IF a[j].not = not THEN <<BuildPrimary(a[j])>> ELSE <<>>]
<1>1. DOMAIN a = 1 .. Len(a) /\ Len(a) \in Nat /\ \A j \in 1 .. Len(a) : BuildPrimary(a[j]) \in DSLs
  BY ExprShape, Built
<1> HIDE DEF a
<1>2. ss \in Seq(Seq(DSLs)) /\ DOMAIN ss = 1 .. Len(a)
  <2>1. \A j \in 1 .. Len(a) : (IF a[j].not = not THEN <<BuildPrimary(a[j])>> ELSE <<>>) \in Seq(DSLs)
    BY <1>1, Tuples
  <2> QED BY <1>1, <2>1
<1>3. BuildOperands(a, not) = FlattenSeq(ss)
  BY DEF BuildOperands
<1>4. BuildOperands(a, not) \in Seq(DSLs)
  <2> HIDE DEF ss
  <2> QED BY <1>2, <1>3, FlattenType
<1>5. ToSet(BuildOperands(a, not)) = UNION {ToSet(s) : s \in ToSet(ss)}
  <2> HIDE DEF ss
  <2> QED BY <1>2, <1>3, FlattenToSet
<1>6. \A j \in 1 .. Len(a) : ToSet(ss[j]) = IF a[j].not = not THEN {BuildPrimary(a[j])} ELSE {}
  <2>1. ToSet(<<>>) = {} /\ \A x : ToSet(<<x>>) = {x}
    BY DEF ToSet
  <2> QED BY <1>1, <2>1
<1>7. ToSet(ss) = {ss[j] : j \in 1 .. Len(a)}
  <2> HIDE DEF ss
  <2> QED BY <1>2 DEF ToSet
<1>8. UNION {ToSet(s) : s \in ToSet(ss)} = Operands(a, not)
  <2> HIDE DEF ss
  <2>1. ASSUME NEW x PROVE x \in UNION {ToSet(s) : s \in ToSet(ss)} <=> \E j \in 1 .. Len(a) : x \in ToSet(ss[j])
    BY <1>7
  <2>2. ASSUME NEW x PROVE x \in Operands(a, not) <=> \E j \in 1 .. Len(a) : a[j].not = not /\ x = BuildPrimary(a[j])
    BY DEF Operands
  <2>3. ASSUME NEW x PROVE x \in UNION {ToSet(s) : s \in ToSet(ss)} <=> x \in Operands(a, not)
    <3>1. \A j \in 1 .. Len(a) : x \in ToSet(ss[j]) <=> a[j].not = not /\ x = BuildPrimary(a[j])
      BY <1>6
    <3> QED BY <2>1, <2>2, <3>1
  <2> QED BY <2>3
<1> QED BY <1>4, <1>5, <1>8 DEF a

(* The shortcut for one operand, and the Boolean query for all others. *)
LEMMA BuildAndShape ==
  ASSUME NEW e \in Exprs, NEW k \in 1 .. Len(e)
  PROVE  LET a == e[k] IN
         \/ /\ Operands(a, FALSE) = {BuildAnd(a)} /\ Operands(a, TRUE) = {}
         \/ BuildAnd(a) = BoolQuery(BuildOperands(a, FALSE), BuildOperands(a, TRUE), <<>>, 0)
<1> DEFINE a == e[k]
           must == BuildOperands(a, FALSE)
           mustNot == BuildOperands(a, TRUE)
<1>1. /\ must \in Seq(DSLs) /\ ToSet(must) = Operands(a, FALSE)
      /\ ToSet(mustNot) = Operands(a, TRUE)
  BY BuildOperandsShape
<1>2. BuildAnd(a) = IF Len(must) = 1 /\ mustNot = <<>> THEN must[1] ELSE BoolQuery(must, mustNot, <<>>, 0)
  BY DEF BuildAnd
<1>3. CASE Len(must) = 1 /\ mustNot = <<>>
  <2> HIDE DEF must, mustNot, a
  <2>1. ToSet(must) = {must[1]}
    BY <1>1, <1>3, LenProperties DEF ToSet
  <2>2. ToSet(mustNot) = {}
    BY <1>3 DEF ToSet
  <2>3. BuildAnd(a) = must[1]
    BY <1>2, <1>3
  <2>4. Operands(a, FALSE) = {BuildAnd(a)} /\ Operands(a, TRUE) = {}
    BY <1>1, <2>1, <2>2, <2>3
  <2> QED BY <2>4 DEF a
<1>4. CASE ~(Len(must) = 1 /\ mustNot = <<>>)
  BY <1>2, <1>4
<1> QED BY <1>3, <1>4

(* The parts of a bool query. *)
LEMMA BoolParts ==
  ASSUME NEW m, NEW n, NEW s, NEW i
  PROVE  LET q == BoolQuery(m, n, s, i) IN
         /\ q.kind = "bool" /\ q.must = m /\ q.must_not = n /\ q.should = s
         /\ q.minimum_should_match = i
BY DEF BoolQuery

(* What leaves and matching are by definition. *)
LEMMA Unfolded ==
  ASSUME NEW q \in DSLs
  PROVE  /\ Leaves(q) = LeavesDef(q)
         /\ \A hits \in SUBSET Fields : Matches(q, hits) = MatchesDef(q, hits)
BY RecursionAssumption

(* Both signs together are all operands. *)
LEMMA OperandsAll ==
  ASSUME NEW e \in Exprs, NEW k \in 1 .. Len(e)
  PROVE  Operands(e[k], FALSE) \cup Operands(e[k], TRUE) = {BuildPrimary(e[k][j]) : j \in 1 .. Len(e[k])}
<1>1. \A j \in 1 .. Len(e[k]) : e[k][j].not \in BOOLEAN
  BY ExprShape, OperandShape
<1> QED BY <1>1 DEF Operands

(* The leaves of a conjunction are those of its operands, ... *)
LEMMA LeavesOfAnd ==
  ASSUME NEW e \in Exprs, NEW k \in 1 .. Len(e)
  PROVE  Leaves(BuildAnd(e[k])) = UNION {Leaves(BuildPrimary(e[k][j])) : j \in 1 .. Len(e[k])}
<1> DEFINE a == e[k]
           P == {BuildPrimary(a[j]) : j \in 1 .. Len(a)}
<1>1. Operands(a, FALSE) \cup Operands(a, TRUE) = P
  BY OperandsAll
<1>2. Leaves(BuildAnd(a)) = UNION {Leaves(s) : s \in P}
  <2>1. CASE Operands(a, FALSE) = {BuildAnd(a)} /\ Operands(a, TRUE) = {}
    <3>1. P = {BuildAnd(a)}
      BY <1>1, <2>1
    <3> HIDE DEF P
    <3> QED BY <3>1
  <2>2. CASE BuildAnd(a) = BoolQuery(BuildOperands(a, FALSE), BuildOperands(a, TRUE), <<>>, 0)
    <3> DEFINE q == BuildAnd(a)
    <3>1. /\ q.kind # "leaf" /\ ToSet(q.must) = Operands(a, FALSE)
          /\ ToSet(q.must_not) = Operands(a, TRUE) /\ q.should = <<>>
      <4> DEFINE m == BuildOperands(a, FALSE)
                 n == BuildOperands(a, TRUE)
      <4>1. ToSet(m) = Operands(a, FALSE) /\ ToSet(n) = Operands(a, TRUE)
        BY BuildOperandsShape
      <4>2. q = BoolQuery(m, n, <<>>, 0)
        BY <2>2
      <4> HIDE DEF m, n, q
      <4>3. q.kind = "bool" /\ q.must = m /\ q.must_not = n /\ q.should = <<>>
        BY <4>2, BoolParts
      <4> QED BY <4>1, <4>3
    <3>2. Leaves(q) = LeavesDef(q)
      BY Built, Unfolded
    <3>3. ToSet(<<>>) = {}
      BY DEF ToSet
    <3> HIDE DEF q, P
    <3>4. ToSet(q.must) \cup ToSet(q.must_not) \cup ToSet(q.should) = P
      BY <1>1, <3>1, <3>3
    <3>5. Leaves(q) = UNION {Leaves(s) : s \in P}
      BY <3>1, <3>2, <3>4 DEF LeavesDef
    <3> QED BY <3>5 DEF q
  <2> QED BY <2>1, <2>2, BuildAndShape
<1> QED BY <1>2

(* ... and those of an expression are those of its conjunctions. *)
LEMMA LeavesOfExpression ==
  ASSUME NEW e \in Exprs
  PROVE  Leaves(BuildExpression(e)) = UNION {Leaves(BuildAnd(e[k])) : k \in 1 .. Len(e)}
<1>1. DOMAIN e = 1 .. Len(e) /\ Len(e) \in Nat \ {0}
  BY ExprShape
<1>2. BuildExpression(e) = BuildExpressionDef(e)
  BY Built
<1>3. CASE Len(e) = 1
  <2>1. BuildExpression(e) = BuildAnd(e[1])
    BY <1>2, <1>3 DEF BuildExpressionDef
  <2> QED BY <1>3, <2>1
<1>4. CASE Len(e) # 1
  <2> DEFINE should == [k \in DOMAIN e |-> BuildAnd(e[k])]
             q == BuildExpression(e)
  <2>1. q = BoolQuery(<<>>, <<>>, should, 1)
    BY <1>2, <1>4 DEF BuildExpressionDef
  <2>2. Leaves(q) = LeavesDef(q)
    BY Built, Unfolded
  <2>3. ToSet(should) = {BuildAnd(e[k]) : k \in 1 .. Len(e)}
    BY <1>1 DEF ToSet
  <2>4. ToSet(<<>>) = {}
    BY DEF ToSet
  <2> HIDE DEF should, q
  <2>5. q.kind # "leaf" /\ q.must = <<>> /\ q.must_not = <<>> /\ q.should = should
    BY <2>1, BoolParts
  <2>6. Leaves(q) = UNION {Leaves(s) : s \in ToSet(should)}
    BY <2>2, <2>4, <2>5 DEF LeavesDef
  <2> QED BY <2>3, <2>6 DEF q
<1> QED BY <1>3, <1>4

(* A clause becomes one leaf. *)
LEMMA LeafBuilt ==
  ASSUME NEW e \in Exprs, NEW k \in 1 .. Len(e), NEW j \in 1 .. Len(e[k]), e[k][j].kind # "group"
  PROVE  /\ BuildPrimary(e[k][j]) = LeafQuery(e[k][j].of)
         /\ Leaves(BuildPrimary(e[k][j])) = {Leaf(e[k][j].of)}
         /\ \A hits \in SUBSET Fields : Matches(BuildPrimary(e[k][j]), hits) <=> Leaf(e[k][j].of).field \in hits
<1> DEFINE q == BuildPrimary(e[k][j])
<1>1. q = LeafQuery(e[k][j].of) /\ q.kind = "leaf" /\ q.leaf = Leaf(e[k][j].of)
  BY DEF BuildPrimary, LeafQuery
<1>2. q \in DSLs
  BY Built
<1> HIDE DEF q
<1>3. Leaves(q) = {Leaf(e[k][j].of)}
  BY <1>1, <1>2, Unfolded DEF LeavesDef
<1>4. ASSUME NEW hits \in SUBSET Fields PROVE Matches(q, hits) <=> Leaf(e[k][j].of).field \in hits
  BY <1>1, <1>2, Unfolded DEF MatchesDef
<1> QED BY <1>1, <1>3, <1>4 DEF q

(* The leaves of what is built are the leaf queries of the clauses. *)
LEMMA LeavesBuilt ==
  ASSUME NEW e \in Exprs
  PROVE  Leaves(BuildExpression(e)) = {Leaf(c) : c \in Clauses(e)}
<1> DEFINE All(x) == {Leaf(c) : c \in Clauses(x)}
           B == {x \in Exprs : Leaves(BuildExpression(x)) # All(x)}
<1>1. SUFFICES ASSUME B # {} PROVE FALSE
  OBVIOUS
<1>2. PICK x \in B : \A k \in 1 .. Len(x) : \A j \in 1 .. Len(x[k]) :
           x[k][j].kind = "group" => x[k][j].of \in Exprs \ B
  <2> HIDE DEF B
  <2>1. B \in SUBSET Exprs
    BY DEF B
  <2> QED BY <1>1, <2>1, Shallowest
<1>3. x \in Exprs /\ Leaves(BuildExpression(x)) # All(x)
  OBVIOUS
<1>4. ASSUME NEW k \in 1 .. Len(x), NEW j \in 1 .. Len(x[k])
      PROVE  Leaves(BuildPrimary(x[k][j])) =
               IF x[k][j].kind = "group" THEN All(x[k][j].of) ELSE {Leaf(x[k][j].of)}
  <2>1. CASE x[k][j].kind = "group"
    <3>1. BuildPrimary(x[k][j]) = BuildExpression(x[k][j].of)
      BY <2>1 DEF BuildPrimary
    <3>2. Leaves(BuildExpression(x[k][j].of)) = All(x[k][j].of)
      BY <1>2, <2>1
    <3> QED BY <2>1, <3>1, <3>2
  <2>2. CASE x[k][j].kind # "group"
    <3> HIDE DEF B, All
    <3>1. Leaves(BuildPrimary(x[k][j])) = {Leaf(x[k][j].of)}
      BY <1>3, <2>2, LeafBuilt
    <3> QED BY <2>2, <3>1
  <2> QED BY <2>1, <2>2
<1>5. ASSUME NEW d
      PROVE  d \in Leaves(BuildExpression(x)) <=>
               \E k \in 1 .. Len(x) : \E j \in 1 .. Len(x[k]) : d \in Leaves(BuildPrimary(x[k][j]))
  <2> HIDE DEF B, All
  <2>1. d \in Leaves(BuildExpression(x)) <=> \E k \in 1 .. Len(x) : d \in Leaves(BuildAnd(x[k]))
    BY <1>3, LeavesOfExpression
  <2>2. ASSUME NEW k \in 1 .. Len(x)
        PROVE  d \in Leaves(BuildAnd(x[k])) <=> \E j \in 1 .. Len(x[k]) : d \in Leaves(BuildPrimary(x[k][j]))
    BY <1>3, LeavesOfAnd
  <2> QED BY <2>1, <2>2
<1>6. ASSUME NEW d
      PROVE  d \in All(x) <=>
               \E k \in 1 .. Len(x) : \E j \in 1 .. Len(x[k]) :
                 IF x[k][j].kind = "group" THEN d \in All(x[k][j].of) ELSE d = Leaf(x[k][j].of)
  <2>1. ASSUME NEW c
        PROVE  c \in Clauses(x) <=>
                 \E k \in 1 .. Len(x) : \E j \in 1 .. Len(x[k]) :
                   IF x[k][j].kind = "group" THEN c \in Clauses(x[k][j].of) ELSE c = x[k][j].of
    <3> HIDE DEF B, All
    <3> QED BY <1>3, ClausesOf
  <2> QED BY <2>1
<1> HIDE DEF B, All
<1>7. \A d : d \in Leaves(BuildExpression(x)) <=> d \in All(x)
  <2>1. SUFFICES ASSUME NEW d PROVE d \in Leaves(BuildExpression(x)) <=> d \in All(x)
    OBVIOUS
  <2>2. ASSUME NEW k \in 1 .. Len(x), NEW j \in 1 .. Len(x[k])
        PROVE  d \in Leaves(BuildPrimary(x[k][j])) <=>
                 IF x[k][j].kind = "group" THEN d \in All(x[k][j].of) ELSE d = Leaf(x[k][j].of)
    <3>1. Leaves(BuildPrimary(x[k][j])) =
            IF x[k][j].kind = "group" THEN All(x[k][j].of) ELSE {Leaf(x[k][j].of)}
      BY <1>4
    <3> QED BY <3>1
  <2> QED BY <2>2, <1>5, <1>6
<1> QED BY <1>3, <1>7

(* minimum_should_match 1 asks for some member. *)
LEMMA SomeOrNone ==
  ASSUME NEW n \in Nat, NEW T \in SUBSET (1 .. n)
  PROVE  /\ Cardinality(T) \in Nat
         /\ Cardinality(T) >= 1 <=> T # {}
         /\ Cardinality({}) = 0
<1>1. IsFiniteSet(1 .. n)
  BY FS_Interval
<1>2. IsFiniteSet(T)
  BY <1>1, FS_Subset
<1> QED BY <1>2, FS_CardinalityType, FS_EmptySet

(* A conjunction matches when each operand does what its sign asks. *)
LEMMA MatchesAnd ==
  ASSUME NEW e \in Exprs, NEW k \in 1 .. Len(e), NEW hits \in SUBSET Fields
  PROVE  Matches(BuildAnd(e[k]), hits) <=>
           \A j \in 1 .. Len(e[k]) : ~e[k][j].not <=> Matches(BuildPrimary(e[k][j]), hits)
<1> DEFINE a == e[k]
           must == BuildOperands(a, FALSE)
           mustNot == BuildOperands(a, TRUE)
           q == BuildAnd(a)
<1>1. \A j \in 1 .. Len(a) : a[j].not \in BOOLEAN
  BY ExprShape, OperandShape
<1>2. (\A j \in 1 .. Len(a) : ~a[j].not <=> Matches(BuildPrimary(a[j]), hits)) <=>
        /\ \A s \in Operands(a, FALSE) : Matches(s, hits)
        /\ \A s \in Operands(a, TRUE) : ~Matches(s, hits)
  <2> HIDE DEF a
  <2> QED BY <1>1 DEF Operands
<1>3. CASE Operands(a, FALSE) = {q} /\ Operands(a, TRUE) = {}
  <2> HIDE DEF a, q
  <2>1. Matches(q, hits) <=> /\ \A s \in Operands(a, FALSE) : Matches(s, hits)
                             /\ \A s \in Operands(a, TRUE) : ~Matches(s, hits)
    BY <1>3
  <2> QED BY <1>2, <2>1 DEF a, q
<1>4. CASE q = BoolQuery(must, mustNot, <<>>, 0)
  <2>1. /\ must \in Seq(DSLs) /\ ToSet(must) = Operands(a, FALSE)
        /\ mustNot \in Seq(DSLs) /\ ToSet(mustNot) = Operands(a, TRUE)
    BY BuildOperandsShape
  <2>2. Matches(q, hits) = MatchesDef(q, hits)
    BY Built, Unfolded
  <2> HIDE DEF a, q, must, mustNot
  <2>3. q.kind = "bool" /\ q.must = must /\ q.must_not = mustNot /\ q.should = <<>> /\ q.minimum_should_match = 0
    BY <1>4, BoolParts
  <2>4. Cardinality({i \in DOMAIN q.should : Matches(q.should[i], hits)}) >= q.minimum_should_match
    <3>1. {i \in DOMAIN q.should : Matches(q.should[i], hits)} = {}
      BY <2>3
    <3>2. Cardinality({}) = 0
      BY FS_EmptySet
    <3> QED BY <2>3, <3>1, <3>2
  <2>5. MatchesDef(q, hits) <=> /\ \A i \in DOMAIN must : Matches(must[i], hits)
                                /\ \A i \in DOMAIN mustNot : ~Matches(mustNot[i], hits)
    BY <2>3, <2>4 DEF MatchesDef
  <2>6. Matches(q, hits) <=> /\ \A s \in ToSet(must) : Matches(s, hits)
                             /\ \A s \in ToSet(mustNot) : ~Matches(s, hits)
    BY <2>2, <2>5 DEF ToSet
  <2>7. Matches(q, hits) <=> /\ \A s \in Operands(a, FALSE) : Matches(s, hits)
                             /\ \A s \in Operands(a, TRUE) : ~Matches(s, hits)
    BY <2>1, <2>6
  <2> QED BY <1>2, <2>7 DEF a, q
<1> QED BY <1>3, <1>4, BuildAndShape

(* An expression matches when some conjunction does. *)
LEMMA MatchesExpression ==
  ASSUME NEW e \in Exprs, NEW hits \in SUBSET Fields
  PROVE  Matches(BuildExpression(e), hits) <=> \E k \in 1 .. Len(e) : Matches(BuildAnd(e[k]), hits)
<1>1. DOMAIN e = 1 .. Len(e) /\ Len(e) \in Nat \ {0}
  BY ExprShape
<1>2. BuildExpression(e) = BuildExpressionDef(e)
  BY Built
<1>3. CASE Len(e) = 1
  <2>1. BuildExpression(e) = BuildAnd(e[1])
    BY <1>2, <1>3 DEF BuildExpressionDef
  <2> QED BY <1>3, <2>1
<1>4. CASE Len(e) # 1
  <2> DEFINE should == [k \in DOMAIN e |-> BuildAnd(e[k])]
             q == BuildExpression(e)
             some == {k \in 1 .. Len(e) : Matches(should[k], hits)}
  <2>1. q = BoolQuery(<<>>, <<>>, should, 1)
    BY <1>2, <1>4 DEF BuildExpressionDef
  <2>2. Matches(q, hits) = MatchesDef(q, hits)
    BY Built, Unfolded
  <2>3. DOMAIN should = 1 .. Len(e) /\ \A k \in 1 .. Len(e) : should[k] = BuildAnd(e[k])
    BY <1>1
  <2> HIDE DEF should, q
  <2>4. q.kind = "bool" /\ q.must = <<>> /\ q.must_not = <<>> /\ q.should = should /\ q.minimum_should_match = 1
    BY <2>1, BoolParts
  <2>5. (\A i \in DOMAIN q.must : Matches(q.must[i], hits)) /\ (\A i \in DOMAIN q.must_not : ~Matches(q.must_not[i], hits))
    BY <2>4
  <2>6. MatchesDef(q, hits) <=> Cardinality(some) >= 1
    <3>1. {k \in DOMAIN q.should : Matches(q.should[k], hits)} = some
      BY <2>3, <2>4
    <3> HIDE DEF some
    <3> QED BY <2>4, <2>5, <3>1 DEF MatchesDef
  <2>7. Cardinality(some) >= 1 <=> some # {}
    <3>1. some \in SUBSET (1 .. Len(e))
      OBVIOUS
    <3> HIDE DEF some
    <3> QED BY <1>1, <3>1, SomeOrNone
  <2>8. some # {} <=> \E k \in 1 .. Len(e) : Matches(BuildAnd(e[k]), hits)
    BY <2>3
  <2> HIDE DEF some
  <2> QED BY <2>2, <2>6, <2>7, <2>8 DEF q
<1> QED BY <1>3, <1>4

(* A query is made of queries and documented clauses, and begins no conjunction with AND. *)
LEMMA QueryShape ==
  ASSUME NEW q \in Queries
  PROVE  /\ q \in Exprs /\ q \in Seq(Seq(Operand(Queries, DocumentedClauses)))
         /\ \A k \in 1 .. Len(q) :
              /\ q[k] \in NonEmpty(Operand(Queries, DocumentedClauses))
              /\ ~q[k][1].op
              /\ \A j \in 1 .. Len(q[k]) :
                   /\ q[k][j] \in Operand(Queries, DocumentedClauses)
                   /\ q[k][j].kind = "group" => q[k][j].of \in Queries
                   /\ q[k][j].kind # "group" => q[k][j].of \in DocumentedClauses
<1> DEFINE O == Operand(Queries, DocumentedClauses)
<1>1. q \in Exprs /\ q \in Seq(NonEmpty(O)) /\ \A a \in ToSet(q) : ~a[1].op
  BY QueriesAssumption DEF NonEmpty
<1>2. \A n \in O : (n.kind = "group" => n.of \in Queries) /\ (n.kind # "group" => n.of \in DocumentedClauses)
  BY DEF Operand
<1> HIDE DEF O
<1>3. NonEmpty(O) \subseteq Seq(O)
  BY DEF NonEmpty
<1>4. q \in Seq(Seq(O)) /\ DOMAIN q = 1 .. Len(q)
  BY <1>1, <1>3, SeqMonotonic, LenProperties
<1>5. ASSUME NEW k \in 1 .. Len(q)
      PROVE  q[k] \in NonEmpty(O) /\ ~q[k][1].op /\ \A j \in 1 .. Len(q[k]) : q[k][j] \in O
  <2>1. q[k] \in NonEmpty(O)
    BY <1>1, ElementOfSeq
  <2>2. q[k] \in ToSet(q)
    BY <1>4 DEF ToSet
  <2> QED BY <1>1, <1>3, <2>1, <2>2, ElementOfSeq
<1> QED BY <1>1, <1>2, <1>4, <1>5 DEF O

(* What is built of a query in canonical names matches what the query means. *)
LEMMA MatchesMeant ==
  ASSUME NEW q \in Queries, NEW hits \in SUBSET Fields
  PROVE  Matches(BuildExpression(WalkClauses(q)), hits) <=> Holds(q, hits)
<1> DEFINE M(x) == Matches(BuildExpression(WalkClauses(x)), hits)
           B == {x \in Queries : ~(M(x) <=> Holds(x, hits))}
<1>1. SUFFICES ASSUME B # {} PROVE FALSE
  OBVIOUS
<1>2. PICK x \in B : \A k \in 1 .. Len(x) : \A j \in 1 .. Len(x[k]) :
           x[k][j].kind = "group" => x[k][j].of \in Exprs \ B
  <2>1. B \in SUBSET Exprs
    BY QueriesAssumption
  <2> HIDE DEF B
  <2> QED BY <1>1, <2>1, Shallowest
<1>3. x \in Queries /\ ~(M(x) <=> Holds(x, hits))
  OBVIOUS
<1>4. \A y \in Queries : y \notin B => (M(y) <=> Holds(y, hits))
  OBVIOUS
<1> HIDE DEF B
<1> DEFINE w == WalkClauses(x)
<1>5. /\ x \in Exprs /\ w \in Exprs /\ Len(w) = Len(x) /\ DOMAIN x = 1 .. Len(x)
      /\ \A k \in 1 .. Len(x) : /\ Len(w[k]) = Len(x[k]) /\ DOMAIN x[k] = 1 .. Len(x[k])
                                /\ \A j \in 1 .. Len(x[k]) : w[k][j] = Walked(x[k][j]) /\ x[k][j] \in AnyOperand
  BY <1>3, QueriesAssumption, WalkedShape, ExprShape
<1>6. ASSUME NEW k \in 1 .. Len(x), NEW j \in 1 .. Len(x[k])
      PROVE  (~w[k][j].not <=> Matches(BuildPrimary(w[k][j]), hits)) <=> HoldsOperand(x[k][j], hits)
  <2> DEFINE n == x[k][j]
             d == w[k][j]
  <2>1. /\ d.not = n.not /\ n.not \in BOOLEAN /\ d.kind = n.kind
        /\ n.kind = "group" => d.of = WalkClauses(n.of)
        /\ n.kind # "group" => d.of = Canonized(n.of)
    <3>1. d = Walked(n) /\ n \in AnyOperand
      BY <1>5
    <3> HIDE DEF n, d
    <3> QED BY <3>1, WalkedOperand, OperandShape
  <2>2. CASE n.kind = "group"
    <3>1. n.of \in Queries
      BY <1>3, <2>2, QueryShape
    <3>2. n.of \notin B
      BY <1>2, <2>2
    <3>3. M(n.of) <=> Holds(n.of, hits)
      BY <1>4, <3>1, <3>2
    <3> HIDE DEF n, d
    <3>4. BuildPrimary(d) = BuildExpression(WalkClauses(n.of))
      BY <2>1, <2>2 DEF BuildPrimary
    <3>5. HoldsOperand(n, hits) <=> (n.not # Holds(n.of, hits))
      BY <2>2 DEF HoldsOperand
    <3>6. Holds(n.of, hits) \in BOOLEAN
      BY <3>1, RecursionAssumption DEF HoldsDef
    <3>7. Matches(BuildPrimary(d), hits) <=> Holds(n.of, hits)
      BY <3>3, <3>4
    <3>8. (~d.not <=> Matches(BuildPrimary(d), hits)) <=> HoldsOperand(n, hits)
      BY <2>1, <3>5, <3>6, <3>7
    <3> QED BY <3>8 DEF n, d
  <2>3. CASE n.kind # "group"
    <3>1. n.of \in DocumentedClauses
      BY <1>3, <2>3, QueryShape
    <3>2. k \in 1 .. Len(w) /\ j \in 1 .. Len(w[k]) /\ w[k][j].kind # "group"
      BY <1>5, <2>1, <2>3
    <3>3. Matches(BuildPrimary(d), hits) <=> Leaf(d.of).field \in hits
      <4> HIDE DEF w
      <4> QED BY <1>5, <3>2, LeafBuilt
    <3> HIDE DEF n, d
    <3>4. Leaf(d.of).field = Canonical[n.of.field]
      <4>1. d.of = Canonized(n.of) /\ n.of.field \in Names
        BY <2>1, <2>3, <3>1 DEF DocumentedClauses
      <4>2. d.of.field = Canonical[n.of.field]
        BY <3>1, <4>1 DEF Canonized, DocumentedClauses
      <4>3. Leaf(d.of).field = d.of.field
        BY DEF Leaf
      <4> QED BY <4>2, <4>3
    <3>5. HoldsOperand(n, hits) <=> (n.not # (Canonical[n.of.field] \in hits))
      BY <2>3 DEF HoldsOperand
    <3>6. (~d.not <=> Matches(BuildPrimary(d), hits)) <=> HoldsOperand(n, hits)
      BY <2>1, <3>3, <3>4, <3>5
    <3> QED BY <3>6 DEF n, d
  <2> QED BY <2>2, <2>3
<1>7. M(x) <=> \E k \in 1 .. Len(x) : \A j \in 1 .. Len(x[k]) :
                 ~w[k][j].not <=> Matches(BuildPrimary(w[k][j]), hits)
  <2>1. M(x) <=> \E k \in 1 .. Len(w) : Matches(BuildAnd(w[k]), hits)
    <3>1. w \in Exprs
      BY <1>5
    <3>2. Matches(BuildExpression(w), hits) <=> \E k \in 1 .. Len(w) : Matches(BuildAnd(w[k]), hits)
      <4> HIDE DEF w
      <4> QED BY <3>1, MatchesExpression
    <3> QED BY <3>2
  <2> HIDE DEF M, w
  <2>2. ASSUME NEW k \in 1 .. Len(x)
        PROVE  Matches(BuildAnd(w[k]), hits) <=>
                 \A j \in 1 .. Len(x[k]) : ~w[k][j].not <=> Matches(BuildPrimary(w[k][j]), hits)
    BY <1>5, MatchesAnd
  <2> QED BY <1>5, <2>1, <2>2
<1>8. Holds(x, hits) <=> \E k \in 1 .. Len(x) : \A j \in 1 .. Len(x[k]) : HoldsOperand(x[k][j], hits)
  <2>1. Holds(x, hits) = HoldsDef(x, hits)
    BY <1>3, RecursionAssumption
  <2> HIDE DEF w, M
  <2> QED BY <1>5, <2>1 DEF HoldsDef
<1> HIDE DEF w, M
<1> QED BY <1>3, <1>6, <1>7, <1>8
-----------------------------------------------------------------------------
(* The operands and conjunctions of the queries. *)
MeantOperand == Operand(Queries, DocumentedClauses)
Meant == {a \in NonEmpty(MeantOperand) : ~a[1].op}

(* They are operands and conjunctions. *)
LEMMA MeantParts ==
  /\ DocumentedClauses \subseteq AnyClauses /\ MeantOperand \subseteq AnyOperand
  /\ Seq(MeantOperand) \subseteq Seq(AnyOperand)
  /\ Meant \subseteq Seq(MeantOperand)
  /\ Seq(Meant) \subseteq Seq(Seq(AnyOperand))
<1>1. ClauseValues \subseteq Seq(Fragments)
  <2>1. ASSUME NEW w \in Words \cup Strings PROVE w \in Fragments
    BY DEF Fragments, Tokens, Idents
  <2>2. CompareOps \subseteq Fragments /\ {"[", "]", "TO"} \subseteq Fragments
    BY Marks, WordFacts DEF Fragments, Tokens, Keywords
  <2>3. ASSUME NEW v \in Words \cup Strings, NEW w \in Words \cup Strings
        PROVE  <<"[", v, "TO", w, "]">> \in Seq(Fragments)
    <3>1. "[" \in Fragments /\ "]" \in Fragments /\ "TO" \in Fragments /\ v \in Fragments /\ w \in Fragments
      BY <2>1, <2>2
    <3> QED BY <3>1
  <2>4. ASSUME NEW o \in CompareOps, NEW w \in Words \cup Strings PROVE <<o, w>> \in Seq(Fragments)
    BY <2>1, <2>2, Tuples
  <2>5. ASSUME NEW w \in Words \cup Strings PROVE <<w>> \in Seq(Fragments)
    BY <2>1, Tuples
  <2>6. ASSUME NEW x \in ClauseValues PROVE x \in Seq(Fragments)
    <3>1. CASE \E w \in Words \cup Strings : x = <<w>>
      BY <2>5, <3>1
    <3>2. CASE \E v, w \in Words \cup Strings : x = <<"[", v, "TO", w, "]">>
      BY <2>3, <3>2
    <3>3. CASE \E o \in CompareOps : \E w \in Words \cup Strings : x = <<o, w>>
      BY <2>4, <3>3
    <3>4. \/ \E w \in Words \cup Strings : x = <<w>>
          \/ \E v, w \in Words \cup Strings : x = <<"[", v, "TO", w, "]">>
          \/ \E o \in CompareOps : \E w \in Words \cup Strings : x = <<o, w>>
      BY DEF ClauseValues
    <3> QED BY <3>1, <3>2, <3>3, <3>4
  <2> QED BY <2>6
<1>2. DocumentedClauses \subseteq AnyClauses
  <2>1. Names \subseteq Fragments /\ Whole \cup {"", NoFuzzy} \subseteq Fragments /\ Numbers \cup {NoBoost} \subseteq Fragments
    BY WordsAssumption DEF Fragments, Tokens, Idents
  <2> QED BY <1>1, <2>1 DEF DocumentedClauses, AnyClauses
<1>3. MeantOperand \subseteq AnyOperand
  BY <1>2, QueriesAssumption DEF MeantOperand, AnyOperand, Operand
<1>4. Seq(MeantOperand) \subseteq Seq(AnyOperand)
  BY <1>3, SeqMonotonic
<1>5. Meant \subseteq Seq(MeantOperand)
  BY DEF Meant, NonEmpty
<1>6. Meant \subseteq Seq(AnyOperand)
  BY <1>4, <1>5
<1>7. Seq(Meant) \subseteq Seq(Seq(AnyOperand))
  BY <1>6, SeqMonotonic
<1> QED BY <1>2, <1>3, <1>4, <1>5, <1>7

(* The fields of such an operand. *)
LEMMA MeantShape ==
  ASSUME NEW n \in MeantOperand
  PROVE  /\ n.op \in BOOLEAN /\ n.not \in BOOLEAN /\ n.kind \in {"group", "clause"}
         /\ n.kind = "group" => n.of \in Queries
         /\ n.kind # "group" => n.of \in DocumentedClauses
         /\ n = [op |-> n.op, not |-> n.not, kind |-> n.kind, of |-> n.of]
BY DEF MeantOperand, Operand

(* What may stand after an operand. *)
Closers == {")", EndOfText}
After == Names \cup {"AND", "NOT", "OR", "("} \cup Closers

(* No modifier, and no number, stands after an operand. *)
LEMMA AfterParts ==
  /\ "^" \notin After /\ "~" \notin After
  /\ After \cap Idents \cap Numbers = {}
  /\ "^" \notin Idents
  /\ After \cup {"^"} \subseteq Idents \cup CompareOps \cup Punctuation \cup {EndOfText}
<1>1. Names \cap Punctuation = {} /\ {"AND", "NOT", "OR"} \subseteq Keywords /\ Keywords \cap Punctuation = {}
  BY WordFacts DEF Keywords
<1>2. "^" \notin After /\ "~" \notin After
  BY <1>1, Marks DEF After, Closers, EndOfText
<1>3. Numbers \subseteq Words /\ Names \cap Words = {} /\ Keywords \cap Words = {}
  BY WordsAssumption
<1>4. "(" \notin Idents /\ ")" \notin Idents /\ EndOfText \notin Idents /\ "^" \notin Idents
  BY WordFacts, Marks
<1>5. After \cap Idents \cap Numbers = {}
  BY <1>1, <1>3, <1>4 DEF After, Closers
<1>6. After \cup {"^"} \subseteq Idents \cup CompareOps \cup Punctuation \cup {EndOfText}
  BY <1>1, WordFacts, Marks DEF After, Closers
<1> QED BY <1>2, <1>4, <1>5, <1>6

(* A literal matches what stands there by what it is. *)
LEMMA AfterLit ==
  ASSUME NEW ts, NEW i, Tok(ts, i) \in After \cup {"^"}
  PROVE  Lit(ts, i) = Tok(ts, i)
BY AfterParts, LitOf

(* Inside the text, the token is the one that stands there. *)
LEMMA TokIn ==
  ASSUME NEW ts, NEW i, i <= Len(ts)
  PROVE  Tok(ts, i) = ts[i]
BY DEF Tok

(* A boost that stands before the end of an operand, or none, is read. *)
LEMMA BoostComplete ==
  ASSUME NEW ts, Len(ts) \in Nat, NEW i \in Nat, NEW j, NEW b \in Numbers \cup {NoBoost},
         Reads(ts, i, WriteBoost(b), j), Tok(ts, j) \in After
  PROVE  ParseBoost(ts, i) = Node(b, j) /\ Tok(ts, i) \in After \cup {"^"}
<1>1. CASE b = NoBoost
  <2>1. j = i
    BY <1>1 DEF Reads, WriteBoost
  <2>2. Lit(ts, i) # "^"
    BY <2>1, AfterLit, AfterParts
  <2> QED BY <1>1, <2>1, <2>2 DEF ParseBoost
<1>2. CASE b # NoBoost
  <2>1. b \in Numbers /\ b \in Idents /\ WriteBoost(b) = <<"^", b>>
    BY <1>2, WordsAssumption DEF WriteBoost, Idents
  <2>2. j = i + 2 /\ i + 1 <= Len(ts) /\ ts[i] = "^" /\ ts[i + 1] = b
    BY <2>1 DEF Reads
  <2>3. Tok(ts, i) = "^" /\ Lit(ts, i) = "^" /\ Tok(ts, i + 1) = b
    BY <2>2, TokIn, AfterLit
  <2> QED BY <2>1, <2>2, <2>3 DEF ParseBoost
<1> QED BY <1>1, <1>2

(* The distances of the syntax table. *)
DocumentedDistances == Whole \cup {"", NoFuzzy}

(* A distance, or none, is read; a bare ~ is, unless a word follows. *)
LEMMA FuzzyComplete ==
  ASSUME NEW ts, Len(ts) \in Nat, NEW i \in Nat \ {0}, NEW j, NEW z \in DocumentedDistances,
         Reads(ts, i, WriteFuzzy(z), j), Tok(ts, j) \in After \cup {"^"}, Separate(ts)
  PROVE  ParseFuzzy(ts, i) = Node(z, j)
<1>1. CASE z = NoFuzzy
  <2>1. WriteFuzzy(z) = <<>>
    BY <1>1, WordFacts DEF WriteFuzzy
  <2>2. j = i
    BY <2>1 DEF Reads
  <2>3. Lit(ts, i) # "~"
    BY <2>2, AfterLit, AfterParts
  <2> QED BY <1>1, <2>2, <2>3 DEF ParseFuzzy
<1>2. CASE z \in Whole
  <2>1. z \in Idents
    BY <1>2, WordsAssumption DEF Idents
  <2>2. WriteFuzzy(z) = <<"~", z>>
    BY <2>1, WordFacts DEF WriteFuzzy
  <2>3. j = i + 2 /\ i + 1 <= Len(ts) /\ ts[i] = "~" /\ ts[i + 1] = z
    BY <2>2 DEF Reads
  <2>4. Lit(ts, i) = "~" /\ Tok(ts, i + 1) = z
    BY <2>3, TokIn, LitOf, Marks
  <2> QED BY <2>1, <2>3, <2>4 DEF ParseFuzzy
<1>3. CASE z \notin Whole /\ z # NoFuzzy
  <2>1. WriteFuzzy(z) = <<"~">>
    BY <1>3 DEF WriteFuzzy, DocumentedDistances
  <2>2. j = i + 1 /\ i <= Len(ts) /\ ts[i] = "~"
    BY <2>1, ReadsOne
  <2>3. Lit(ts, i) = "~"
    BY <2>2, TokIn, LitOf, Marks
  <2>4. Tok(ts, i + 1) \notin Idents
    <3>1. SUFFICES ASSUME Tok(ts, i + 1) \in Idents PROVE FALSE
      OBVIOUS
    <3>2. i + 1 <= Len(ts) /\ ts[i + 1] = Tok(ts, i + 1)
      BY <3>1, TokAt
    <3>3. ts[i + 1] \notin Idents \ Whole
      <4>1. i \in 1 .. Len(ts) - 1
        BY <3>2
      <4> QED BY <4>1, <2>2 DEF Separate
    <3> QED BY <2>2, <3>1, <3>2, <3>3, AfterParts, WordsAssumption
  <2>5. ParseFuzzy(ts, i) = Node("", i + 1)
    BY <2>3, <2>4 DEF ParseFuzzy
  <2>6. z = ""
    BY <1>3 DEF DocumentedDistances
  <2> QED BY <2>2, <2>5, <2>6
<1> QED BY <1>1, <1>2, <1>3

(* A value of the syntax table is read. *)
LEMMA ValueComplete ==
  ASSUME NEW ts, Len(ts) \in Nat, NEW i \in Nat, NEW j, NEW v \in ClauseValues,
         Reads(ts, i, v, j),
         i <= Len(ts) /\ ts[i] \in Strings => Value(ts[i]) \notin {"["} \cup CompareOps
  PROVE  ParseValue(ts, i) = Node(v, j)
<1>0. /\ \A w \in Words \cup Strings : w \in Idents \cup Strings /\ w # "[" /\ w \notin CompareOps
      /\ "[" \notin CompareOps /\ "[" \notin Idents \cup Strings
      /\ CompareOps \cap (Idents \cup Strings) = {}
  BY WordFacts, Marks
<1>1. CASE \E w \in Words \cup Strings : v = <<w>>
  <2>1. PICK w \in Words \cup Strings : v = <<w>>
    BY <1>1
  <2>2. j = i + 1 /\ i <= Len(ts) /\ ts[i] = w
    BY <2>1, ReadsOne
  <2>3. Tok(ts, i) = w
    BY <2>2, TokIn
  <2>4. Bound(ts, i) /\ Lit(ts, i) # "[" /\ Lit(ts, i) \notin CompareOps
    <3>1. CASE w \in Strings
      BY <1>0, <2>2, <2>3, <3>1 DEF Bound, Lit
    <3>2. CASE w \notin Strings
      BY <1>0, <2>3, <3>2, NoQuotes DEF Bound, Lit
    <3> QED BY <3>1, <3>2
  <2> QED BY <2>1, <2>2, <2>4 DEF ParseValue
<1>2. CASE \E x, w \in Words \cup Strings : v = <<"[", x, "TO", w, "]">>
  <2>1. PICK x \in Words \cup Strings, w \in Words \cup Strings : v = <<"[", x, "TO", w, "]">>
    BY <1>2
  <2>2. /\ j = i + 5 /\ i + 4 <= Len(ts) /\ Len(v) = 5
        /\ \A k \in 1 .. 5 : ts[i + k - 1] = v[k]
    BY <2>1 DEF Reads
  <2>3. /\ ts[i] = "[" /\ ts[i + 1] = x /\ ts[i + 2] = "TO" /\ ts[i + 3] = w /\ ts[i + 4] = "]"
    <3>1. /\ v[1] = "[" /\ v[2] = x /\ v[3] = "TO" /\ v[4] = w /\ v[5] = "]"
      BY <2>1
    <3>2. /\ ts[i + 1 - 1] = v[1] /\ ts[i + 2 - 1] = v[2] /\ ts[i + 3 - 1] = v[3]
          /\ ts[i + 4 - 1] = v[4] /\ ts[i + 5 - 1] = v[5]
      BY <2>2
    <3> QED BY <3>1, <3>2
  <2>4. /\ Lit(ts, i) = "[" /\ Bound(ts, i + 1) /\ Lit(ts, i + 2) = "TO"
        /\ Bound(ts, i + 3) /\ Lit(ts, i + 4) = "]"
    <3>1. /\ i <= Len(ts) /\ i + 1 <= Len(ts) /\ i + 2 <= Len(ts)
          /\ i + 3 <= Len(ts) /\ i + 4 <= Len(ts)
      BY <2>2
    <3>2. /\ Tok(ts, i) = "[" /\ Tok(ts, i + 1) = x /\ Tok(ts, i + 2) = "TO"
          /\ Tok(ts, i + 3) = w /\ Tok(ts, i + 4) = "]"
      BY <2>3, <3>1, TokIn
    <3>3. Lit(ts, i) = "["
      BY <3>2, LitOf, Marks
    <3>4. Lit(ts, i + 4) = "]"
      BY <3>2, LitOf, Marks
    <3>5. Lit(ts, i + 2) = "TO"
      BY <3>2, LitOf, WordFacts DEF Keywords
    <3> QED BY <1>0, <3>2, <3>3, <3>4, <3>5 DEF Bound
  <2>5. ParseValue(ts, i) = Node(SubSeq(ts, i, i + 4), i + 5)
    <3>1. Lit(ts, i) \notin CompareOps
      BY <1>0, <2>4
    <3> QED BY <2>4, <3>1 DEF ParseValue
  <2>6. SubSeq(ts, i, i + 4) = v
    <3> DEFINE S == {"[", x, "TO", w, "]"}
    <3>1. \A k \in i .. i + 4 : ts[k] \in S
      BY <2>3
    <3>2. /\ SubSeq(ts, i, i + 4) \in Seq(S) /\ Len(SubSeq(ts, i, i + 4)) = 5
          /\ \A k \in 1 .. 5 : SubSeq(ts, i, i + 4)[k] = ts[i + k - 1]
      <4> HIDE DEF S
      <4> QED BY <3>1, SubSeqProperties
    <3>3. v \in Seq(S)
      BY <2>1
    <3> HIDE DEF S
    <3> QED BY <2>2, <3>2, <3>3, SeqEqual
  <2> QED BY <2>2, <2>5, <2>6
<1>3. CASE \E o \in CompareOps : \E w \in Words \cup Strings : v = <<o, w>>
  <2>1. PICK o \in CompareOps : \E w \in Words \cup Strings : v = <<o, w>>
    BY <1>3
  <2>2. PICK w \in Words \cup Strings : v = <<o, w>>
    BY <2>1
  <2>3. /\ j = i + 2 /\ i + 1 <= Len(ts) /\ ts[i] = o /\ ts[i + 1] = w
    BY <2>2 DEF Reads
  <2>4. Lit(ts, i) = o /\ Bound(ts, i + 1)
    <3>1. Tok(ts, i) = o /\ Tok(ts, i + 1) = w
      BY <2>3, TokIn
    <3> QED BY <1>0, <3>1, LitOf DEF Bound
  <2>5. ParseValue(ts, i) = Node(SubSeq(ts, i, i + 1), i + 2)
    <3>1. Lit(ts, i) # "[" /\ Lit(ts, i) \in CompareOps
      BY <1>0, <2>4
    <3> QED BY <2>4, <3>1 DEF ParseValue
  <2>6. SubSeq(ts, i, i + 1) = v
    <3> DEFINE S == {o, w}
    <3>1. \A k \in i .. i + 1 : ts[k] \in S
      BY <2>3
    <3>2. /\ SubSeq(ts, i, i + 1) \in Seq(S) /\ Len(SubSeq(ts, i, i + 1)) = 2
          /\ \A k \in 1 .. 2 : SubSeq(ts, i, i + 1)[k] = ts[i + k - 1]
      <4> HIDE DEF S
      <4> QED BY <3>1, SubSeqProperties
    <3>3. v \in Seq(S) /\ Len(v) = 2 /\ \A k \in 1 .. 2 : v[k] = ts[i + k - 1]
      <4>1. v \in Seq(S) /\ Len(v) = 2 /\ v[1] = o /\ v[2] = w
        BY <2>2
      <4>2. \A k \in 1 .. 2 : k = 1 \/ k = 2
        OBVIOUS
      <4>3. i + 1 - 1 = i /\ i + 2 - 1 = i + 1
        OBVIOUS
      <4> QED BY <2>3, <4>1, <4>2, <4>3
    <3> HIDE DEF S
    <3> QED BY <3>2, <3>3, SeqEqual
  <2> QED BY <2>3, <2>5, <2>6
<1> QED BY <1>1, <1>2, <1>3 DEF ClauseValues

(* The parts of a clause that stands in a text. *)
LEMMA ClauseSplit ==
  ASSUME NEW ts, Len(ts) \in Nat, NEW i \in Nat \ {0}, NEW j, NEW c \in DocumentedClauses,
         Reads(ts, i, WriteClause(c), j)
  PROVE  /\ i + 1 <= Len(ts) /\ ts[i] = c.field /\ ts[i + 1] = ":" /\ j > i
         /\ \E k, l \in Nat \ {0} :
              /\ Reads(ts, i + 2, c.value, k) /\ Reads(ts, k, WriteFuzzy(c.fuzzy), l)
              /\ Reads(ts, l, WriteBoost(c.boost), j)
<1> DEFINE h == <<c.field, ":">>
           v == c.value
           z == WriteFuzzy(c.fuzzy)
           b == WriteBoost(c.boost)
<1>1. WriteClause(c) = ((h \o v) \o z) \o b
  BY DEF WriteClause, WriteFuzzy, WriteBoost
<1>2. c \in AnyClauses
  BY MeantParts
<1>3. v \in Seq(Fragments) /\ z \in Seq(Fragments) /\ b \in Seq(Fragments)
  BY <1>2, ModifiersWritten DEF AnyClauses
<1>4. h \in Seq(Fragments) /\ Len(h) = 2 /\ h[1] = c.field /\ h[2] = ":"
  <2>1. ":" \in Fragments /\ c.field \in Fragments
    BY <1>2, Marks DEF Fragments, Tokens, AnyClauses
  <2> QED BY <2>1, Tuples
<1> HIDE DEF h, v, z, b
<1>5. h \o v \in Seq(Fragments) /\ (h \o v) \o z \in Seq(Fragments)
  BY <1>3, <1>4, ConcatProperties
<1> DEFINE l == i + Len((h \o v) \o z)
           k == i + Len(h \o v)
<1>6. l \in Nat /\ Reads(ts, i, (h \o v) \o z, l) /\ Reads(ts, l, b, j)
  <2>1. Reads(ts, i, ((h \o v) \o z) \o b, j)
    BY <1>1
  <2> DEFINE u == (h \o v) \o z
  <2>2. u \in Seq(Fragments) /\ Reads(ts, i, u \o b, j)
    BY <1>5, <2>1
  <2> HIDE DEF u
  <2>3. i + Len(u) \in Nat /\ Reads(ts, i, u, i + Len(u)) /\ Reads(ts, i + Len(u), b, j)
    BY <1>3, <2>2, ReadsSplit
  <2> QED BY <2>3 DEF u
<1>7. k \in Nat /\ Reads(ts, i, h \o v, k) /\ Reads(ts, k, z, l)
  <2> HIDE DEF l
  <2> QED BY <1>3, <1>5, <1>6, ReadsSplit
<1>8. Reads(ts, i, h, i + 2) /\ Reads(ts, i + 2, v, k)
  <2> HIDE DEF l, k
  <2> QED BY <1>3, <1>4, <1>7, ReadsSplit
<1> HIDE DEF l, k
<1>9. i + 1 <= Len(ts) /\ ts[i] = c.field /\ ts[i + 1] = ":"
  <2>1. ts[i + 1 - 1] = h[1] /\ ts[i + 2 - 1] = h[2] /\ i + 2 <= Len(ts) + 1
    BY <1>4, <1>8 DEF Reads
  <2>2. i + 1 - 1 = i /\ i + 2 - 1 = i + 1
    OBVIOUS
  <2> QED BY <1>4, <2>1, <2>2
<1>10. i + 2 <= k /\ k <= l /\ l <= j
  BY <1>3, <1>6, <1>7, <1>8, ReadsBounds
<1>11. j \in Nat
  BY <1>3, <1>6, ReadsBounds
<1>12. k \in Nat \ {0} /\ l \in Nat \ {0} /\ j > i
  BY <1>6, <1>7, <1>10, <1>11
<1> QED BY <1>6, <1>7, <1>8, <1>9, <1>12 DEF v, z, b

(* A clause of the syntax table is read as it was meant. *)
LEMMA ClauseComplete ==
  ASSUME NEW ts, Len(ts) \in Nat, NEW i \in Nat \ {0}, NEW j, NEW c \in DocumentedClauses,
         Reads(ts, i, WriteClause(c), j), Tok(ts, j) \in After, Separate(ts)
  PROVE  ParseClause(ts, i) = Node(c, j)
<1>1. PICK k \in Nat \ {0}, l \in Nat \ {0} :
              /\ Reads(ts, i + 2, c.value, k) /\ Reads(ts, k, WriteFuzzy(c.fuzzy), l)
              /\ Reads(ts, l, WriteBoost(c.boost), j)
  BY ClauseSplit
<1>2. /\ c.field \in Names /\ c.value \in ClauseValues /\ c.fuzzy \in DocumentedDistances
      /\ c.boost \in Numbers \cup {NoBoost}
      /\ c = [field |-> c.field, value |-> c.value, fuzzy |-> c.fuzzy, boost |-> c.boost]
  BY DEF DocumentedClauses, DocumentedDistances
<1>3. ParseValue(ts, i + 2) = Node(c.value, k)
  <2>1. i + 2 \in Nat
    OBVIOUS
  <2>2. ASSUME i + 2 <= Len(ts), ts[i + 2] \in Strings
        PROVE  Value(ts[i + 2]) \notin {"["} \cup CompareOps
    <3>1. i + 1 \in 1 .. Len(ts) - 1 /\ (i + 1) + 1 = i + 2
      BY <2>2
    <3>2. ts[i + 1] = ":"
      BY ClauseSplit
    <3> QED BY <2>2, <3>1, <3>2 DEF Separate
  <2> QED BY <1>1, <1>2, <2>1, <2>2, ValueComplete
<1>4. ParseBoost(ts, l) = Node(c.boost, j) /\ Tok(ts, l) \in After \cup {"^"}
  BY <1>1, <1>2, BoostComplete
<1>5. ParseFuzzy(ts, k) = Node(c.fuzzy, l)
  BY <1>1, <1>2, <1>4, FuzzyComplete
<1>6. i + 1 <= Len(ts) /\ ts[i] = c.field /\ ts[i + 1] = ":"
  BY ClauseSplit
<1>7. Tok(ts, i) \in Idents /\ Lit(ts, i + 1) = ":"
  <2>1. i <= Len(ts)
    BY <1>6
  <2>2. Tok(ts, i + 1) = ":"
    BY <1>6, TokIn
  <2>3. Lit(ts, i + 1) = ":"
    BY <2>2, LitOf, Marks
  <2> QED BY <1>2, <1>6, <2>1, <2>3, TokIn, WordFacts
<1> DEFINE v == ParseValue(ts, i + 2)
           z == ParseFuzzy(ts, v.next)
           b == ParseBoost(ts, z.next)
<1>8. v.ok /\ v.node = c.value /\ v.next = k
  <2> HIDE DEF v
  <2> QED BY <1>3, NodeOf DEF v
<1>9. z.node = c.fuzzy /\ z.next = l
  <2>1. z = Node(c.fuzzy, l)
    BY <1>5, <1>8
  <2> HIDE DEF z
  <2> QED BY <2>1, NodeOf
<1>10. b.node = c.boost /\ b.next = j
  <2>1. b = Node(c.boost, j)
    BY <1>4, <1>9
  <2> HIDE DEF b
  <2> QED BY <2>1, NodeOf
<1>11. ParseClause(ts, i) = Node([field |-> ts[i], value |-> v.node, fuzzy |-> z.node, boost |-> b.node], b.next)
  BY <1>7, <1>8 DEF ParseClause
<1> HIDE DEF v, z, b
<1> QED BY <1>2, <1>6, <1>8, <1>9, <1>10, <1>11

(* Where a conjunction may end, and an operand begin. *)
AndEnd(ts, j) == Tok(ts, j) \in Closers \/ (Tok(ts, j) = "OR" /\ Lit(ts, j + 1) # ":")
Openers == Names \cup {"("}
Begins == Openers \cup {"AND", "NOT"}

(* The parsers return what was meant by what stands at i: of an expression, of further
   operands, of further conjunctions. *)
ExpressionMeant(ts, i) ==
  \A q \in Queries : \A j :
    Reads(ts, i, Write(q), j) /\ Tok(ts, j) \in Closers => ParseExpression(ts, i) = Node(q, j)
AndOpsMeant(ts, i) ==
  \A a \in Seq(MeantOperand) : \A j :
    Reads(ts, i, WriteAnd(a), j) /\ AndEnd(ts, j) => ParseAndOps(ts, i) = Node(a, j)
OrOpsMeant(ts, i) ==
  \A o \in Seq(Meant) : \A j :
    Reads(ts, i, WriteOrs(o), j) /\ Tok(ts, j) \in Closers => ParseOrOps(ts, i) = Node(o, j)
MeantAt(ts, i) == ExpressionMeant(ts, i) /\ AndOpsMeant(ts, i) /\ OrOpsMeant(ts, i)
MeantAfter(ts, i) == \A j \in i + 1 .. Len(ts) + 1 : MeantAt(ts, j)

(* Where an operand begins none ends, but one may have ended. *)
LEMMA BeginsParts ==
  /\ Begins \subseteq After /\ "OR" \in After /\ Closers \subseteq After
  /\ "AND" \notin Openers /\ "NOT" \notin Openers
  /\ ":" \notin Begins /\ Closers \cap Idents = {} /\ "(" \notin Closers /\ "(" \notin Names
  /\ Closers \cap {"AND", "NOT", "OR"} = {}
<1>1. Names \cap Punctuation = {} /\ {"AND", "NOT", "OR"} \subseteq Keywords /\ Keywords \cap Punctuation = {}
      /\ Keywords \cap Names = {} /\ Keywords \subseteq Idents
  BY WordFacts, WordsAssumption DEF Keywords
<1>2. Closers \cap Idents = {}
  BY WordFacts, Marks DEF Closers
<1>3. "(" \notin Closers /\ "(" \notin Names /\ ":" \notin Names /\ "(" \notin Keywords /\ ":" \notin Keywords
  BY <1>1, Marks DEF Closers, EndOfText
<1> QED BY <1>1, <1>2, <1>3 DEF Begins, Openers, After

(* The parts of a group that stands in a text. *)
LEMMA GroupSplit ==
  ASSUME NEW ts, Len(ts) \in Nat, NEW i \in Nat \ {0}, NEW j, NEW n \in MeantOperand, n.kind = "group",
         Reads(ts, i, WritePrimary(n), j)
  PROVE  /\ i <= Len(ts) /\ ts[i] = "("
         /\ \E k \in Nat : /\ k > i /\ Reads(ts, i + 1, Write(n.of), k) /\ j = k + 1
                           /\ k <= Len(ts) /\ ts[k] = ")"
<1> DEFINE w == Write(n.of)
           open == <<"(">>
           close == <<")">>
<1>1. WritePrimary(n) = (open \o w) \o close
  BY DEF WritePrimary
<1>2. w \in Seq(Fragments)
  BY MeantShape, QueriesAssumption, WriteType
<1>3. open \in Seq(Fragments) /\ close \in Seq(Fragments) /\ Len(open) = 1
  <2>1. "(" \in Fragments /\ ")" \in Fragments
    BY Marks DEF Fragments, Tokens
  <2> QED BY <2>1, Tuples
<1> DEFINE k == i + Len(open \o w)
<1> HIDE DEF w
<1>4. open \o w \in Seq(Fragments)
  <2> HIDE DEF open
  <2> QED BY <1>2, <1>3, ConcatProperties
<1>5. k \in Nat /\ Reads(ts, i, open \o w, k) /\ Reads(ts, k, close, j)
  <2>1. Reads(ts, i, (open \o w) \o close, j)
    BY <1>1
  <2> HIDE DEF open, close
  <2> QED BY <1>3, <1>4, <2>1, ReadsSplit
<1> HIDE DEF k
<1>6. Reads(ts, i, open, i + 1) /\ Reads(ts, i + 1, w, k)
  <2> HIDE DEF open
  <2> QED BY <1>2, <1>3, <1>5, ReadsSplit
<1>7. i <= Len(ts) /\ ts[i] = "("
  BY <1>6, ReadsOne
<1>8. j = k + 1 /\ k <= Len(ts) /\ ts[k] = ")"
  BY <1>5, ReadsOne
<1>9. k > i
  <2>1. i + 1 \in Nat
    OBVIOUS
  <2>2. i + 1 <= k
    BY <1>2, <1>6, <2>1, ReadsBounds
  <2> QED BY <1>5, <2>2
<1> QED BY <1>5, <1>6, <1>7, <1>8, <1>9 DEF w

(* A group or a clause begins with a parenthesis or a name. *)
LEMMA PrimaryFirst ==
  ASSUME NEW ts, Len(ts) \in Nat, NEW i \in Nat \ {0}, NEW j, NEW n \in MeantOperand,
         Reads(ts, i, WritePrimary(n), j)
  PROVE  Tok(ts, i) \in Openers /\ i <= Len(ts) /\ j > i
<1>1. CASE n.kind = "group"
  <2>1. i <= Len(ts) /\ ts[i] = "("
    BY <1>1, GroupSplit
  <2>2. PICK k \in Nat : k > i /\ j = k + 1
    BY <1>1, GroupSplit
  <2>3. j > i
    BY <2>2
  <2> QED BY <2>1, <2>3, TokIn DEF Openers
<1>2. CASE n.kind # "group"
  <2>1. n.of \in DocumentedClauses /\ Reads(ts, i, WriteClause(n.of), j)
    BY <1>2, MeantShape DEF WritePrimary
  <2>2. i + 1 <= Len(ts) /\ ts[i] = n.of.field /\ j > i
    BY <2>1, ClauseSplit
  <2>3. n.of.field \in Names
    BY <2>1 DEF DocumentedClauses
  <2>4. i <= Len(ts)
    BY <2>2
  <2> QED BY <2>2, <2>3, <2>4, TokIn DEF Openers
<1> QED BY <1>1, <1>2

(* A group or a clause is read as it was meant. *)
LEMMA PrimaryComplete ==
  ASSUME NEW ts \in Texts, NEW i \in Nat \ {0}, NEW j, NEW n \in MeantOperand,
         Reads(ts, i, WritePrimary(n), j), Tok(ts, j) \in After, Separate(ts), MeantAfter(ts, i)
  PROVE  ParsePrimary(ts, i, n.op, n.not) = Node(n, j)
<1>0. Len(ts) \in Nat
  BY TextShape
<1> DEFINE m(k, x) == [op |-> n.op, not |-> n.not, kind |-> k, of |-> x]
           group == ParseExpression(ts, i + 1)
           clause == ParseClause(ts, i)
           r == ParsePrimary(ts, i, n.op, n.not)
<1>1. CASE n.kind = "group"
  <2>1. Lit(ts, i) = "("
    <3>1. Tok(ts, i) = "("
      BY <1>0, <1>1, GroupSplit, TokIn
    <3> QED BY <3>1, LitOf, Marks
  <2>2. PICK k \in Nat : /\ k > i /\ Reads(ts, i + 1, Write(n.of), k) /\ j = k + 1
                         /\ k <= Len(ts) /\ ts[k] = ")"
    BY <1>0, <1>1, GroupSplit
  <2>3. Tok(ts, k) = ")" /\ Lit(ts, k) = ")" /\ ")" \in Closers
    <3>1. Tok(ts, k) = ")"
      BY <2>2, TokIn
    <3> QED BY <3>1, LitOf, Marks DEF Closers
  <2>4. i + 1 \in i + 1 .. Len(ts) + 1
    BY <1>0, <2>2
  <2>5. ExpressionMeant(ts, i + 1)
    BY <2>4 DEF MeantAfter, MeantAt
  <2>6. n.of \in Queries
    BY <1>1, MeantShape
  <2>7. group = Node(n.of, k)
    BY <2>2, <2>3, <2>5, <2>6 DEF ExpressionMeant
  <2> HIDE DEF group
  <2>8. group.ok /\ group.node = n.of /\ group.next = k
    BY <2>7, NodeOf
  <2>9. r = Node(m("group", group.node), group.next + 1)
    BY <2>1, <2>3, <2>8 DEF ParsePrimary, group
  <2>10. m("group", n.of) = n
    BY <1>1, MeantShape
  <2> QED BY <2>2, <2>8, <2>9, <2>10
<1>2. CASE n.kind # "group"
  <2>1. n.of \in DocumentedClauses /\ Reads(ts, i, WriteClause(n.of), j)
    BY <1>2, MeantShape DEF WritePrimary
  <2>2. clause = Node(n.of, j)
    BY <1>0, <2>1, ClauseComplete
  <2>3. Lit(ts, i) # "("
    <3>1. i <= Len(ts)
      BY <1>0, PrimaryFirst
    <3>2. Tok(ts, i) = n.of.field
      BY <1>0, <2>1, <3>1, ClauseSplit, TokIn
    <3>3. n.of.field \in Names
      BY <2>1 DEF DocumentedClauses
    <3> QED BY <3>2, <3>3, BeginsParts, LitOf, WordFacts
  <2> HIDE DEF clause
  <2>4. clause.ok /\ clause.node = n.of /\ clause.next = j
    BY <2>2, NodeOf
  <2>5. r = Node(m("clause", clause.node), clause.next)
    BY <2>3, <2>4 DEF ParsePrimary, clause
  <2>6. m("clause", n.of) = n
    BY <1>2, MeantShape
  <2> QED BY <2>4, <2>5, <2>6
<1> QED BY <1>1, <1>2

(* A keyword that stands in a text, or none. *)
LEMMA OptionalRead ==
  ASSUME NEW ts, Len(ts) \in Nat, NEW i \in Nat, NEW j, NEW b \in BOOLEAN, NEW t,
         Reads(ts, i, Optional(b, t), j)
  PROVE  j = (IF b THEN i + 1 ELSE i) /\ (b => i <= Len(ts) /\ Tok(ts, i) = t)
<1>1. CASE b
  <2>1. Reads(ts, i, <<t>>, j)
    BY <1>1 DEF Optional
  <2>2. j = i + 1 /\ i <= Len(ts) /\ ts[i] = t
    BY <2>1, ReadsOne
  <2> QED BY <1>1, <2>2, TokIn
<1>2. CASE ~b
  <2>1. Reads(ts, i, <<>>, j)
    BY <1>2 DEF Optional
  <2>2. j = i
    BY <2>1 DEF Reads
  <2> QED BY <1>2, <2>2
<1> QED BY <1>1, <1>2

(* The parts of an operand that stands in a text: AND, NOT and what they stand before. *)
LEMMA OperandSplit ==
  ASSUME NEW ts, Len(ts) \in Nat, NEW i \in Nat \ {0}, NEW j, NEW n \in MeantOperand,
         Reads(ts, i, WriteOperand(n), j)
  PROVE  LET k == IF n.op THEN i + 1 ELSE i
             m == IF n.not THEN k + 1 ELSE k IN
         /\ Lit(ts, i) = "AND" <=> n.op
         /\ Lit(ts, k) = "NOT" <=> n.not
         /\ Tok(ts, i) \in Begins /\ i <= Len(ts) /\ j > i
         /\ Reads(ts, m, WritePrimary(n), j)
<1> DEFINE k == IF n.op THEN i + 1 ELSE i
           m == IF n.not THEN k + 1 ELSE k
           a == Optional(n.op, "AND")
           b == Optional(n.not, "NOT")
           w == WritePrimary(n)
<1>1. n \in AnyOperand /\ n.op \in BOOLEAN /\ n.not \in BOOLEAN
  BY MeantParts, MeantShape
<1>2. /\ Reads(ts, i, (a \o b) \o w, j)
      /\ a \in Seq(Fragments) /\ b \in Seq(Fragments) /\ w \in Seq(Fragments)
  BY <1>1, OperandParts
<1> HIDE DEF a, b, w
<1> DEFINE u == a \o b
<1>3. u \in Seq(Fragments) /\ Reads(ts, i, u \o w, j)
  BY <1>2, ConcatProperties
<1> HIDE DEF u
<1> DEFINE p == i + Len(u)
<1>4. p \in Nat /\ Reads(ts, i, u, p) /\ Reads(ts, p, w, j)
  BY <1>2, <1>3, ReadsSplit
<1> HIDE DEF p
<1> DEFINE s == i + Len(a)
<1>5. s \in Nat /\ Reads(ts, i, a, s) /\ Reads(ts, s, b, p)
  <2>1. Reads(ts, i, a \o b, p)
    BY <1>4 DEF u
  <2> QED BY <1>2, <2>1, ReadsSplit
<1> HIDE DEF s
<1>6. s = k /\ (n.op => i <= Len(ts) /\ Tok(ts, i) = "AND")
  <2>1. Reads(ts, i, Optional(n.op, "AND"), s)
    BY <1>5 DEF a
  <2> QED BY <1>1, <2>1, OptionalRead
<1>7. p = m /\ (n.not => k <= Len(ts) /\ Tok(ts, k) = "NOT")
  <2>1. Reads(ts, s, Optional(n.not, "NOT"), p)
    BY <1>5 DEF b
  <2>2. p = (IF n.not THEN s + 1 ELSE s) /\ (n.not => s <= Len(ts) /\ Tok(ts, s) = "NOT")
    BY <1>1, <1>5, <2>1, OptionalRead
  <2> QED BY <1>6, <2>2
<1>8. k \in Nat \ {0} /\ k >= i /\ m \in Nat \ {0} /\ m >= k
  BY <1>1
<1>9. Tok(ts, m) \in Openers /\ m <= Len(ts) /\ j > m /\ Reads(ts, m, WritePrimary(n), j)
  <2>1. Reads(ts, m, WritePrimary(n), j)
    BY <1>4, <1>7 DEF w
  <2> HIDE DEF m
  <2> QED BY <1>8, <2>1, PrimaryFirst
<1>10. Tok(ts, k) = "NOT" <=> n.not
  <2>1. CASE n.not
    BY <1>7, <2>1
  <2>2. CASE ~n.not
    <3>1. m = k
      BY <2>2
    <3> HIDE DEF m, k
    <3> QED BY <1>9, <2>2, <3>1, BeginsParts
  <2> QED BY <2>1, <2>2
<1>11. Tok(ts, k) \in Openers \cup {"NOT"}
  <2>1. CASE n.not
    BY <1>7, <2>1
  <2>2. CASE ~n.not
    <3>1. m = k
      BY <2>2
    <3> HIDE DEF m, k
    <3> QED BY <1>9, <3>1
  <2> QED BY <2>1, <2>2
<1>12. (Tok(ts, i) = "AND" <=> n.op) /\ Tok(ts, i) \in Begins
  <2>1. CASE n.op
    BY <1>6, <2>1 DEF Begins
  <2>2. CASE ~n.op
    <3>1. k = i
      BY <2>2
    <3> HIDE DEF k
    <3> QED BY <1>11, <2>2, <3>1, BeginsParts DEF Begins
  <2> QED BY <2>1, <2>2
<1>13. i <= Len(ts) /\ j > i
  <2>1. j \in Nat
    <3> HIDE DEF m
    <3> QED BY <1>2, <1>4, ReadsBounds
  <2> HIDE DEF k, m
  <2> QED BY <1>8, <1>9, <2>1
<1>14. Lit(ts, i) = Tok(ts, i) /\ Lit(ts, k) = Tok(ts, k)
  BY <1>11, <1>12, AfterLit, BeginsParts DEF Begins
<1> QED BY <1>9, <1>10, <1>12, <1>13, <1>14

(* An operand is read as it was meant. *)
LEMMA OperandComplete ==
  ASSUME NEW ts \in Texts, NEW i \in Nat \ {0}, NEW j, NEW n \in MeantOperand,
         Reads(ts, i, WriteOperand(n), j), Tok(ts, j) \in After, Separate(ts), MeantAfter(ts, i)
  PROVE  ParseOperand(ts, IF n.op THEN i + 1 ELSE i, n.op) = Node(n, j)
<1> DEFINE k == IF n.op THEN i + 1 ELSE i
           m == IF n.not THEN k + 1 ELSE k
           not == Lit(ts, k) = "NOT"
<1>0. Len(ts) \in Nat
  BY TextShape
<1>1. (not <=> n.not) /\ Reads(ts, m, WritePrimary(n), j)
  BY <1>0, OperandSplit
<1>2. m \in Nat \ {0} /\ m >= i /\ n.not \in BOOLEAN
  BY MeantShape
<1>3. MeantAfter(ts, m)
  <2> HIDE DEF m
  <2>1. m + 1 .. Len(ts) + 1 \subseteq i + 1 .. Len(ts) + 1
    BY <1>0, <1>2
  <2> QED BY <2>1 DEF MeantAfter
<1>4. ParsePrimary(ts, m, n.op, n.not) = Node(n, j)
  <2> HIDE DEF m
  <2> QED BY <1>1, <1>2, <1>3, PrimaryComplete
<1>5. not = n.not
  BY <1>1, <1>2
<1>6. ParseOperand(ts, k, n.op) = ParsePrimary(ts, m, n.op, n.not)
  BY <1>5 DEF ParseOperand
<1> QED BY <1>4, <1>6

(* What follows an operand is the next one or the end of the conjunction. *)
LEMMA AndsBegin ==
  ASSUME NEW ts, Len(ts) \in Nat, NEW i \in Nat \ {0}, NEW j, NEW a \in Seq(MeantOperand),
         Reads(ts, i, WriteAnd(a), j), AndEnd(ts, j)
  PROVE  Tok(ts, i) \in After
<1>1. CASE a = <<>>
  <2>1. Reads(ts, i, <<>>, j)
    BY <1>1, WriteAndEmpty
  <2>2. i = j
    BY <2>1 DEF Reads
  <2> QED BY <2>2, BeginsParts DEF AndEnd
<1>2. CASE a # <<>>
  <2> DEFINE n == a[1]
             r == Tail(a)
  <2>1. a = <<n>> \o r /\ n \in MeantOperand /\ r \in Seq(MeantOperand)
    BY <1>2, ConsApart
  <2> HIDE DEF n, r
  <2>2. n \in AnyOperand /\ r \in Seq(AnyOperand)
    BY <2>1, MeantParts
  <2>3. WriteAnd(a) = WriteOperand(n) \o WriteAnd(r)
    BY <2>1, <2>2, WriteAndCons
  <2>4. Reads(ts, i, WriteOperand(n), i + Len(WriteOperand(n)))
    BY <2>2, <2>3, ReadsSplit, OperandsWritten, ConjunctionsWritten
  <2>5. Tok(ts, i) \in Begins
    BY <2>1, <2>4, OperandSplit
  <2> QED BY <2>5, BeginsParts
<1> QED BY <1>1, <1>2

(* What follows a conjunction is OR and the next one, or the end of the expression. *)
LEMMA OrsBegin ==
  ASSUME NEW ts, Len(ts) \in Nat, NEW i \in Nat \ {0}, NEW j, NEW o \in Seq(Meant),
         Reads(ts, i, WriteOrs(o), j), Tok(ts, j) \in Closers
  PROVE  AndEnd(ts, i)
<1>1. CASE o = <<>>
  <2>1. Reads(ts, i, <<>>, j)
    BY <1>1, WriteOrsEmpty
  <2>2. i = j
    BY <2>1 DEF Reads
  <2> QED BY <2>2 DEF AndEnd
<1>2. CASE o # <<>>
  <2> DEFINE a == o[1]
             r == Tail(o)
  <2>1. o = <<a>> \o r /\ a \in Meant /\ r \in Seq(Meant)
    BY <1>2, ConsApart
  <2> HIDE DEF a, r
  <2>2. a \in Seq(AnyOperand) /\ r \in Seq(Seq(AnyOperand)) /\ a \in Seq(MeantOperand) /\ a # <<>>
    BY <2>1, MeantParts DEF Meant, NonEmpty
  <2> DEFINE w == <<"OR">> \o WriteAnd(a)
             p == i + Len(w)
  <2>3. WriteOrs(o) = w \o WriteOrs(r)
    BY <2>1, <2>2, WriteOrsCons
  <2>4. w \in Seq(Fragments) /\ WriteOrs(r) \in Seq(Fragments) /\ WriteAnd(a) \in Seq(Fragments)
    BY <2>2, OrWritten, OrsWritten, ConjunctionsWritten
  <2>5. Reads(ts, i, w, p)
    <3> HIDE DEF w
    <3> QED BY <2>3, <2>4, ReadsSplit
  <2>6. <<"OR">> \in Seq(Fragments) /\ Len(<<"OR">>) = 1
    BY WordFacts, CleanParts, Tuples DEF Keywords
  <2> HIDE DEF p
  <2>7. Reads(ts, i, <<"OR">>, i + 1) /\ Reads(ts, i + 1, WriteAnd(a), p)
    <3> DEFINE or == <<"OR">>
    <3>1. Reads(ts, i, or \o WriteAnd(a), p) /\ or \in Seq(Fragments) /\ Len(or) = 1
      BY <2>5, <2>6
    <3> HIDE DEF or
    <3>2. Reads(ts, i, or, i + 1) /\ Reads(ts, i + 1, WriteAnd(a), p)
      BY <2>4, <3>1, ReadsSplit
    <3> QED BY <3>2 DEF or
  <2>8. i <= Len(ts) /\ ts[i] = "OR"
    BY <2>7, ReadsOne
  <2> DEFINE n == a[1]
             t == Tail(a)
  <2>9. a = <<n>> \o t /\ n \in MeantOperand /\ t \in Seq(MeantOperand)
    BY <2>2, ConsApart
  <2> HIDE DEF n, t
  <2>10. n \in AnyOperand /\ t \in Seq(AnyOperand)
    BY <2>9, MeantParts
  <2>11. WriteAnd(a) = WriteOperand(n) \o WriteAnd(t)
    BY <2>9, <2>10, WriteAndCons
  <2>12. i + 1 \in Nat \ {0}
    OBVIOUS
  <2>13. Reads(ts, i + 1, WriteOperand(n), i + 1 + Len(WriteOperand(n)))
    BY <2>7, <2>10, <2>11, <2>12, ReadsSplit, OperandsWritten, ConjunctionsWritten
  <2>14. Tok(ts, i + 1) \in Begins
    BY <2>9, <2>12, <2>13, OperandSplit
  <2>15. Lit(ts, i + 1) # ":"
    BY <2>14, AfterLit, BeginsParts
  <2> QED BY <2>8, <2>15, TokIn DEF AndEnd
<1> QED BY <1>1, <1>2

(* Where a conjunction ends no operand can be read. *)
LEMMA NoOperand ==
  ASSUME NEW ts, NEW i, AndEnd(ts, i)
  PROVE  Lit(ts, i) # "AND" /\ ~ParseOperand(ts, i, FALSE).ok
<1>1. Lit(ts, i) \notin {"AND", "NOT", "("}
  <2>1. Tok(ts, i) \in Closers \cup {"OR"}
    BY DEF AndEnd
  <2>2. Lit(ts, i) = Tok(ts, i)
    BY <2>1, AfterLit, BeginsParts
  <2>3. "OR" \notin {"AND", "NOT", "("}
    OBVIOUS
  <2> QED BY <2>1, <2>2, <2>3, BeginsParts
<1>2. ~(Tok(ts, i) \in Idents /\ Lit(ts, i + 1) = ":")
  BY BeginsParts DEF AndEnd
<1>3. ParseClause(ts, i) = Fail
  BY <1>2 DEF ParseClause
<1>4. ~Fail.ok
  BY DEF Fail
<1>5. ParsePrimary(ts, i, FALSE, FALSE) = Fail
  BY <1>1, <1>3, <1>4 DEF ParsePrimary
<1>6. ParseOperand(ts, i, FALSE) = ParsePrimary(ts, i, FALSE, FALSE)
  BY <1>1 DEF ParseOperand
<1> QED BY <1>1, <1>4, <1>5, <1>6

(* The first operand of a conjunction that stands in a text, and the others. *)
LEMMA AndSplit ==
  ASSUME NEW ts \in Texts, NEW i \in 1 .. Len(ts) + 1, NEW j, NEW a \in Seq(MeantOperand), a # <<>>,
         Reads(ts, i, WriteAnd(a), j), AndEnd(ts, j), Separate(ts), MeantAfter(ts, i)
  PROVE  \E n \in MeantOperand, r \in Seq(MeantOperand), k \in i + 1 .. Len(ts) + 1 :
           /\ a = <<n>> \o r /\ (Lit(ts, i) = "AND" <=> n.op)
           /\ ParseOperand(ts, IF n.op THEN i + 1 ELSE i, n.op) = Node(n, k)
           /\ ParseAndOps(ts, k) = Node(r, j)
<1> DEFINE n == a[1]
           r == Tail(a)
           k == i + Len(WriteOperand(n))
<1>0. Len(ts) \in Nat /\ i \in Nat \ {0}
  BY TextShape
<1>1. a = <<n>> \o r /\ n \in MeantOperand /\ r \in Seq(MeantOperand)
  BY ConsApart
<1> HIDE DEF n, r
<1>2. n \in AnyOperand /\ r \in Seq(AnyOperand)
  BY <1>1, MeantParts
<1>3. WriteAnd(a) = WriteOperand(n) \o WriteAnd(r)
  BY <1>1, <1>2, WriteAndCons
<1>4. WriteOperand(n) \in Seq(Fragments) /\ WriteAnd(r) \in Seq(Fragments)
  BY <1>2, OperandsWritten, ConjunctionsWritten
<1>5. k \in Nat /\ Reads(ts, i, WriteOperand(n), k) /\ Reads(ts, k, WriteAnd(r), j)
  BY <1>0, <1>3, <1>4, ReadsSplit
<1> HIDE DEF k
<1>6. (Lit(ts, i) = "AND" <=> n.op) /\ k > i
  BY <1>0, <1>1, <1>5, OperandSplit
<1>7. k \in i + 1 .. Len(ts) + 1 /\ k \in Nat \ {0}
  <2>1. k <= Len(ts) + 1
    BY <1>5 DEF Reads
  <2> QED BY <1>0, <1>5, <1>6, <2>1
<1>8. Tok(ts, k) \in After
  BY <1>0, <1>1, <1>5, <1>7, AndsBegin
<1>9. ParseOperand(ts, IF n.op THEN i + 1 ELSE i, n.op) = Node(n, k)
  BY <1>0, <1>1, <1>5, <1>8, OperandComplete
<1>10. ParseAndOps(ts, k) = Node(r, j)
  <2>1. AndOpsMeant(ts, k)
    BY <1>7 DEF MeantAfter, MeantAt
  <2> QED BY <1>1, <1>5, <2>1 DEF AndOpsMeant
<1> QED BY <1>1, <1>6, <1>7, <1>9, <1>10

(* Further operands are read as they were meant, and nothing else, ... *)
LEMMA AndOpsComplete ==
  ASSUME NEW ts \in Texts, NEW i \in 1 .. Len(ts) + 1, Separate(ts), MeantAfter(ts, i)
  PROVE  AndOpsMeant(ts, i)
<1> SUFFICES ASSUME NEW a \in Seq(MeantOperand), NEW j, Reads(ts, i, WriteAnd(a), j), AndEnd(ts, j)
             PROVE  ParseAndOps(ts, i) = Node(a, j)
  BY DEF AndOpsMeant
<1> DEFINE op == Lit(ts, i) = "AND"
           first == ParseOperand(ts, IF op THEN i + 1 ELSE i, op)
           more == ParseAndOps(ts, first.next)
<1>1. ParseAndOps(ts, i) = IF first.ok THEN Node(<<first.node>> \o more.node, more.next) ELSE Node(<<>>, i)
  BY Unfold DEF ParseAndOpsDef
<1>2. CASE a = <<>>
  <2>1. Reads(ts, i, <<>>, j)
    BY <1>2, WriteAndEmpty
  <2>2. i = j
    BY <2>1, TextShape DEF Reads
  <2>3. ~op /\ ~ParseOperand(ts, i, FALSE).ok
    BY <2>2, NoOperand
  <2>4. op = FALSE /\ first = ParseOperand(ts, i, FALSE)
    BY <2>3
  <2> HIDE DEF first, more
  <2> QED BY <1>1, <1>2, <2>2, <2>3, <2>4
<1>3. CASE a # <<>>
  <2>1. PICK n \in MeantOperand, r \in Seq(MeantOperand), k \in i + 1 .. Len(ts) + 1 :
           /\ a = <<n>> \o r /\ (Lit(ts, i) = "AND" <=> n.op)
           /\ ParseOperand(ts, IF n.op THEN i + 1 ELSE i, n.op) = Node(n, k)
           /\ ParseAndOps(ts, k) = Node(r, j)
    BY <1>3, AndSplit
  <2>2. op = n.op
    BY <2>1, MeantShape
  <2>3. first = Node(n, k)
    BY <2>1, <2>2
  <2> HIDE DEF first
  <2>4. first.ok /\ first.node = n /\ first.next = k
    BY <2>3, NodeOf
  <2>5. more = Node(r, j)
    BY <2>1, <2>4
  <2> HIDE DEF more
  <2>6. more.node = r /\ more.next = j
    BY <2>5, NodeOf
  <2> QED BY <1>1, <2>1, <2>4, <2>6
<1> QED BY <1>2, <1>3

(* ... as is a conjunction. *)
LEMMA AndComplete ==
  ASSUME NEW ts \in Texts, NEW i \in 1 .. Len(ts) + 1, NEW j, NEW a \in Meant,
         Reads(ts, i, WriteAnd(a), j), AndEnd(ts, j), Separate(ts), MeantAfter(ts, i)
  PROVE  ParseAnd(ts, i) = Node(a, j)
<1> DEFINE first == ParseOperand(ts, i, FALSE)
           more == ParseAndOps(ts, first.next)
<1>0. a \in Seq(MeantOperand) /\ a # <<>> /\ ~a[1].op
  BY DEF Meant, NonEmpty
<1>1. PICK n \in MeantOperand, r \in Seq(MeantOperand), k \in i + 1 .. Len(ts) + 1 :
           /\ a = <<n>> \o r /\ (Lit(ts, i) = "AND" <=> n.op)
           /\ ParseOperand(ts, IF n.op THEN i + 1 ELSE i, n.op) = Node(n, k)
           /\ ParseAndOps(ts, k) = Node(r, j)
  BY <1>0, AndSplit
<1>2. a[1] = n
  BY <1>1, ConsShape
<1>3. n.op = FALSE
  BY <1>0, <1>2, MeantShape
<1>4. first = Node(n, k)
  BY <1>1, <1>3
<1> HIDE DEF first
<1>5. first.ok /\ first.node = n /\ first.next = k
  BY <1>4, NodeOf
<1>6. more = Node(r, j)
  BY <1>1, <1>5
<1> HIDE DEF more
<1>7. more.node = r /\ more.next = j
  BY <1>6, NodeOf
<1>8. ParseAnd(ts, i) = Node(<<first.node>> \o more.node, more.next)
  BY <1>5 DEF ParseAnd, first, more
<1> QED BY <1>1, <1>5, <1>7, <1>8

(* The first conjunction of those that stand in a text, and the others. *)
LEMMA OrSplit ==
  ASSUME NEW ts \in Texts, NEW i \in 1 .. Len(ts) + 1, NEW j, NEW l, NEW a \in Meant, NEW o \in Seq(Meant),
         Reads(ts, i, WriteAnd(a), l), Reads(ts, l, WriteOrs(o), j), Tok(ts, j) \in Closers,
         Separate(ts), MeantAfter(ts, i)
  PROVE  ParseAnd(ts, i) = Node(a, l) /\ ParseOrOps(ts, l) = Node(o, j)
<1>0. Len(ts) \in Nat /\ i \in Nat \ {0} /\ a \in Seq(MeantOperand) /\ a # <<>>
  BY TextShape DEF Meant, NonEmpty
<1>1. WriteAnd(a) \in Seq(Fragments)
  BY <1>0, MeantParts, ConjunctionsWritten
<1>2. l \in Nat \ {0} /\ i <= l /\ l <= Len(ts) + 1
  <2>1. l \in Nat /\ i <= l /\ l <= Len(ts) + 1
    BY <1>0, <1>1, ReadsBounds
  <2> QED BY <1>0, <2>1
<1>3. AndEnd(ts, l)
  BY <1>0, <1>2, OrsBegin
<1>4. ParseAnd(ts, i) = Node(a, l)
  BY <1>3, AndComplete
<1>5. l > i
  <2>1. PICK n \in MeantOperand, r \in Seq(MeantOperand) : a = <<n>> \o r
    BY <1>0, ConsApart
  <2>2. n \in AnyOperand /\ r \in Seq(AnyOperand)
    BY <2>1, MeantParts
  <2>3. WriteAnd(a) = WriteOperand(n) \o WriteAnd(r)
    BY <2>1, <2>2, WriteAndCons
  <2>4. WriteOperand(n) \in Seq(Fragments) /\ WriteAnd(r) \in Seq(Fragments)
    BY <2>2, OperandsWritten, ConjunctionsWritten
  <2> DEFINE k == i + Len(WriteOperand(n))
  <2>5. k \in Nat /\ Reads(ts, i, WriteOperand(n), k) /\ Reads(ts, k, WriteAnd(r), l)
    BY <1>0, <2>3, <2>4, ReadsSplit
  <2> HIDE DEF k
  <2>6. k > i
    BY <1>0, <2>5, OperandSplit
  <2>7. k <= l
    BY <2>4, <2>5, ReadsBounds
  <2> QED BY <1>0, <1>2, <2>5, <2>6, <2>7
<1>6. ParseOrOps(ts, l) = Node(o, j)
  <2>1. l \in i + 1 .. Len(ts) + 1
    BY <1>0, <1>2, <1>5
  <2>2. OrOpsMeant(ts, l)
    BY <2>1 DEF MeantAfter, MeantAt
  <2> QED BY <2>2 DEF OrOpsMeant
<1> QED BY <1>4, <1>6

(* Further conjunctions are read as they were meant, and nothing else, ... *)
LEMMA OrOpsComplete ==
  ASSUME NEW ts \in Texts, NEW i \in 1 .. Len(ts) + 1, Separate(ts), MeantAfter(ts, i)
  PROVE  OrOpsMeant(ts, i)
<1> SUFFICES ASSUME NEW o \in Seq(Meant), NEW j, Reads(ts, i, WriteOrs(o), j), Tok(ts, j) \in Closers
             PROVE  ParseOrOps(ts, i) = Node(o, j)
  BY DEF OrOpsMeant
<1> DEFINE first == ParseAnd(ts, i + 1)
           more == ParseOrOps(ts, first.next)
<1>0. Len(ts) \in Nat /\ i \in Nat \ {0}
  BY TextShape
<1>1. ParseOrOps(ts, i) = IF Lit(ts, i) = "OR" /\ first.ok THEN Node(<<first.node>> \o more.node, more.next)
                          ELSE Node(<<>>, i)
  BY Unfold DEF ParseOrOpsDef
<1>2. CASE o = <<>>
  <2>1. Reads(ts, i, <<>>, j)
    BY <1>2, WriteOrsEmpty
  <2>2. i = j
    BY <1>0, <2>1 DEF Reads
  <2>3. Lit(ts, i) # "OR"
    BY <2>2, AfterLit, BeginsParts
  <2> QED BY <1>1, <1>2, <2>2, <2>3
<1>3. CASE o # <<>>
  <2> DEFINE a == o[1]
             r == Tail(o)
             or == <<"OR">>
             w == or \o WriteAnd(a)
             l == i + Len(w)
  <2>1. o = <<a>> \o r /\ a \in Meant /\ r \in Seq(Meant)
    BY <1>3, ConsApart
  <2> HIDE DEF a, r
  <2>2. a \in Seq(AnyOperand) /\ r \in Seq(Seq(AnyOperand))
    BY <2>1, MeantParts
  <2>3. WriteOrs(o) = w \o WriteOrs(r)
    BY <2>1, <2>2, WriteOrsCons
  <2>4. w \in Seq(Fragments) /\ WriteOrs(r) \in Seq(Fragments) /\ WriteAnd(a) \in Seq(Fragments)
    BY <2>2, OrWritten, OrsWritten, ConjunctionsWritten
  <2>5. Reads(ts, i, w, l) /\ Reads(ts, l, WriteOrs(r), j)
    <3> HIDE DEF w
    <3> QED BY <1>0, <2>3, <2>4, ReadsSplit
  <2>6. or \in Seq(Fragments) /\ Len(or) = 1
    BY WordFacts, CleanParts, Tuples DEF Keywords
  <2> HIDE DEF l
  <2>7. Reads(ts, i, or, i + 1) /\ Reads(ts, i + 1, WriteAnd(a), l)
    <3>1. Reads(ts, i, or \o WriteAnd(a), l)
      BY <2>5
    <3> HIDE DEF or
    <3> QED BY <1>0, <2>4, <2>6, <3>1, ReadsSplit
  <2>8. i <= Len(ts) /\ ts[i] = "OR"
    BY <1>0, <2>7, ReadsOne
  <2>9. i + 1 \in 1 .. Len(ts) + 1 /\ MeantAfter(ts, i + 1)
    <3>1. i + 1 + 1 .. Len(ts) + 1 \subseteq i + 1 .. Len(ts) + 1
      BY <1>0
    <3> QED BY <1>0, <2>8, <3>1 DEF MeantAfter
  <2>10. first = Node(a, l) /\ ParseOrOps(ts, l) = Node(r, j)
    <3> DEFINE p == i + 1
    <3>1. p \in 1 .. Len(ts) + 1 /\ MeantAfter(ts, p) /\ Reads(ts, p, WriteAnd(a), l)
      BY <2>7, <2>9
    <3>2. Reads(ts, l, WriteOrs(r), j) /\ a \in Meant /\ r \in Seq(Meant)
      BY <2>1, <2>5
    <3> HIDE DEF p
    <3>3. ParseAnd(ts, p) = Node(a, l) /\ ParseOrOps(ts, l) = Node(r, j)
      BY <3>1, <3>2, OrSplit
    <3> QED BY <3>3 DEF p
  <2>11. Lit(ts, i) = "OR"
    BY <2>8, TokIn, AfterLit, BeginsParts
  <2> HIDE DEF first
  <2>12. first.ok /\ first.node = a /\ first.next = l
    BY <2>10, NodeOf
  <2>13. more = Node(r, j)
    BY <2>10, <2>12
  <2> HIDE DEF more
  <2>14. more.node = r /\ more.next = j
    BY <2>13, NodeOf
  <2> QED BY <1>1, <2>1, <2>11, <2>12, <2>14
<1> QED BY <1>2, <1>3

(* A query is conjunctions, at least one. *)
LEMMA QueryParts ==
  ASSUME NEW q \in Queries
  PROVE  q \in Exprs /\ q \in Seq(Meant) /\ q # <<>>
<1>1. q \in Exprs /\ q # <<>> /\ DOMAIN q = 1 .. Len(q)
  BY QueryShape, ExprShape
<1>2. \A k \in 1 .. Len(q) : q[k] \in Meant
  BY QueryShape DEF Meant, MeantOperand
<1>3. q \in Seq(Meant)
  <2>1. q = [k \in 1 .. Len(q) |-> q[k]] /\ Len(q) \in Nat
    BY <1>1, QueryShape, LenProperties
  <2> QED BY <1>2, <2>1
<1> QED BY <1>1, <1>3

(* ... as is an expression. *)
LEMMA ExpressionComplete ==
  ASSUME NEW ts \in Texts, NEW i \in 1 .. Len(ts) + 1, Separate(ts), MeantAfter(ts, i)
  PROVE  ExpressionMeant(ts, i)
<1> SUFFICES ASSUME NEW q \in Queries, NEW j, Reads(ts, i, Write(q), j), Tok(ts, j) \in Closers
             PROVE  ParseExpression(ts, i) = Node(q, j)
  BY DEF ExpressionMeant
<1> DEFINE a == q[1]
           o == Tail(q)
           l == i + Len(WriteAnd(a))
           first == ParseAnd(ts, i)
           more == ParseOrOps(ts, first.next)
<1>0. Len(ts) \in Nat /\ i \in Nat \ {0}
  BY TextShape
<1>1. q = <<a>> \o o /\ a \in Meant /\ o \in Seq(Meant)
  BY QueryParts, ConsApart
<1> HIDE DEF a, o
<1>2. a \in Seq(AnyOperand) /\ o \in Seq(Seq(AnyOperand))
  BY <1>1, MeantParts
<1>3. Write(q) = WriteAnd(a) \o WriteOrs(o)
  BY <1>1, <1>2, WriteOrsCons, RecursionAssumption, QueryParts
<1>4. WriteAnd(a) \in Seq(Fragments) /\ WriteOrs(o) \in Seq(Fragments)
  BY <1>2, OrsWritten, ConjunctionsWritten
<1>5. Reads(ts, i, WriteAnd(a), l) /\ Reads(ts, l, WriteOrs(o), j)
  BY <1>0, <1>3, <1>4, ReadsSplit
<1> HIDE DEF l
<1>6. first = Node(a, l) /\ ParseOrOps(ts, l) = Node(o, j)
  BY <1>1, <1>5, OrSplit
<1>7. ParseExpression(ts, i) = IF first.ok THEN Node(<<first.node>> \o more.node, more.next) ELSE Fail
  BY Unfold DEF ParseExpressionDef
<1> HIDE DEF first
<1>8. first.ok /\ first.node = a /\ first.next = l
  BY <1>6, NodeOf
<1>9. more = Node(o, j)
  BY <1>6, <1>8
<1> HIDE DEF more
<1>10. more.node = o /\ more.next = j
  BY <1>9, NodeOf
<1> QED BY <1>1, <1>7, <1>8, <1>10

(* By induction over the places of a text, from its end: a parser calls another only for a
   later place, or one that has just been dealt with. *)
LEMMA AllMeant ==
  ASSUME NEW ts \in Texts, Separate(ts), NEW i \in 1 .. Len(ts) + 1
  PROVE  MeantAt(ts, i)
<1>0. Len(ts) \in Nat
  BY TextShape
<1> DEFINE Bad == {n \in 0 .. Len(ts) : ~MeantAt(ts, Len(ts) + 1 - n)}
<1>1. SUFFICES ASSUME Bad # {} PROVE FALSE
  <2>1. Len(ts) + 1 - i \in 0 .. Len(ts) /\ Len(ts) + 1 - (Len(ts) + 1 - i) = i
    BY <1>0
  <2> QED BY <2>1
<1>2. PICK m \in Bad : \A n \in Bad : m <= n
  <2>1. Bad \in SUBSET Nat
    BY <1>0
  <2> QED BY <1>1, <2>1, Least
<1> DEFINE k == Len(ts) + 1 - m
<1>3. m \in 0 .. Len(ts) /\ ~MeantAt(ts, k)
  OBVIOUS
<1>4. ASSUME NEW j \in k + 1 .. Len(ts) + 1 PROVE MeantAt(ts, j)
  <2>1. /\ Len(ts) + 1 - j \in 0 .. Len(ts) /\ Len(ts) + 1 - j < m
        /\ Len(ts) + 1 - (Len(ts) + 1 - j) = j
    BY <1>0, <1>3
  <2>2. Len(ts) + 1 - j \notin Bad
    <3> HIDE DEF Bad
    <3> QED BY <1>0, <1>2, <1>3, <2>1
  <2> QED BY <2>1, <2>2
<1>5. k \in 1 .. Len(ts) + 1 /\ MeantAfter(ts, k)
  BY <1>0, <1>3, <1>4 DEF MeantAfter
<1> HIDE DEF k, Bad
<1> QED BY <1>3, <1>5, AndOpsComplete, OrOpsComplete, ExpressionComplete DEF MeantAt

(* A query that is written apart is accepted, and read as it was meant. *)
LEMMA MeantAccepted ==
  ASSUME NEW q \in Queries, Separate(Write(q))
  PROVE  ParseText(Write(q)).ok /\ ParseText(Write(q)).node = q
<1> DEFINE ts == Write(q)
           r == ParseExpression(ts, 1)
<1>0. ts \in Texts /\ Len(ts) \in Nat
  <2>1. ts \in Texts
    BY DEF Texts
  <2> QED BY <2>1, TextShape
<1>1. ExpressionMeant(ts, 1)
  <2>1. 1 \in 1 .. Len(ts) + 1
    BY <1>0
  <2> HIDE DEF ts
  <2>2. Separate(ts)
    BY DEF ts
  <2> QED BY <1>0, <2>1, <2>2, AllMeant DEF MeantAt
<1>2. Reads(ts, 1, Write(q), Len(ts) + 1)
  BY <1>0 DEF Reads
<1>3. Tok(ts, Len(ts) + 1) \in Closers
  BY <1>0 DEF Tok, Closers
<1>4. r = Node(q, Len(ts) + 1)
  BY <1>1, <1>2, <1>3 DEF ExpressionMeant
<1> HIDE DEF r
<1>5. r.ok /\ r.node = q /\ r.next = Len(ts) + 1
  BY <1>4, NodeOf
<1> QED BY <1>5 DEF ParseText, r
-----------------------------------------------------------------------------
(* The clauses of expressions whose operands are made of such clauses. *)
LEMMA ClausesIn ==
  ASSUME NEW C, NEW S \in SUBSET Exprs,
         \A e \in S : \A k \in 1 .. Len(e) : \A j \in 1 .. Len(e[k]) :
           /\ e[k][j].kind = "group" => e[k][j].of \in S
           /\ e[k][j].kind # "group" => e[k][j].of \in C
  PROVE  \A e \in S : Clauses(e) \subseteq C
<1> DEFINE B == {e \in S : ~(Clauses(e) \subseteq C)}
<1>1. SUFFICES ASSUME B # {} PROVE FALSE
  OBVIOUS
<1>2. B \in SUBSET Exprs
  OBVIOUS
<1>3. \A e \in B : e \in S /\ ~(Clauses(e) \subseteq C)
  OBVIOUS
<1>4. \A e \in S : e \notin B => Clauses(e) \subseteq C
  OBVIOUS
<1> HIDE DEF B
<1>5. PICK e \in B : \A k \in 1 .. Len(e) : \A j \in 1 .. Len(e[k]) :
                       e[k][j].kind = "group" => e[k][j].of \in Exprs \ B
  BY <1>1, <1>2, Shallowest
<1>6. e \in S /\ e \in Exprs
  BY <1>2, <1>3
<1>7. ASSUME NEW c \in Clauses(e) PROVE c \in C
  <2>1. PICK k \in 1 .. Len(e) : \E j \in 1 .. Len(e[k]) :
               IF e[k][j].kind = "group" THEN c \in Clauses(e[k][j].of) ELSE c = e[k][j].of
    BY <1>6, ClausesOf
  <2>2. PICK j \in 1 .. Len(e[k]) :
               IF e[k][j].kind = "group" THEN c \in Clauses(e[k][j].of) ELSE c = e[k][j].of
    BY <2>1
  <2> QED BY <1>4, <1>5, <1>6, <2>2
<1> QED BY <1>3, <1>5, <1>7

(* The clauses of an expression are clauses, ... *)
LEMMA ClausesTyped == \A e \in Exprs : Clauses(e) \subseteq AnyClauses
<1>1. \A e \in Exprs : \A k \in 1 .. Len(e) : \A j \in 1 .. Len(e[k]) : e[k][j] \in AnyOperand
  BY ExprShape
<1>2. \A e \in Exprs : \A k \in 1 .. Len(e) : \A j \in 1 .. Len(e[k]) :
           /\ e[k][j].kind = "group" => e[k][j].of \in Exprs
           /\ e[k][j].kind # "group" => e[k][j].of \in AnyClauses
  BY <1>1, OperandShape
<1>3. Exprs \in SUBSET Exprs
  OBVIOUS
<1> QED BY <1>2, <1>3, ClausesIn

(* ... and those of a query are in the syntax table. *)
LEMMA ClausesMeant == \A q \in Queries : Clauses(q) \subseteq DocumentedClauses
<1>1. Queries \in SUBSET Exprs
  BY QueriesAssumption
<1> QED BY <1>1, QueryShape, ClausesIn

(* The walk leaves clauses clean. *)
LEMMA CanonizedClean ==
  ASSUME NEW c \in AnyClauses
  PROVE  /\ Canonized(c).field = IF c.field \in Names THEN Canonical[c.field] ELSE c.field
         /\ Canonized(c).field \notin Names \ Fields
         /\ Leaf(Canonized(c)).field = Canonized(c).field
         /\ ClauseOK(c) => ClauseOK(Canonized(c))
<1> DEFINE d == Canonized(c)
<1>1. /\ d.field = (IF c.field \in Names THEN Canonical[c.field] ELSE c.field)
      /\ d.value = c.value /\ d.fuzzy = c.fuzzy /\ d.boost = c.boost
  BY DEF Canonized, AnyClauses
<1>2. \A f \in Names : Canonical[f] \in Names /\ Canonical[f] \in Fields
  BY WordsAssumption DEF Fields
<1>3. Leaf(d).field = d.field
  <2> HIDE DEF d
  <2> QED BY DEF Leaf
<1>4. ClauseOK(c) => ClauseOK(d)
  <2> HIDE DEF d
  <2> QED BY <1>1, <1>2, WordFacts DEF ClauseOK
<1> QED BY <1>1, <1>2, <1>3, <1>4

(* So the walk leaves expressions clean. *)
LEMMA WalkedClean ==
  ASSUME NEW e \in CleanExprs
  PROVE  WalkClauses(e) \in CleanExprs
<1>1. e \in Exprs /\ \A c \in Clauses(e) : ClauseOK(c)
  BY DEF CleanExprs
<1>2. WalkClauses(e) \in Exprs /\ Clauses(WalkClauses(e)) = {Canonized(c) : c \in Clauses(e)}
  BY <1>1, WalkedShape, WalkedClauses
<1>3. \A c \in Clauses(e) : ClauseOK(Canonized(c))
  BY <1>1, ClausesTyped, CanonizedClean
<1> QED BY <1>2, <1>3 DEF CleanExprs

(* Something is built of every expression. *)
LEMMA BuiltKind ==
  ASSUME NEW e \in Exprs
  PROVE  BuildExpression(e) # NoDSL
<1> DEFINE B == {x \in Exprs : BuildExpression(x) = NoDSL}
<1>1. SUFFICES ASSUME B # {} PROVE FALSE
  OBVIOUS
<1>2. B \in SUBSET Exprs /\ (\A x \in B : BuildExpression(x) = NoDSL)
      /\ \A x \in Exprs : x \notin B => BuildExpression(x) # NoDSL
  OBVIOUS
<1> HIDE DEF B
<1>3. PICK x \in B : \A k \in 1 .. Len(x) : \A j \in 1 .. Len(x[k]) :
                       x[k][j].kind = "group" => x[k][j].of \in Exprs \ B
  BY <1>1, <1>2, Shallowest
<1>4. x \in Exprs /\ BuildExpression(x) = NoDSL
  BY <1>2
<1>5. \A m, n, s, i : BoolQuery(m, n, s, i) # NoDSL
  BY BoolParts DEF NoDSL
<1>6. BuildExpression(x) = BuildAnd(x[1]) /\ 1 \in 1 .. Len(x)
  <2>1. Len(x) \in Nat \ {0}
    BY <1>4, ExprShape, EmptySeq
  <2>2. BuildExpression(x) = BuildExpressionDef(x)
    BY <1>4, Built
  <2>3. Len(x) = 1
    BY <1>4, <1>5, <2>2 DEF BuildExpressionDef
  <2> QED BY <2>2, <2>3 DEF BuildExpressionDef
<1>7. BuildAnd(x[1]) \in Operands(x[1], FALSE)
  BY <1>4, <1>5, <1>6, BuildAndShape
<1>8. PICK j \in 1 .. Len(x[1]) : BuildPrimary(x[1][j]) = NoDSL
  BY <1>4, <1>6, <1>7 DEF Operands
<1>9. CASE x[1][j].kind = "group"
  <2>1. BuildExpression(x[1][j].of) = NoDSL
    BY <1>8, <1>9 DEF BuildPrimary
  <2> QED BY <1>2, <1>3, <1>6, <1>9, <2>1
<1>10. CASE x[1][j].kind # "group"
  <2>1. LeafQuery(x[1][j].of) = NoDSL
    BY <1>8, <1>10 DEF BuildPrimary
  <2>2. LeafQuery(x[1][j].of).kind = "leaf" /\ NoDSL.kind = "none"
    BY DEF LeafQuery, NoDSL
  <2> QED BY <2>1, <2>2
<1> QED BY <1>9, <1>10

(* The first token tells the kind of a value; what begins with an operator is longer
   than a phrase or a word. *)
LEMMA FirstToken ==
  ASSUME NEW v \in ClauseValues
  PROVE  \/ v[1] \in {"["} \cup CompareOps /\ Len(v) > 1
         \/ v[1] \in Words \cup Strings /\ Len(v) = 1
<1>1. CASE \E w \in Words \cup Strings : v = <<w>>
  <2>1. v[1] \in Words \cup Strings /\ Len(v) = 1
    BY <1>1
  <2> QED BY <2>1
<1>2. CASE \E x, w \in Words \cup Strings : v = <<"[", x, "TO", w, "]">>
  <2>1. v[1] = "[" /\ Len(v) = 5
    BY <1>2
  <2> QED BY <2>1
<1>3. CASE \E o \in CompareOps : \E w \in Words \cup Strings : v = <<o, w>>
  <2>1. v[1] \in CompareOps /\ Len(v) = 2
    BY <1>3
  <2> QED BY <2>1
<1> QED BY <1>1, <1>2, <1>3 DEF ClauseValues

(* Distances and boosts of the syntax table are kept. *)
LEMMA Modifiers ==
  ASSUME NEW c \in DocumentedClauses, NEW default
  PROVE  /\ c.fuzzy # NoFuzzy =>
              Distance(c.fuzzy, default) = IF c.fuzzy = "" THEN default ELSE c.fuzzy
         /\ Factor(c.boost) = c.boost
BY WordsAssumption, TokensAssumption DEF DocumentedClauses, Distance, Factor, Idents

(* Whatever the words, strings and aliases are, a clause of the syntax table becomes
   the query the table names, under the canonical name, with its slop, fuzziness and
   boost: the order of the cases in Builder.clause lets no modifier change the
   kind of a query, and no wildcard or phrase lose its own.                   *)
THEOREM LeafIsDocumented ==
  ASSUME NEW c \in DocumentedClauses
  PROVE  Leaf(Canonized(c)) = Documented(c)
<1> DEFINE d == Canonized(c)
           first == c.value[1]
<1>1. /\ d.field = Canonical[c.field] /\ d.value = c.value
      /\ d.fuzzy = c.fuzzy /\ d.boost = c.boost
  BY DEF Canonized, DocumentedClauses
<1>2. \/ first \in {"["} \cup CompareOps /\ Len(c.value) > 1
      \/ first \in Words \cup Strings /\ Len(c.value) = 1
  BY FirstToken DEF DocumentedClauses
<1>3. /\ c.fuzzy # NoFuzzy => Distance(c.fuzzy, "2") = IF c.fuzzy = "" THEN "2" ELSE c.fuzzy
      /\ c.fuzzy # NoFuzzy => Distance(c.fuzzy, "AUTO") = IF c.fuzzy = "" THEN "AUTO" ELSE c.fuzzy
      /\ Factor(c.boost) = c.boost
  BY Modifiers
<1>4. /\ Words \subseteq Idents /\ Wildcards \subseteq Words /\ Idents \cap Strings = {}
      /\ (Idents \cup Strings) \cap (CompareOps \cup {"["}) = {}
  BY WordsAssumption, WordFacts, Marks
<1> HIDE DEF d, first
<1>5. CASE first \in {"["} \cup CompareOps /\ Len(c.value) > 1
  BY <1>1, <1>3, <1>4, <1>5 DEF Leaf, Documented, d, first
<1>6. CASE first \in Strings /\ Len(c.value) = 1
  <2>1. ~(1 > 1) /\ d.value = c.value /\ c.value[1] = first
    BY <1>1 DEF first
  <2>2. ~(Len(d.value) > 1) /\ Len(d.value) = 1 /\ d.value[1] = first
    BY <1>6, <2>1, Zenon
  <2> QED BY <1>1, <1>3, <1>4, <1>6, <2>2 DEF Leaf, Documented, d, first
<1>7. CASE first \in Wildcards /\ Len(c.value) = 1
  <2>1. ~(1 > 1) /\ d.value = c.value /\ c.value[1] = first
    BY <1>1 DEF first
  <2>2. ~(Len(d.value) > 1) /\ Len(d.value) = 1 /\ d.value[1] = first
    BY <1>7, <2>1, Zenon
  <2> QED BY <1>1, <1>3, <1>4, <1>7, <2>2 DEF Leaf, Documented, d, first
<1>8. CASE first \in Words \ Wildcards /\ Len(c.value) = 1
  <2>1. ~(1 > 1) /\ d.value = c.value /\ c.value[1] = first
    BY <1>1 DEF first
  <2>2. ~(Len(d.value) > 1) /\ Len(d.value) = 1 /\ d.value[1] = first
    BY <1>8, <2>1, Zenon
  <2> QED BY <1>1, <1>3, <1>4, <1>8, <2>2 DEF Leaf, Documented, d, first
<1> QED BY <1>2, <1>5, <1>6, <1>7, <1>8
-----------------------------------------------------------------------------
(* Where a text is in the pipeline, and what has been made of it by then. *)
Inv ==
  LET r == ParseText(text) IN
  /\ text \in Texts
  /\ query # NoQuery => query \in Queries /\ text = Write(query)
  /\ pc # "built" => dsl = NoDSL
  /\ \/ pc = "parse" /\ ast = NoQuery
     \/ pc = "refused" /\ ~r.ok /\ ast = NoQuery
     \/ pc = "walk" /\ r.ok /\ ast = r.node
     \/ pc = "build" /\ r.ok /\ ast = WalkClauses(r.node)
     \/ pc = "built" /\ r.ok /\ ast = WalkClauses(r.node) /\ dsl = BuildExpression(ast)

(* It holds of what is written, ... *)
LEMMA InvInit == Init => Inv
BY DEF Init, Inv, Texts

(* ... and each stage keeps it. *)
LEMMA InvNext == Inv /\ [Next]_languageVars => Inv'
<1> SUFFICES ASSUME Inv, [Next]_languageVars PROVE Inv'
  OBVIOUS
<1> DEFINE r == ParseText(text)
<1>1. CASE Parse
  <2>1. pc = "parse" /\ ast = NoQuery /\ dsl = NoDSL /\ query' = query /\ text' = text /\ dsl' = dsl
    BY <1>1 DEF Parse, Inv
  <2>2. \/ r.ok /\ ast' = r.node /\ pc' = "walk"
        \/ ~r.ok /\ pc' = "refused" /\ ast' = ast
    BY <1>1 DEF Parse
  <2> QED BY <2>1, <2>2 DEF Inv
<1>2. CASE Walk
  BY <1>2 DEF Walk, Inv
<1>3. CASE Build
  BY <1>3 DEF Build, Inv
<1>4. CASE UNCHANGED languageVars
  BY <1>4 DEF Inv, languageVars
<1> QED BY <1>1, <1>2, <1>3, <1>4 DEF Next

(* A text goes from stage to stage with what the parser, the walk and the builder make
   of it, and a refused one with nothing. *)
LEMMA InvAlways == Spec => []Inv
BY InvInit, InvNext, PTL DEF Spec

(* What an accepted text is read as, and what is walked of it. *)
LEMMA Accepted ==
  ASSUME Inv, pc \in {"walk", "build", "built"}
  PROVE  LET e == ParseText(text).node IN
         /\ e \in CleanExprs /\ e \in Exprs /\ Unquote(Write(e)) = Unquote(text)
         /\ pc = "walk" => ast = e
         /\ pc \in {"build", "built"} => ast = WalkClauses(e) /\ ast \in CleanExprs
         /\ pc = "built" => dsl = BuildExpression(ast)
<1> DEFINE e == ParseText(text).node
<1>1. text \in Texts /\ ParseText(text).ok
  BY DEF Inv
<1>2. e \in CleanExprs /\ Unquote(Write(e)) = Unquote(text) /\ e \in Exprs
  BY <1>1, AcceptedWhole DEF CleanExprs
<1> HIDE DEF e
<1>3. WalkClauses(e) \in CleanExprs
  BY <1>2, WalkedClean
<1> QED BY <1>2, <1>3 DEF Inv, e

(* What a query that is written apart is read as. *)
LEMMA ReadBack ==
  ASSUME Inv, query # NoQuery, Separated
  PROVE  query \in Queries /\ ParseText(text).ok /\ ParseText(text).node = query
BY MeantAccepted DEF Inv, Separated

(* Each stage has what it needs: a tree that is no empty one and whose clauses are
   clauses of the grammar, before and after the walk, and a DSL once it is built. *)
THEOREM TypeCorrect == Spec => []TypeOK
<1>1. Inv => TypeOK
  <2> SUFFICES ASSUME Inv PROVE TypeOK
    OBVIOUS
  <2>0. pc \in {"parse", "refused", "walk", "build", "built"}
    BY DEF Inv
  <2>1. CASE pc \in {"parse", "refused"}
    BY <2>1 DEF Inv, TypeOK
  <2>2. CASE pc \in {"walk", "build", "built"}
    <3>1. ast \in CleanExprs
      BY <2>2, Accepted
    <3>2. ast # NoQuery /\ (\A c \in Clauses(ast) : ClauseOK(c)) /\ ast \in Exprs
      BY <3>1, ExprShape DEF CleanExprs, NoQuery
    <3>3. dsl = NoDSL <=> pc # "built"
      BY <2>2, <3>2, Accepted, BuiltKind DEF Inv
    <3> QED BY <2>2, <3>2, <3>3 DEF TypeOK
  <2> QED BY <2>0, <2>1, <2>2
<1> QED BY <1>1, InvAlways, PTL

(* Whatever is typed, and however deep the groups go: an accepted text is, token by token
   and quotes apart, what its tree is written as.  The optional parts and the repetitions of the grammar
   skip nothing. *)
THEOREM WholeTextRead == Spec => []NothingIgnored
<1>1. Inv => NothingIgnored
  BY Accepted DEF NothingIgnored
<1> QED BY <1>1, InvAlways, PTL

(* Every query that is written apart is accepted, and read as it was meant: the greedy,
   ordered choices of the parser take no keyword for an operand, no operator for a
   word, no modifier for the next clause, in groups of any depth. *)
THEOREM QueriesReadAsMeant == Spec => []ReadAsMeant
<1>1. Inv => ReadAsMeant
  BY ReadBack DEF Inv, ReadAsMeant
<1> QED BY <1>1, InvAlways, PTL

(* And what is built of it selects the documents the query describes: unwrapping a single
   operand, must_not and minimum_should_match are right in groups of any depth. *)
THEOREM QueriesSelectAsMeant == Spec => []SelectsAsMeant
<1>1. Inv => SelectsAsMeant
  <2> SUFFICES ASSUME Inv, query # NoQuery, Separated, pc = "built", NEW hits \in SUBSET Fields
               PROVE  Matches(dsl, hits) <=> Holds(query, hits)
    BY DEF SelectsAsMeant
  <2>1. query \in Queries /\ dsl = BuildExpression(WalkClauses(query))
    BY ReadBack, Accepted
  <2> QED BY <2>1, MatchesMeant
<1> QED BY <1>1, InvAlways, PTL

(* Of every accepted text: no leaf of the DSL has a field name that the walk has not put
   into its canonical form. *)
THEOREM NoClauseEscapes == Spec => []WalkReachesAll
<1>1. Inv => WalkReachesAll
  <2> SUFFICES ASSUME Inv, pc = "built", NEW leaf \in Leaves(dsl)
               PROVE  leaf.field \notin Names \ Fields
    BY DEF WalkReachesAll
  <2> DEFINE e == ParseText(text).node
  <2>1. e \in Exprs /\ dsl = BuildExpression(WalkClauses(e))
    BY Accepted
  <2> HIDE DEF e
  <2>2. Leaves(dsl) = {Leaf(c) : c \in Clauses(WalkClauses(e))}
    BY <2>1, WalkedShape, LeavesBuilt
  <2>3. PICK d \in Clauses(WalkClauses(e)) : leaf = Leaf(d)
    BY <2>2
  <2>4. PICK c \in Clauses(e) : d = Canonized(c)
    BY <2>1, WalkedClauses
  <2>5. c \in AnyClauses
    BY <2>1, ClausesTyped
  <2> QED BY <2>3, <2>4, <2>5, CanonizedClean
<1> QED BY <1>1, InvAlways, PTL

(* The leaves of the DSL of a query that is written apart are those the syntax table names
   for its clauses: none is lost, added or changed on the way. *)
THEOREM EveryLeafDocumented == Spec => []LeavesDocumented
<1>1. Inv => LeavesDocumented
  <2> SUFFICES ASSUME Inv, query # NoQuery, Separated, pc = "built"
               PROVE  Leaves(dsl) = {Documented(c) : c \in Clauses(query)}
    BY DEF LeavesDocumented
  <2>1. query \in Queries /\ query \in Exprs /\ dsl = BuildExpression(WalkClauses(query))
    BY ReadBack, Accepted, QueriesAssumption
  <2>2. Leaves(dsl) = {Leaf(d) : d \in Clauses(WalkClauses(query))}
    BY <2>1, WalkedShape, LeavesBuilt
  <2>3. Clauses(WalkClauses(query)) = {Canonized(c) : c \in Clauses(query)}
    BY <2>1, WalkedClauses
  <2>4. \A c \in Clauses(query) : Leaf(Canonized(c)) = Documented(c)
    BY <2>1, ClausesMeant, LeafIsDocumented
  <2> QED BY <2>2, <2>3, <2>4
<1> QED BY <1>1, InvAlways, PTL
=============================================================================
