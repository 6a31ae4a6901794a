--------------------------- MODULE FileOps_proofs ---------------------------
(***************************************************************************)
(* What TLAPS proves of FileOps: for every tree of files, every set of     *)
(* names and directories and every UNDO_MAX, MOVE_REGISTER_MAX and         *)
(* MAX_FILES that FileOpsAssumption admits, whatever other processes do.   *)
(*                                                                         *)
(* Loops are FoldLeft.  A library theorem on it would take the step as a   *)
(* parameter, which no prover here can instantiate, so there is a lemma    *)
(* for each step: the loop has a run, from round to round.  What holds of  *)
(* every round of a run follows by Climb, which looks at the first round   *)
(* where it would not hold.                                                *)
(***************************************************************************)
EXTENDS FileOps, FiniteSetsExt, FiniteSetTheorems, SequenceTheorems, WellFoundedInduction, TLAPS

----------------------------------------------------------------------------
(* Numbers.                                                                *)

\* A set of natural numbers that is not empty has a smallest element.
LEMMA Least ==
  ASSUME NEW T \in SUBSET Nat, T # {}
  PROVE  \E n \in T : \A m \in T : n <= m
<1> DEFINE R == {p \in Nat \X Nat : p[1] < p[2]}
<1>1. OpToRel(<, Nat) = R  BY Zenon DEF OpToRel
<1>2. \E n \in T : \A m \in T : <<m, n>> \notin R
  BY <1>1, NatLessThanWellFounded, WFMin, Zenon
<1>3. PICK n \in T : \A m \in T : <<m, n>> \notin R  BY <1>2
<1>4. ASSUME NEW m \in T PROVE n <= m
  <2>1. <<m, n>> \in Nat \X Nat /\ <<m, n>>[1] = m /\ <<m, n>>[2] = n  OBVIOUS
  <2> QED  BY <1>3, <2>1
<1> QED  BY <1>4

\* What holds at first and is kept by every round of a loop holds at its end.
LEMMA Climb ==
  ASSUME NEW n \in Nat, NEW P, P[0], \A k \in 1..n : P[k - 1] => P[k]
  PROVE  \A k \in 0..n : P[k]
<1> DEFINE T == {k \in 0..n : ~P[k]}
<1> SUFFICES ASSUME T # {} PROVE FALSE  OBVIOUS
<1>0. T \in SUBSET Nat  OBVIOUS
<1>1. PICK k \in T : \A m \in T : k <= m
  <2> HIDE DEF T
  <2> QED  BY <1>0, Least
<1>2. k # 0 /\ k - 1 \in 0..n  OBVIOUS
<1>3. P[k - 1]
  <2>1. k - 1 \notin T  BY <1>1
  <2> QED  BY <1>2, <2>1
<1> QED  BY <1>2, <1>3

----------------------------------------------------------------------------
(* Paths.                                                                  *)

\* A path is all but its last name, and its last name.
LEMMA FrontLast ==
  ASSUME NEW S, NEW p \in Seq(S), p # <<>>
  PROVE  /\ Front(p) \in Seq(S) /\ Len(Front(p)) = Len(p) - 1
         /\ Last(p) \in S /\ Last(p) = p[Len(p)]
         /\ \A i \in 1..(Len(p) - 1) : Front(p)[i] = p[i]
<1>1. Len(p) \in Nat \ {0} /\ \A i \in 1..Len(p) : p[i] \in S  BY EmptySeq, ElementOfSeq
<1> DEFINE n == Len(p)
           front == SubSeq(p, 1, n - 1)
<1>2. Front(p) = front /\ Last(p) = p[n]  BY DEF Front, Last
<1>3. n \in Nat \ {0} /\ \A i \in 1..n : p[i] \in S  BY <1>1
<1> HIDE DEF n
<1>4. 1 \in Int /\ n - 1 \in Int /\ \A i \in 1..(n - 1) : p[i] \in S  BY <1>3
<1>5. /\ front \in Seq(S) /\ Len(front) = (IF 1 <= n - 1 THEN (n - 1) - 1 + 1 ELSE 0)
      /\ \A i \in 1..((n - 1) - 1 + 1) : front[i] = p[1 + i - 1]
  BY <1>4, SubSeqProperties
<1> HIDE DEF front
<1>6. Len(front) = n - 1  BY <1>3, <1>5
<1>7. \A i \in 1..(n - 1) : front[i] = p[i]  BY <1>3, <1>5
<1> QED  BY <1>2, <1>3, <1>5, <1>6, <1>7 DEF n

\* A name added to a path is its last.
LEMMA AppendFacts ==
  ASSUME NEW S, NEW p \in Seq(S), NEW e \in S
  PROVE  /\ Append(p, e) \in Seq(S) /\ Append(p, e) # <<>>
         /\ Front(Append(p, e)) = p /\ Last(Append(p, e)) = e
<1>1. /\ Append(p, e) \in Seq(S) /\ Append(p, e) # <<>> /\ Len(Append(p, e)) = Len(p) + 1
      /\ \A i \in 1..Len(p) : Append(p, e)[i] = p[i]
      /\ Append(p, e)[Len(p) + 1] = e
  BY AppendProperties
<1> DEFINE q == Append(p, e)
<1> HIDE DEF q
<1>2. q \in Seq(S) /\ q # <<>> /\ Len(q) = Len(p) + 1 /\ Len(p) \in Nat
  BY <1>1, LenProperties DEF q
<1>3. /\ Front(q) \in Seq(S) /\ Len(Front(q)) = Len(p) /\ Last(q) = q[Len(p) + 1]
      /\ \A i \in 1..Len(p) : Front(q)[i] = q[i]
  BY <1>2, FrontLast
<1>4. Front(q) = p
  <2>1. \A i \in 1..Len(p) : Front(q)[i] = p[i]  BY <1>1, <1>3 DEF q
  <2> QED  BY <1>3, <2>1, SeqEqual
<1> QED  BY <1>1, <1>3, <1>4 DEF q

\* Taken apart and put together again it is the same path.
LEMMA FrontThenLast ==
  ASSUME NEW S, NEW p \in Seq(S), p # <<>>
  PROVE  Append(Front(p), Last(p)) = p
<1>1. PICK s \in Seq(S), e \in S : p = Append(s, e)  BY SequenceEmptyOrAppend
<1> QED  BY <1>1, AppendFacts

\* IsPrefix, name by name.
LEMMA PrefixIs ==
  ASSUME NEW S, NEW s \in Seq(S), NEW t \in Seq(S)
  PROVE  IsPrefix(s, t) <=> Len(s) <= Len(t) /\ \A i \in 1..Len(s) : s[i] = t[i]
<1>1. Len(s) \in Nat /\ Len(t) \in Nat  BY LenProperties
<1>2. SUFFICES ASSUME Len(s) <= Len(t)
               PROVE  SubSeq(s, 1, Len(s)) = SubSeq(t, 1, Len(s))
                        <=> \A i \in 1..Len(s) : s[i] = t[i]
  BY DEF IsPrefix
<1>3. SubSeq(s, 1, Len(s)) = s  BY SubSeqFull
<1>4. /\ SubSeq(t, 1, Len(s)) \in Seq(S) /\ Len(SubSeq(t, 1, Len(s))) = Len(s)
      /\ \A i \in 1..Len(s) : SubSeq(t, 1, Len(s))[i] = t[i]
  <2>1. \A i \in 1..Len(s) : t[i] \in S  BY <1>1, <1>2, ElementOfSeq
  <2>2. /\ SubSeq(t, 1, Len(s)) \in Seq(S)
        /\ Len(SubSeq(t, 1, Len(s))) = (IF 1 <= Len(s) THEN Len(s) - 1 + 1 ELSE 0)
        /\ \A i \in 1..(Len(s) - 1 + 1) : SubSeq(t, 1, Len(s))[i] = t[1 + i - 1]
    BY <1>1, <2>1, SubSeqProperties
  <2> QED  BY <1>1, <2>2
<1> DEFINE u == SubSeq(t, 1, Len(s))
<1> HIDE DEF u
<1>5. s = u <=> \A i \in 1..Len(s) : s[i] = u[i]  BY <1>4, SeqEqual DEF u
<1> QED  BY <1>3, <1>4, <1>5 DEF u

\* A path below p is in p or below something in p: never p itself.
LEMMA PrefixOfFront ==
  ASSUME NEW S, NEW p \in Seq(S), NEW q \in Seq(S), q # <<>>
  PROVE  IsPrefix(p, q) <=> p = q \/ IsPrefix(p, Front(q))
<1>1. /\ Front(q) \in Seq(S) /\ Len(Front(q)) = Len(q) - 1
      /\ \A i \in 1..(Len(q) - 1) : Front(q)[i] = q[i]
  BY FrontLast
<1>2. Len(p) \in Nat /\ Len(q) \in Nat \ {0}  BY EmptySeq, LenProperties
<1>3. IsPrefix(p, q) <=> Len(p) <= Len(q) /\ \A i \in 1..Len(p) : p[i] = q[i]  BY PrefixIs
<1>4. IsPrefix(p, Front(q)) <=> Len(p) <= Len(q) - 1 /\ \A i \in 1..Len(p) : p[i] = q[i]
  <2>1. IsPrefix(p, Front(q))
          <=> Len(p) <= Len(Front(q)) /\ \A i \in 1..Len(p) : p[i] = Front(q)[i]
    BY <1>1, PrefixIs
  <2> QED  BY <1>1, <1>2, <2>1
<1>5. CASE Len(p) = Len(q)
  <2>1. p = q <=> \A i \in 1..Len(p) : p[i] = q[i]  BY <1>5, SeqEqual
  <2> QED  BY <1>2, <1>3, <1>4, <1>5, <2>1
<1>6. CASE Len(p) # Len(q)  BY <1>2, <1>3, <1>4, <1>6
<1> QED  BY <1>5, <1>6

\* Everything is at or under itself and under the root.
LEMMA PrefixTrivial ==
  ASSUME NEW S, NEW p \in Seq(S)
  PROVE  IsPrefix(p, p) /\ IsPrefix(<<>>, p) /\ (IsPrefix(p, <<>>) => p = <<>>)
<1>1. <<>> \in Seq(S) /\ Len(<<>>) = 0 /\ (p # <<>> => Len(p) > 0) /\ Len(p) \in Nat
  BY EmptySeq, LenProperties
<1>2. IsPrefix(p, p)  BY <1>1, PrefixIs
<1>3. IsPrefix(<<>>, p)
  <2>1. Len(<<>>) <= Len(p) /\ \A i \in 1..Len(<<>>) : <<>>[i] = p[i]  BY <1>1
  <2> QED  BY <1>1, <2>1, PrefixIs
<1>4. ASSUME IsPrefix(p, <<>>) PROVE p = <<>>
  <2>1. Len(p) <= Len(<<>>)  BY <1>4 DEF IsPrefix
  <2> QED  BY <1>1, <2>1
<1> QED  BY <1>2, <1>3, <1>4

\* What is under something under p is under p.
LEMMA PrefixTransitive ==
  ASSUME NEW S, NEW p \in Seq(S), NEW q \in Seq(S), NEW r \in Seq(S),
         IsPrefix(p, q), IsPrefix(q, r)
  PROVE  IsPrefix(p, r)
<1>1. Len(p) \in Nat /\ Len(q) \in Nat /\ Len(r) \in Nat  BY LenProperties
<1>2. Len(p) <= Len(q) /\ \A i \in 1..Len(p) : p[i] = q[i]  BY PrefixIs
<1>3. Len(q) <= Len(r) /\ \A i \in 1..Len(q) : q[i] = r[i]  BY PrefixIs
<1> QED  BY <1>1, <1>2, <1>3, PrefixIs
----------------------------------------------------------------------------
(* What is under p, moved to under d.                                      *)

\* The path of q, which is under p, once p is at d.
To(p, d, q) == d \o SubSeq(q, Len(p) + 1, Len(q))

\* Its names: those of d, then those q has below p.
LEMMA ToElements ==
  ASSUME NEW S, NEW p \in Seq(S), NEW d \in Seq(S), NEW q \in Seq(S), IsPrefix(p, q)
  PROVE  /\ To(p, d, q) \in Seq(S)
         /\ Len(To(p, d, q)) = Len(d) + (Len(q) - Len(p))
         /\ \A i \in 1..(Len(d) + (Len(q) - Len(p))) :
              To(p, d, q)[i] = IF i <= Len(d) THEN d[i] ELSE q[i - Len(d) + Len(p)]
<1> DEFINE l == Len(p)
           m == Len(d)
           n == Len(q)
           under == SubSeq(q, l + 1, n)
<1>1. l \in Nat /\ m \in Nat /\ n \in Nat  BY LenProperties
<1>2. l <= n /\ \A i \in 1..l : p[i] = q[i]  BY PrefixIs
<1>3. \A i \in 1..n : q[i] \in S  BY ElementOfSeq
<1> HIDE DEF l, m, n
<1>4. l + 1 \in Int /\ n \in Int /\ \A i \in (l + 1)..n : q[i] \in S  BY <1>1, <1>3
<1>5. /\ under \in Seq(S) /\ Len(under) = (IF l + 1 <= n THEN n - (l + 1) + 1 ELSE 0)
      /\ \A i \in 1..(n - (l + 1) + 1) : under[i] = q[l + 1 + i - 1]
  BY <1>4, SubSeqProperties
<1> HIDE DEF under
<1>6. Len(under) = n - l /\ \A i \in 1..(n - l) : under[i] = q[l + i]
  BY <1>1, <1>2, <1>5
<1>7. /\ d \o under \in Seq(S) /\ Len(d \o under) = m + Len(under)
      /\ \A i \in 1..(m + Len(under)) :
           (d \o under)[i] = IF i <= m THEN d[i] ELSE under[i - m]
  BY <1>5, ConcatProperties DEF m
<1> DEFINE t == d \o under
<1>8. To(p, d, q) = t  BY DEF To, under, l, n
<1> HIDE DEF t
<1>9. \A i \in 1..(m + (n - l)) : t[i] = IF i <= m THEN d[i] ELSE q[i - m + l]
  <2> TAKE i \in 1..(m + (n - l))
  <2>1. t[i] = IF i <= m THEN d[i] ELSE under[i - m]  BY <1>6, <1>7 DEF t
  <2>2. ASSUME ~(i <= m) PROVE under[i - m] = q[i - m + l]
    <3>1. i - m \in 1..(n - l) /\ l + (i - m) = i - m + l  BY <1>1, <1>2, <2>2
    <3> QED  BY <1>6, <3>1
  <2> QED  BY <2>1, <2>2
<1> QED  BY <1>6, <1>7, <1>8, <1>9 DEF t, l, m, n

\* It is under d, and moving d back to p leads back to q.
LEMMA ToFacts ==
  ASSUME NEW S, NEW p \in Seq(S), NEW d \in Seq(S), NEW q \in Seq(S), IsPrefix(p, q)
  PROVE  /\ To(p, d, q) \in Seq(S)
         /\ IsPrefix(d, To(p, d, q))
         /\ To(d, p, To(p, d, q)) = q
         /\ To(p, d, p) = d
<1> DEFINE l == Len(p)
           m == Len(d)
           n == Len(q)
           t == To(p, d, q)
           u == To(d, p, t)
<1>1. l \in Nat /\ m \in Nat /\ n \in Nat  BY LenProperties
<1>2. l <= n /\ \A i \in 1..l : p[i] = q[i]  BY PrefixIs
<1>3. /\ t \in Seq(S) /\ Len(t) = m + (n - l)
      /\ \A i \in 1..(m + (n - l)) : t[i] = IF i <= m THEN d[i] ELSE q[i - m + l]
  BY ToElements
<1> HIDE DEF l, m, n, t
<1>4. IsPrefix(d, t)
  <2>1. m <= Len(t) /\ \A i \in 1..m : d[i] = t[i]  BY <1>1, <1>2, <1>3
  <2> QED  BY <1>3, <2>1, PrefixIs DEF m
<1>5. /\ u \in Seq(S) /\ Len(u) = l + (Len(t) - m)
      /\ \A i \in 1..(l + (Len(t) - m)) : u[i] = IF i <= l THEN p[i] ELSE t[i - l + m]
  BY <1>3, <1>4, ToElements DEF l, m
<1> HIDE DEF u
<1>6. u = q
  <2>1. Len(u) = n  BY <1>1, <1>3, <1>5
  <2>2. \A i \in 1..n : u[i] = q[i]
    <3> TAKE i \in 1..n
    <3>1. u[i] = IF i <= l THEN p[i] ELSE t[i - l + m]  BY <1>1, <1>3, <1>5
    <3>2. CASE i <= l  BY <1>1, <1>2, <3>1, <3>2
    <3>3. CASE ~(i <= l)
      <4>1. i - l + m \in 1..(m + (n - l)) /\ ~(i - l + m <= m)  BY <1>1, <1>2, <3>3
      <4>2. t[i - l + m] = q[(i - l + m) - m + l]  BY <1>3, <4>1
      <4>3. (i - l + m) - m + l = i  BY <1>1
      <4> QED  BY <3>1, <3>3, <4>2, <4>3
    <3> QED  BY <3>2, <3>3
  <2> QED  BY <1>5, <2>1, <2>2, SeqEqual DEF n
<1>7. To(p, d, p) = d
  <2>1. IsPrefix(p, p)  BY PrefixTrivial
  <2> DEFINE w == To(p, d, p)
  <2>2. /\ w \in Seq(S) /\ Len(w) = m + (l - l)
        /\ \A i \in 1..(m + (l - l)) : w[i] = IF i <= m THEN d[i] ELSE p[i - m + l]
    BY <2>1, ToElements DEF l, m
  <2> HIDE DEF w
  <2>3. Len(w) = m /\ \A i \in 1..m : w[i] = d[i]  BY <1>1, <2>2
  <2>4. w = d  BY <2>2, <2>3, SeqEqual DEF m
  <2> QED  BY <2>4 DEF w
<1> QED  BY <1>3, <1>4, <1>6, <1>7 DEF t, u

\* What was in a directory is in the directory it was moved to.
LEMMA ToFront ==
  ASSUME NEW S, NEW p \in Seq(S), NEW d \in Seq(S), NEW q \in Seq(S), IsPrefix(p, q), p # q
  PROVE  /\ q # <<>> /\ IsPrefix(p, Front(q))
         /\ To(p, d, q) # <<>> /\ Front(To(p, d, q)) = To(p, d, Front(q))
<1>1. q # <<>>
  <2>1. q = <<>> => p = <<>>  BY PrefixTrivial
  <2> QED  BY <2>1
<1> DEFINE l == Len(p)
           m == Len(d)
           n == Len(q)
           t == To(p, d, q)
           q1 == Front(q)
           t1 == To(p, d, q1)
<1>2. IsPrefix(p, q1)  BY <1>1, PrefixOfFront
<1>3. l \in Nat /\ m \in Nat /\ n \in Nat \ {0}  BY <1>1, LenProperties, EmptySeq
<1>4. q1 \in Seq(S) /\ Len(q1) = n - 1 /\ \A i \in 1..(n - 1) : q1[i] = q[i]
  BY <1>1, FrontLast
<1> HIDE DEF q1
<1>5. l <= n - 1  BY <1>2, <1>4 DEF IsPrefix, l
<1>6. /\ t \in Seq(S) /\ Len(t) = m + (n - l)
      /\ \A i \in 1..(m + (n - l)) : t[i] = IF i <= m THEN d[i] ELSE q[i - m + l]
  BY ToElements
<1>7. /\ t1 \in Seq(S) /\ Len(t1) = m + (Len(q1) - l)
      /\ \A i \in 1..(m + (Len(q1) - l)) : t1[i] = IF i <= m THEN d[i] ELSE q1[i - m + l]
  <2>1. q1 \in Seq(S)  BY <1>4
  <2> HIDE DEF t
  <2> QED  BY <1>2, <2>1, ToElements
<1> HIDE DEF l, m, n, t, t1
<1>8. t # <<>>
  <2>1. Len(t) > 0  BY <1>3, <1>5, <1>6
  <2> QED  BY <2>1, EmptySeq
<1>9. /\ Front(t) \in Seq(S) /\ Len(Front(t)) = Len(t) - 1
      /\ \A i \in 1..(Len(t) - 1) : Front(t)[i] = t[i]
  BY <1>6, <1>8, FrontLast
<1>10. Len(Front(t)) = Len(t1) /\ Len(t1) = m + (n - l) - 1  BY <1>3, <1>4, <1>6, <1>7, <1>9
<1>11. \A i \in 1..(m + (n - l) - 1) : Front(t)[i] = t1[i]
  <2> TAKE i \in 1..(m + (n - l) - 1)
  <2>1. Front(t)[i] = IF i <= m THEN d[i] ELSE q[i - m + l]  BY <1>3, <1>5, <1>6, <1>9
  <2>2. t1[i] = IF i <= m THEN d[i] ELSE q1[i - m + l]  BY <1>3, <1>4, <1>5, <1>7
  <2>3. ASSUME ~(i <= m) PROVE q1[i - m + l] = q[i - m + l]
    <3>1. i - m + l \in 1..(n - 1)  BY <1>3, <1>5, <2>3
    <3> QED  BY <1>4, <3>1
  <2> QED  BY <2>1, <2>2, <2>3
<1>12. Front(t) = t1  BY <1>7, <1>9, <1>10, <1>11, SeqEqual
<1> QED  BY <1>1, <1>2, <1>8, <1>12 DEF t, t1, q1

----------------------------------------------------------------------------
(* File systems.                                                           *)

\* A file system is a finite tree of directories.
FsOK(f) ==
  /\ IsFiniteSet(DOMAIN f) /\ f \in [DOMAIN f -> Content]
  /\ DOMAIN f \subseteq Path /\ IsTree(f)

\* The empty name of a doubled slash is not a name.
LEMMA NoNameIsNone == NoName \notin Name
BY DEF Name, NoName

\* What a path leads through are directories.
LEMMA Ancestors ==
  ASSUME NEW f, FsOK(f), NEW q \in DOMAIN f, NEW p \in Path, IsPrefix(p, q)
  PROVE  p \in DOMAIN f /\ (p # q => f[p] = Dir)
<1> DEFINE Good(r) == p \in DOMAIN f /\ (p # r => f[p] = Dir)
           T == {n \in Nat : \E r \in DOMAIN f : Len(r) = n /\ IsPrefix(p, r) /\ ~Good(r)}
<1> SUFFICES ASSUME ~Good(q) PROVE FALSE  OBVIOUS
<1>1. DOMAIN f \subseteq Seq(Name) /\ p \in Seq(Name)  BY DEF FsOK, Path
<1>2. T \in SUBSET Nat  OBVIOUS
<1>3. T # {}
  <2>1. Len(q) \in Nat  BY <1>1, LenProperties
  <2> QED  BY <2>1
<1>4. PICK n \in T : \A m \in T : n <= m
  <2> HIDE DEF T
  <2> QED  BY <1>2, <1>3, Least
<1>5. PICK r \in DOMAIN f : Len(r) = n /\ IsPrefix(p, r) /\ ~Good(r)  BY <1>4
<1>6. p # r  BY <1>5
<1>7. r # <<>>  BY <1>1, <1>5, <1>6, PrefixTrivial
<1>8. IsDir(f, Front(r))  BY <1>7 DEF FsOK, IsTree, Root
<1>9. IsPrefix(p, Front(r))  BY <1>1, <1>5, <1>6, <1>7, PrefixOfFront
<1>10. Len(Front(r)) = n - 1 /\ Len(Front(r)) \in Nat /\ n - 1 < n
  <2>1. Front(r) \in Seq(Name) /\ Len(Front(r)) = Len(r) - 1  BY <1>1, <1>7, FrontLast
  <2> QED  BY <1>5, <2>1, LenProperties
<1>11. Good(Front(r))
  <2>1. Front(r) \in DOMAIN f  BY <1>8 DEF IsDir, Exists
  <2>2. n - 1 \notin T  BY <1>4, <1>10
  <2> QED  BY <1>9, <1>10, <2>1, <2>2
<1> QED  BY <1>5, <1>8, <1>11 DEF IsDir, Exists

\* Nothing is under a path that is not there.
LEMMA TreeOfNone ==
  ASSUME NEW f, FsOK(f), NEW p \in Path, ~Exists(f, p)
  PROVE  Tree(f, p) = {}
BY Ancestors DEF Tree, Exists

\* The directory of what is not under p is not under p.
LEMMA NothingUnder ==
  ASSUME NEW f, FsOK(f), NEW p \in Path, NEW q \in DOMAIN f \ {Root}
  PROVE  q \notin Tree(f, p) => Front(q) \notin Tree(f, p)
<1>1. q \in Seq(Name) /\ q # <<>> /\ p \in Seq(Name)  BY DEF FsOK, Path, Root
<1> QED  BY <1>1, PrefixOfFront DEF Tree

\* rename(2), path by path.
LEMMA RenamedFacts ==
  ASSUME NEW f, FsOK(f), NEW src \in Path, NEW dst \in Path
  PROVE  LET rest == DOMAIN f \ (Tree(f, src) \cup Tree(f, dst))
             moved == {To(src, dst, q) : q \in Tree(f, src)}
             g == Renamed(f, src, dst)
         IN  /\ DOMAIN g = rest \cup moved
             /\ g \in [DOMAIN g -> Content]
             /\ \A q \in Tree(f, src) : g[To(src, dst, q)] = f[q]
             /\ \A q \in rest : g[q] = f[q]
             /\ \A q \in moved : q \in Path /\ IsPrefix(dst, q)
<1> DEFINE rest == DOMAIN f \ (Tree(f, src) \cup Tree(f, dst))
           moved == {To(src, dst, q) : q \in Tree(f, src)}
           value(q) == IF q \in moved THEN f[To(dst, src, q)] ELSE f[q]
           g == [q \in rest \cup moved |-> value(q)]
<1>1. Renamed(f, src, dst) = g  BY Zenon DEF Renamed, To
<1>2. \A q \in DOMAIN f : q \in Path /\ f[q] \in Content  BY DEF FsOK
<1>3. \A q \in Tree(f, src) :
        /\ q \in DOMAIN f /\ IsPrefix(src, q)
        /\ To(src, dst, q) \in Path /\ IsPrefix(dst, To(src, dst, q))
        /\ To(dst, src, To(src, dst, q)) = q
  BY <1>2, ToFacts DEF Tree, Path
<1>4. \A q \in moved : q \in Path /\ IsPrefix(dst, q) /\ f[To(dst, src, q)] \in Content
  BY <1>2, <1>3
<1>5. \A q \in rest : q \notin moved
  BY <1>4 DEF Tree
<1>6. \A q \in rest \cup moved : value(q) \in Content  BY <1>2, <1>4
<1> HIDE DEF value
<1>7. DOMAIN g = rest \cup moved /\ g \in [DOMAIN g -> Content]  BY <1>6
<1>8. \A q \in Tree(f, src) : g[To(src, dst, q)] = f[q]  BY <1>3 DEF value
<1>9. \A q \in rest : g[q] = f[q]  BY <1>5 DEF value
<1> HIDE DEF g, rest, moved
<1>10. /\ DOMAIN g = rest \cup moved
       /\ g \in [DOMAIN g -> Content]
       /\ \A q \in Tree(f, src) : g[To(src, dst, q)] = f[q]
       /\ \A q \in rest : g[q] = f[q]
       /\ \A q \in moved : q \in Path /\ IsPrefix(dst, q)
  BY <1>4, <1>7, <1>8, <1>9
<1> QED  BY <1>1, <1>10 DEF rest, moved

\* A rename(2) that succeeds leaves a tree.
LEMMA RenamedOK ==
  ASSUME NEW f, FsOK(f), NEW src \in Path, NEW dst \in Path, CanRename(f, src, dst)
  PROVE  FsOK(Renamed(f, src, dst))
<1> DEFINE rest == DOMAIN f \ (Tree(f, src) \cup Tree(f, dst))
           moved == {To(src, dst, q) : q \in Tree(f, src)}
           g == Renamed(f, src, dst)
<1>1. /\ DOMAIN g = rest \cup moved
      /\ g \in [DOMAIN g -> Content]
      /\ \A q \in Tree(f, src) : g[To(src, dst, q)] = f[q]
      /\ \A q \in rest : g[q] = f[q]
      /\ \A q \in moved : q \in Path /\ IsPrefix(dst, q)
  BY RenamedFacts
<1>2. /\ src \in DOMAIN f /\ src # Root /\ dst # Root
      /\ IsDir(f, Front(dst)) /\ ~IsStrictPrefix(src, dst)
  BY DEF CanRename, Exists
<1>3. src \in Seq(Name) /\ dst \in Seq(Name) /\ DOMAIN f \subseteq Seq(Name)
  BY DEF FsOK, Path
<1>4. IsFiniteSet(DOMAIN g)
  <2>1. IsFiniteSet(rest) /\ IsFiniteSet(Tree(f, src))
    BY FS_Subset DEF FsOK, Tree
  <2>2. [q \in Tree(f, src) |-> To(src, dst, q)] \in Surjection(Tree(f, src), moved)
    BY DEF Surjection
  <2>3. IsFiniteSet(moved)  BY <2>1, <2>2, FS_Surjection
  <2> QED  BY <1>1, <2>1, <2>3, FS_Union
<1>5. IsDir(f, Root) /\ Root \in rest
  <2>1. IsDir(f, Root) /\ Root \in DOMAIN f  BY DEF FsOK, IsTree, IsDir, Exists
  <2>2. ~IsPrefix(src, Root) /\ ~IsPrefix(dst, Root)
    BY <1>2, <1>3, PrefixTrivial DEF Root
  <2> QED  BY <2>1, <2>2 DEF Tree
<1>6. IsDir(g, Root)  BY <1>1, <1>5 DEF IsDir, Exists
<1>7. ASSUME NEW q \in rest \ {Root} PROVE IsDir(g, Front(q))
  <2>1. IsDir(f, Front(q)) /\ Front(q) \in DOMAIN f  BY DEF FsOK, IsTree, IsDir, Exists
  <2>2. Front(q) \notin Tree(f, src) /\ Front(q) \notin Tree(f, dst)
    BY NothingUnder DEF Tree
  <2> QED  BY <1>1, <2>1, <2>2 DEF IsDir, Exists
<1>8. IsDir(g, Front(dst))
  <2>1. Front(dst) \in DOMAIN f /\ f[Front(dst)] = Dir  BY <1>2 DEF IsDir, Exists
  <2>2. dst # <<>> /\ Front(dst) \in Seq(Name)  BY <1>2, <1>3, FrontLast DEF Root
  <2>3. Front(dst) \notin Tree(f, src)
    <3>1. IsPrefix(src, Front(dst)) => IsPrefix(src, dst)  BY <1>3, <2>2, PrefixOfFront
    <3>2. IsPrefix(src, Front(dst)) => src # dst
      <4>1. ~IsPrefix(dst, Front(dst))
        <5>1. Len(Front(dst)) = Len(dst) - 1 /\ Len(dst) \in Nat
          BY <1>3, <2>2, FrontLast, LenProperties
        <5> QED  BY <5>1 DEF IsPrefix
      <4> QED  BY <4>1
    <3> QED  BY <1>2, <3>1, <3>2 DEF Tree, IsStrictPrefix
  <2>4. Front(dst) \notin Tree(f, dst)
    <3>1. Len(Front(dst)) = Len(dst) - 1 /\ Len(dst) \in Nat
      BY <1>3, <2>2, FrontLast, LenProperties
    <3> QED  BY <3>1 DEF Tree, IsPrefix
  <2> QED  BY <1>1, <2>1, <2>3, <2>4 DEF IsDir, Exists
<1>9. ASSUME NEW q \in moved PROVE IsDir(g, Front(q))
  <2>1. PICK r \in Tree(f, src) : q = To(src, dst, r)  OBVIOUS
  <2>2. r \in DOMAIN f /\ IsPrefix(src, r) /\ r \in Seq(Name)  BY <1>3 DEF Tree
  <2>3. CASE r = src
    <3>1. q = dst  BY <1>3, <2>1, <2>2, <2>3, ToFacts
    <3> QED  BY <1>8, <3>1
  <2>4. CASE r # src
    <3>1. /\ r # <<>> /\ IsPrefix(src, Front(r))
          /\ Front(q) = To(src, dst, Front(r))
      BY <1>3, <2>1, <2>2, <2>4, ToFront
    <3>2. IsDir(f, Front(r))  BY <2>2, <3>1 DEF FsOK, IsTree, Root
    <3>3. Front(r) \in Tree(f, src)  BY <3>1, <3>2 DEF Tree, IsDir, Exists
    <3>4. Front(q) \in moved /\ g[Front(q)] = f[Front(r)]  BY <1>1, <3>1, <3>3
    <3> QED  BY <1>1, <3>2, <3>4 DEF IsDir, Exists
  <2> QED  BY <2>3, <2>4
<1>10. DOMAIN g \subseteq Path  BY <1>1 DEF FsOK
<1>11. IsTree(g)
  <2> HIDE DEF g, rest, moved
  <2> QED  BY <1>1, <1>6, <1>7, <1>9 DEF IsTree
<1> QED  BY <1>1, <1>4, <1>10, <1>11 DEF FsOK

\* rename(2) and mv, whatever they are asked for, as long as the last name is one.
LEMMA RenameOK ==
  ASSUME NEW f, FsOK(f), NEW src, NEW dst \in Seq(Name \cup {NoName}),
         dst # Root => Last(dst) \in Name
  PROVE  FsOK(Rename(f, src, dst))
<1>1. CASE ~CanRename(f, src, dst)  BY <1>1 DEF Rename
<1>2. CASE CanRename(f, src, dst)
  <2>1. src \in Path /\ dst # <<>> /\ Front(dst) \in Path
    BY <1>2 DEF CanRename, Exists, IsDir, FsOK, Root
  <2>2. Append(Front(dst), Last(dst)) = dst  BY <2>1, FrontThenLast
  <2>3. Front(dst) \in Seq(Name) /\ Last(dst) \in Name  BY <2>1 DEF Path, Root
  <2>4. Append(Front(dst), Last(dst)) \in Seq(Name)
    <3> DEFINE a == Front(dst)
               b == Last(dst)
    <3> HIDE DEF a, b
    <3> QED  BY <2>3, AppendFacts DEF a, b
  <2>5. dst \in Path  BY <2>2, <2>4 DEF Path
  <2> QED  BY <1>2, <2>1, <2>5, RenamedOK DEF Rename
<1> QED  BY <1>1, <1>2

\* mv, also into a directory of the name of the target.
LEMMA MvOK ==
  ASSUME NEW f, FsOK(f), NEW src \in Seq(Name \cup {NoName}),
         NEW dst \in Seq(Name \cup {NoName}), dst # Root, Last(dst) \in Name
  PROVE  FsOK(Mv(f, src, dst))
<1> DEFINE target == IF IsDir(f, dst) THEN Append(dst, Last(src)) ELSE dst
<1>1. CASE src \in DOMAIN f /\ src # Root
  <2>1. src \in Seq(Name) /\ src # <<>>  BY <1>1 DEF FsOK, Path, Root
  <2>2. Last(src) \in Name  BY <2>1, FrontLast
  <2>3. Last(src) \in Name \cup {NoName}  BY <2>2
  <2>4. /\ Append(dst, Last(src)) \in Seq(Name \cup {NoName})
        /\ Append(dst, Last(src)) # <<>> /\ Last(Append(dst, Last(src))) = Last(src)
    <3> DEFINE b == Last(src)
    <3> HIDE DEF b
    <3> QED  BY <2>3, AppendFacts DEF b
  <2>5. target \in Seq(Name \cup {NoName}) /\ target # Root /\ Last(target) \in Name
    BY <2>2, <2>4 DEF Root
  <2> HIDE DEF target
  <2>6. FsOK(Rename(f, src, target))  BY <2>5, RenameOK
  <2> QED  BY <2>6 DEF Mv, target
<1>2. CASE ~(src \in DOMAIN f /\ src # Root)
  <2>1. \A t : ~CanRename(f, src, t)  BY <1>2 DEF CanRename, Exists
  <2> QED  BY <2>1 DEF Mv, Rename
<1> QED  BY <1>1, <1>2

\* rm -rf of anything but the root.
LEMMA RemoveTreeOK ==
  ASSUME NEW f, FsOK(f), NEW p \in Path, p # Root
  PROVE  FsOK(RemoveTree(f, p))
<1> DEFINE g == RemoveTree(f, p)
<1>1. /\ DOMAIN g = DOMAIN f \ Tree(f, p)
      /\ \A q \in DOMAIN g : g[q] = f[q]
  BY DEF RemoveTree
<1>2. g \in [DOMAIN g -> Content]  BY DEF RemoveTree, FsOK
<1>3. IsFiniteSet(DOMAIN g) /\ DOMAIN g \subseteq Path
  BY <1>1, FS_Subset DEF FsOK
<1>4. Root \notin Tree(f, p)
  <2>1. ~IsPrefix(p, Root)  BY PrefixTrivial DEF Path, Root
  <2> QED  BY <2>1 DEF Tree
<1>5. IsDir(g, Root)  BY <1>1, <1>4 DEF FsOK, IsTree, IsDir, Exists
<1>6. ASSUME NEW q \in DOMAIN g \ {Root} PROVE IsDir(g, Front(q))
  <2>1. q \in DOMAIN f \ {Root} /\ q \notin Tree(f, p)  BY <1>1
  <2>2. Front(q) \notin Tree(f, p)  BY <2>1, NothingUnder
  <2>3. IsDir(f, Front(q))  BY <2>1 DEF FsOK, IsTree
  <2> QED  BY <1>1, <2>2, <2>3 DEF IsDir, Exists
<1> HIDE DEF g
<1>7. FsOK(g)  BY <1>2, <1>3, <1>5, <1>6 DEF FsOK, IsTree
<1> QED  BY <1>7 DEF g

\* rm -f.
LEMMA RemoveFileOK ==
  ASSUME NEW f, FsOK(f), NEW p \in Path, p # Root
  PROVE  FsOK(RemoveFile(f, p))
BY RemoveTreeOK DEF RemoveFile

\* mkdir -p.
LEMMA MkdirPOK ==
  ASSUME NEW f, FsOK(f), NEW p \in Path
  PROVE  FsOK(MkdirP(f, p))
<1> DEFINE way == {SubSeq(p, 1, i) : i \in 0..Len(p)}
           g == [q \in DOMAIN f \cup way |-> IF Exists(f, q) THEN f[q] ELSE Dir]
<1>1. SUFFICES ASSUME \A q \in way : Exists(f, q) => IsDir(f, q) PROVE FsOK(g)
  BY DEF MkdirP
<1>2. Len(p) \in Nat /\ \A i \in 1..Len(p) : p[i] \in Name
  BY LenProperties, ElementOfSeq DEF Path
<1>3. \A i \in 0..Len(p) :
        /\ SubSeq(p, 1, i) \in Seq(Name) /\ Len(SubSeq(p, 1, i)) = i
        /\ \A j \in 1..i : SubSeq(p, 1, i)[j] = p[j]
  <2> TAKE i \in 0..Len(p)
  <2>1. \A j \in 1..i : p[j] \in Name  BY <1>2
  <2>2. /\ SubSeq(p, 1, i) \in Seq(Name)
        /\ Len(SubSeq(p, 1, i)) = (IF 1 <= i THEN i - 1 + 1 ELSE 0)
        /\ \A j \in 1..(i - 1 + 1) : SubSeq(p, 1, i)[j] = p[1 + j - 1]
    BY <1>2, <2>1, SubSeqProperties
  <2> QED  BY <1>2, <2>2
<1>4. way \subseteq Path  BY <1>3 DEF Path
<1>5. IsFiniteSet(way)
  <2>1. IsFiniteSet(0..Len(p))  BY <1>2, FS_Interval
  <2>2. [i \in 0..Len(p) |-> SubSeq(p, 1, i)] \in Surjection(0..Len(p), way)
    BY DEF Surjection
  <2> QED  BY <2>1, <2>2, FS_Surjection
<1>6. IsFiniteSet(DOMAIN g) /\ DOMAIN g \subseteq Path
  BY <1>4, <1>5, FS_Union DEF FsOK
<1>7. g \in [DOMAIN g -> Content]  BY DEF FsOK, Content, Exists
<1>8. \A q \in DOMAIN f : IsDir(f, q) => IsDir(g, q)  BY DEF IsDir, Exists
<1>9. \A q \in way : IsDir(g, q)  BY <1>1 DEF IsDir, Exists
<1>10. IsDir(g, Root)  BY <1>8 DEF FsOK, IsTree, IsDir, Exists
<1>11. ASSUME NEW q \in DOMAIN g \ {Root} PROVE IsDir(g, Front(q))
  <2>1. CASE q \in DOMAIN f
    <3>1. IsDir(f, Front(q)) /\ Front(q) \in DOMAIN f
      BY <2>1 DEF FsOK, IsTree, IsDir, Exists
    <3> QED  BY <1>8, <3>1
  <2>2. CASE q \in way
    <3>1. PICK i \in 0..Len(p) : q = SubSeq(p, 1, i)  BY <2>2
    <3>2. q \in Seq(Name) /\ Len(q) = i /\ q # <<>>  BY <1>3, <3>1 DEF Root
    <3>3. i # 0  BY <3>2, EmptySeq
    <3>4. i - 1 \in 0..Len(p)  BY <1>2, <3>3
    <3>5. /\ Front(q) \in Seq(Name) /\ Len(Front(q)) = i - 1
          /\ \A j \in 1..(i - 1) : Front(q)[j] = q[j]
      BY <3>2, FrontLast
    <3>6. Front(q) = SubSeq(p, 1, i - 1)
      <4>1. \A j \in 1..(i - 1) : Front(q)[j] = SubSeq(p, 1, i - 1)[j]
        BY <1>2, <1>3, <3>1, <3>4, <3>5
      <4>2. SubSeq(p, 1, i - 1) \in Seq(Name) /\ Len(SubSeq(p, 1, i - 1)) = i - 1
        BY <1>3, <3>4
      <4> DEFINE a == Front(q)
                 b == SubSeq(p, 1, i - 1)
      <4> HIDE DEF a, b
      <4> QED  BY <3>5, <4>1, <4>2, SeqEqual DEF a, b
    <3> QED  BY <1>9, <3>4, <3>6
  <2> QED  BY <2>1, <2>2
<1> HIDE DEF g
<1> QED  BY <1>6, <1>7, <1>10, <1>11 DEF FsOK, IsTree

\* A file created in a directory under a name that is free.
LEMMA CreateOK ==
  ASSUME NEW f, FsOK(f), NEW p \in Path, ~Exists(f, p), IsDir(f, Front(p)), NEW c \in Nat
  PROVE  FsOK(Create(f, p, c))
<1> DEFINE g == Create(f, p, c)
<1>1. /\ DOMAIN g = DOMAIN f \cup {p}
      /\ \A q \in DOMAIN f : g[q] = f[q]
  BY DEF Create, Exists
<1>2. g \in [DOMAIN g -> Content]  BY DEF Create, FsOK, Content
<1>3. IsFiniteSet(DOMAIN g) /\ DOMAIN g \subseteq Path
  BY <1>1, FS_AddElement DEF FsOK
<1>4. \A q \in DOMAIN f : IsDir(f, q) => IsDir(g, q)  BY <1>1 DEF IsDir, Exists
<1>5. IsDir(g, Root)  BY <1>4 DEF FsOK, IsTree, IsDir, Exists
<1>6. ASSUME NEW q \in DOMAIN g \ {Root} PROVE IsDir(g, Front(q))
  <2>1. IsDir(f, Front(q))  BY <1>1 DEF FsOK, IsTree
  <2> QED  BY <1>4, <2>1 DEF IsDir, Exists
<1> HIDE DEF g
<1>7. FsOK(g)  BY <1>2, <1>3, <1>5, <1>6 DEF FsOK, IsTree
<1> QED  BY <1>7 DEF g

----------------------------------------------------------------------------
(* Loops over a sequence.                                                  *)

\* The last of some places of a sequence.
LEMMA LargestIs ==
  ASSUME NEW n \in Nat, NEW d \in SUBSET (1..n), d # {}
  PROVE  Max(d) \in d /\ \A j \in d : j <= Max(d)
<1> DEFINE T == {n - j : j \in d}
<1>0. \A j \in d : j \in 1..n  OBVIOUS
<1>1. T \in SUBSET Nat /\ T # {}
  <2>1. ASSUME NEW j \in d PROVE n - j \in Nat  BY <1>0
  <2> QED  BY <2>1
<1>2. PICK m \in T : \A l \in T : m <= l
  <2> HIDE DEF T
  <2> QED  BY <1>1, Least
<1>3. PICK i \in d : m = n - i  BY <1>2
<1>4. \A j \in d : i >= j
  <2> TAKE j \in d
  <2>1. n - i <= n - j  BY <1>2, <1>3
  <2> QED  BY <2>1
<1>5. Max(d) \in d /\ \A j \in d : Max(d) >= j
  <2>1. \E x \in d : \A y \in d : x >= y  BY <1>4
  <2>2. Max(d) = CHOOSE x \in d : \A y \in d : x >= y  BY DEF Max
  <2> QED  BY <2>1, <2>2, Zenon
<1>6. Max(d) \in 1..n /\ \A j \in d : j \in 1..n  BY <1>0, <1>5, Zenon
<1> DEFINE x == Max(d)
<1> HIDE DEF x
<1>7. \A j \in d : j <= x  BY <1>5, <1>6 DEF x
<1> QED  BY <1>5, <1>7 DEF x

\* The last place is the last of those that hold it.
LEMMA LargestOf ==
  ASSUME NEW n \in Nat, NEW d \in SUBSET (1..n), n \in d
  PROVE  Max(d) = n
<1> DEFINE x == Max(d)
<1>1. x \in d /\ \A j \in d : j <= x  BY LargestIs
<1> HIDE DEF x
<1>2. x = n  BY <1>1
<1> QED  BY <1>2 DEF x

\* The function FoldLeft walks a sequence with exists when the rounds stay in a set.
Walks(W, D, step, base, s, it) ==
  \A d \in SUBSET DOMAIN s :
    /\ it[d] = IF d = {} THEN base ELSE step[<<it[d \ {Max(d)}], s[Max(d)]>>]
    /\ d # {} => it[d \ {Max(d)}] \in W /\ s[Max(d)] \in D

\* There is such a function, built one round after the other.
LEMMA FoldExists ==
  ASSUME NEW W, NEW D, NEW step \in [W \X D -> W], NEW base \in W, NEW s \in Seq(D)
  PROVE  \E it \in [SUBSET DOMAIN s -> W] : Walks(W, D, step, base, s, it)
<1> DEFINE n == Len(s)
           Fits(it, k) ==
             /\ it \in [SUBSET (1..k) -> W]
             /\ \A d \in SUBSET (1..k) :
                  it[d] = IF d = {} THEN base ELSE step[<<it[d \ {Max(d)}], s[Max(d)]>>]
           P == [k \in 0..n |-> \E it : Fits(it, k)]
<1>1. n \in Nat /\ DOMAIN s = 1..n /\ \A i \in 1..n : s[i] \in D
  BY LenProperties, ElementOfSeq
<1> HIDE DEF n
<1>2. P[0]
  <2> DEFINE it == [d \in SUBSET (1..0) |-> base]
  <2>1. \A d \in SUBSET (1..0) : d = {} /\ it[d] = base  OBVIOUS
  <2>2. it \in [SUBSET (1..0) -> W]  OBVIOUS
  <2> HIDE DEF it
  <2>3. Fits(it, 0)  BY <2>1, <2>2
  <2>4. \E i : Fits(i, 0)  BY <2>3
  <2> HIDE DEF Fits
  <2> QED  BY <1>1, <2>4
<1>3. ASSUME NEW k \in 1..n, P[k - 1] PROVE P[k]
  <2>0. k \in 0..n /\ k - 1 \in 0..n  BY <1>1
  <2>1. PICK it : Fits(it, k - 1)
    <3> HIDE DEF Fits
    <3> QED  BY <1>3, <2>0
  <2> DEFINE it2 == [d \in SUBSET (1..k) |->
                       IF k \in d THEN step[<<it[d \ {k}], s[k]>>] ELSE it[d]]
  <2>2. \A d \in SUBSET (1..k) : d \ {k} \in SUBSET (1..(k - 1))  BY <1>1
  <2>3. \A d \in SUBSET (1..k) : k \notin d => d \in SUBSET (1..(k - 1))  BY <1>1
  <2>4. \A d \in SUBSET (1..(k - 1)) : it[d] \in W  BY <2>1
  <2>5. it2 \in [SUBSET (1..k) -> W]
    <3>1. ASSUME NEW d \in SUBSET (1..k), k \in d
          PROVE  step[<<it[d \ {k}], s[k]>>] \in W
      <4>1. it[d \ {k}] \in W /\ s[k] \in D  BY <1>1, <2>2, <2>4
      <4> QED  BY <4>1
    <3>2. ASSUME NEW d \in SUBSET (1..k), k \notin d PROVE it[d] \in W
      BY <2>3, <2>4, <3>2
    <3> QED  BY <3>1, <3>2
  <2>6. ASSUME NEW d \in SUBSET (1..k)
        PROVE  it2[d] = IF d = {} THEN base ELSE step[<<it2[d \ {Max(d)}], s[Max(d)]>>]
    <3>1. CASE k \in d
      <4>1. Max(d) = k  BY <1>1, <3>1, LargestOf
      <4>2. it2[d \ {k}] = it[d \ {k}]  BY <2>2
      <4>3. it2[d] = step[<<it[d \ {k}], s[k]>>]  BY <3>1
      <4> HIDE DEF it2
      <4> QED  BY <3>1, <4>1, <4>2, <4>3
    <3>2. CASE k \notin d
      <4>1. d \in SUBSET (1..(k - 1))  BY <2>3, <3>2
      <4>2. it2[d] = it[d]  BY <3>2
      <4>3. it[d] = IF d = {} THEN base ELSE step[<<it[d \ {Max(d)}], s[Max(d)]>>]
        BY <2>1, <4>1
      <4>4. it2[d \ {Max(d)}] = it[d \ {Max(d)}]  BY <3>2
      <4> HIDE DEF it2
      <4> QED  BY <4>2, <4>3, <4>4
    <3> QED  BY <3>1, <3>2
  <2> HIDE DEF it2
  <2>7. Fits(it2, k)  BY <2>5, <2>6
  <2>8. \E i : Fits(i, k)  BY <2>7
  <2> HIDE DEF Fits
  <2> QED  BY <2>0, <2>8
<1>4. P[n]
  <2> HIDE DEF P
  <2>1. \A k \in 0..n : P[k]  BY <1>1, <1>2, <1>3, Climb
  <2> QED  BY <1>1, <2>1
<1>5. n \in 0..n  BY <1>1
<1>6. PICK it : Fits(it, n)
  <2> HIDE DEF Fits
  <2> QED  BY <1>4, <1>5
<1>7. ASSUME NEW d \in SUBSET (1..n), d # {} PROVE Max(d) \in 1..n
  BY <1>1, <1>7, LargestIs
<1>8. \A d \in SUBSET (1..n) : d # {} => it[d \ {Max(d)}] \in W /\ s[Max(d)] \in D
  BY <1>1, <1>6, <1>7
<1> QED  BY <1>1, <1>6, <1>8 DEF Walks

\* The rounds of that function: the sets it is used on are the first k places.
LEMMA Rounds ==
  ASSUME NEW n \in Nat
  PROVE  /\ 1..0 = {}
         /\ \A k \in 0..n : 1..k \in SUBSET (1..n)
         /\ \A k \in 1..n : 1..k # {} /\ Max(1..k) = k /\ (1..k) \ {k} = 1..(k - 1)
<1>1. ASSUME NEW k \in 1..n PROVE Max(1..k) = k
  <2>1. k \in Nat /\ 1..k \in SUBSET (1..k) /\ k \in 1..k  OBVIOUS
  <2> QED  BY <2>1, LargestOf
<1>2. \A k \in 1..n : 1..k # {} /\ (1..k) \ {k} = 1..(k - 1)  OBVIOUS
<1>3. 1..0 = {} /\ \A k \in 0..n : 1..k \in SUBSET (1..n)  OBVIOUS
<1> QED  BY <1>1, <1>2, <1>3

\* The rounds of the loop: what each leaves for the next.
Runs(W, step, base, s, end, run) ==
  /\ run[0] = base /\ run[Len(s)] = end
  /\ \A k \in 0..Len(s) : run[k] \in W
  /\ \A k \in 1..Len(s) : run[k] = step[<<run[k - 1], s[k]>>]

\* What the definition of FoldLeft says of a function whatever step it walks with.
Retraces(W, step, base, s, walk) ==
  \A d \in SUBSET DOMAIN s :
    walk[d] = IF d = {} THEN base
              ELSE IF walk[d \ {Max(d)}] \in W THEN step[<<walk[d \ {Max(d)}], s[Max(d)]>>]
              ELSE walk[d]

\* Such a function goes through the rounds of the loop.
LEMMA FoldRuns ==
  ASSUME NEW W, NEW D, NEW step \in [W \X D -> W], NEW base \in W, NEW s \in Seq(D), NEW walk,
         Retraces(W, step, base, s, walk)
  PROVE  \E run : Runs(W, step, base, s, walk[DOMAIN s], run)
<1> DEFINE n == Len(s)
           run == [k \in 0..n |-> walk[1..k]]
           P == [k \in 0..n |-> run[k] \in W]
<1>1. n \in Nat /\ DOMAIN s = 1..n /\ \A i \in 1..n : s[i] \in D
  BY LenProperties, ElementOfSeq
<1> HIDE DEF n
<1>2. /\ 1..0 = {}
      /\ \A k \in 0..n : 1..k \in SUBSET (1..n)
      /\ \A k \in 1..n : 1..k # {} /\ Max(1..k) = k /\ (1..k) \ {k} = 1..(k - 1)
  BY <1>1, Rounds
<1>3. \A k \in 0..n : run[k] = walk[1..k]  OBVIOUS
<1>4. 0 \in 0..n /\ n \in 0..n /\ \A k \in 1..n : k \in 0..n /\ k - 1 \in 0..n  BY <1>1
<1> HIDE DEF run
<1>5. run[0] = base  BY <1>1, <1>2, <1>3, <1>4, Zenon DEF Retraces
<1>6. ASSUME NEW k \in 1..n, run[k - 1] \in W
      PROVE  run[k] = step[<<run[k - 1], s[k]>>] /\ run[k] \in W
  <2>1. 1..k \in SUBSET DOMAIN s /\ 1..k # {} /\ Max(1..k) = k /\ (1..k) \ {k} = 1..(k - 1)
        /\ run[k] = walk[1..k] /\ run[k - 1] = walk[1..(k - 1)]
    BY <1>1, <1>2, <1>3, <1>4, Zenon
  <2> DEFINE d == 1..k
  <2>2. walk[d] = IF walk[d \ {Max(d)}] \in W THEN step[<<walk[d \ {Max(d)}], s[Max(d)]>>]
                  ELSE walk[d]
    BY <2>1, Zenon DEF Retraces
  <2>3. walk[d \ {Max(d)}] = run[k - 1]  BY <2>1, Zenon
  <2>4. walk[d] = step[<<run[k - 1], s[k]>>]  BY <1>6, <2>1, <2>2, <2>3, Zenon
  <2>5. step[<<run[k - 1], s[k]>>] \in W  BY <1>1, <1>6
  <2> QED  BY <2>1, <2>4, <2>5
<1>7. \A k \in 0..n : P[k]
  <2>1. P[0]  BY <1>4, <1>5
  <2>2. \A k \in 1..n : P[k - 1] => P[k]  BY <1>4, <1>6
  <2> HIDE DEF P
  <2> QED  BY <1>1, <2>1, <2>2, Climb
<1>8. \A k \in 0..n : run[k] \in W  BY <1>7
<1>9. \A k \in 1..n : run[k] = step[<<run[k - 1], s[k]>>]  BY <1>4, <1>6, <1>8
<1>10. run[n] = walk[DOMAIN s]  BY <1>1, <1>3, <1>4
<1>11. Runs(W, step, base, s, walk[DOMAIN s], run)  BY <1>5, <1>8, <1>9, <1>10 DEF Runs, n
<1> QED  BY <1>11

\* An operation whose files can be put back: a rename has its new name.
NamedOp == {op \in H!Op : op.type = "RENAME" => op.item.new_name \in Name}

\* The rounds of files_move_mark_all.
MarkMoreRun(W, base, s, run) ==
  /\ run[0] = base /\ run[Len(s)] = FoldLeft(MarkMore, base, s)
  /\ \A k \in 0..Len(s) : run[k] \in W
  /\ \A k \in 1..Len(s) : run[k] = MarkMore(run[k - 1], s[k])

\* FoldLeft goes through them.
LEMMA MarkMoreFold ==
  ASSUME NEW W, NEW base \in W, NEW s \in Seq(Entry),
         \A w \in W, e \in Entry : MarkMore(w, e) \in W
  PROVE  \E run : MarkMoreRun(W, base, s, run)
<1> DEFINE D == Entry
           step == [x \in W \X D |-> MarkMore(x[1], x[2])]
           Works(it) == it = [d \in SUBSET DOMAIN s |->
             IF d = {} THEN base ELSE MarkMore(it[d \ {Max(d)}], s[Max(d)])]
           Walk == CHOOSE it : Works(it)
<1>1. /\ step \in [W \X D -> W]
      /\ \A w \in W, e \in D : step[<<w, e>>] = MarkMore(w, e)
  OBVIOUS
<1>2. s \in Seq(D)  OBVIOUS
<1> HIDE DEF step, D
<1>3. PICK it \in [SUBSET DOMAIN s -> W] : Walks(W, D, step, base, s, it)
  BY <1>1, <1>2, FoldExists
<1>4. Works(it)
  <2>1. \A d \in SUBSET DOMAIN s :
          it[d] = IF d = {} THEN base ELSE MarkMore(it[d \ {Max(d)}], s[Max(d)])
    BY <1>1, <1>3, Zenon DEF Walks
  <2>2. it = [d \in SUBSET DOMAIN s |-> it[d]]  BY <1>3
  <2> QED  BY <2>1, <2>2, Zenon
<1>5. Works(Walk)
  <2> HIDE DEF Works
  <2> QED  BY <1>4
<1>6. FoldLeft(MarkMore, base, s) = Walk[DOMAIN s]
  BY Zenon DEF FoldLeft, MapThenFoldSet
<1> HIDE DEF Walk
<1>7. \A d \in SUBSET DOMAIN s : d # {} => s[Max(d)] \in D  BY <1>3 DEF Walks
<1>8. Retraces(W, step, base, s, Walk)  BY <1>1, <1>5, <1>7, Zenon DEF Retraces
<1>9. PICK run : Runs(W, step, base, s, Walk[DOMAIN s], run)
  BY <1>1, <1>2, <1>8, FoldRuns
<1>10. ASSUME NEW k \in 1..Len(s) PROVE run[k] = MarkMore(run[k - 1], s[k])
  <2>1. k - 1 \in 0..Len(s) /\ s[k] \in D  BY <1>2, LenProperties, ElementOfSeq
  <2> QED  BY <1>1, <1>9, <2>1 DEF Runs
<1> QED  BY <1>6, <1>9, <1>10 DEF Runs, MarkMoreRun

\* The rounds of files_delete_to_trash.
TrashOneRun(W, base, s, run) ==
  /\ run[0] = base /\ run[Len(s)] = FoldLeft(TrashOne, base, s)
  /\ \A k \in 0..Len(s) : run[k] \in W
  /\ \A k \in 1..Len(s) : run[k] = TrashOne(run[k - 1], s[k])

\* FoldLeft goes through them.
LEMMA TrashOneFold ==
  ASSUME NEW W, NEW base \in W, NEW s \in Seq(Entry),
         \A w \in W, e \in Entry : TrashOne(w, e) \in W
  PROVE  \E run : TrashOneRun(W, base, s, run)
<1> DEFINE D == Entry
           step == [x \in W \X D |-> TrashOne(x[1], x[2])]
           Works(it) == it = [d \in SUBSET DOMAIN s |->
             IF d = {} THEN base ELSE TrashOne(it[d \ {Max(d)}], s[Max(d)])]
           Walk == CHOOSE it : Works(it)
<1>1. /\ step \in [W \X D -> W]
      /\ \A w \in W, e \in D : step[<<w, e>>] = TrashOne(w, e)
  OBVIOUS
<1>2. s \in Seq(D)  OBVIOUS
<1> HIDE DEF step, D
<1>3. PICK it \in [SUBSET DOMAIN s -> W] : Walks(W, D, step, base, s, it)
  BY <1>1, <1>2, FoldExists
<1>4. Works(it)
  <2>1. \A d \in SUBSET DOMAIN s :
          it[d] = IF d = {} THEN base ELSE TrashOne(it[d \ {Max(d)}], s[Max(d)])
    BY <1>1, <1>3, Zenon DEF Walks
  <2>2. it = [d \in SUBSET DOMAIN s |-> it[d]]  BY <1>3
  <2> QED  BY <2>1, <2>2, Zenon
<1>5. Works(Walk)
  <2> HIDE DEF Works
  <2> QED  BY <1>4
<1>6. FoldLeft(TrashOne, base, s) = Walk[DOMAIN s]
  BY Zenon DEF FoldLeft, MapThenFoldSet
<1> HIDE DEF Walk
<1>7. \A d \in SUBSET DOMAIN s : d # {} => s[Max(d)] \in D  BY <1>3 DEF Walks
<1>8. Retraces(W, step, base, s, Walk)  BY <1>1, <1>5, <1>7, Zenon DEF Retraces
<1>9. PICK run : Runs(W, step, base, s, Walk[DOMAIN s], run)
  BY <1>1, <1>2, <1>8, FoldRuns
<1>10. ASSUME NEW k \in 1..Len(s) PROVE run[k] = TrashOne(run[k - 1], s[k])
  <2>1. k - 1 \in 0..Len(s) /\ s[k] \in D  BY <1>2, LenProperties, ElementOfSeq
  <2> QED  BY <1>1, <1>9, <2>1 DEF Runs
<1> QED  BY <1>6, <1>9, <1>10 DEF Runs, TrashOneRun

\* The rounds of files_delete_permanent.
DeleteOneRun(W, base, s, run) ==
  /\ run[0] = base /\ run[Len(s)] = FoldLeft(DeleteOne, base, s)
  /\ \A k \in 0..Len(s) : run[k] \in W
  /\ \A k \in 1..Len(s) : run[k] = DeleteOne(run[k - 1], s[k])

\* FoldLeft goes through them.
LEMMA DeleteOneFold ==
  ASSUME NEW W, NEW base \in W, NEW s \in Seq(Entry),
         \A w \in W, e \in Entry : DeleteOne(w, e) \in W
  PROVE  \E run : DeleteOneRun(W, base, s, run)
<1> DEFINE D == Entry
           step == [x \in W \X D |-> DeleteOne(x[1], x[2])]
           Works(it) == it = [d \in SUBSET DOMAIN s |->
             IF d = {} THEN base ELSE DeleteOne(it[d \ {Max(d)}], s[Max(d)])]
           Walk == CHOOSE it : Works(it)
<1>1. /\ step \in [W \X D -> W]
      /\ \A w \in W, e \in D : step[<<w, e>>] = DeleteOne(w, e)
  OBVIOUS
<1>2. s \in Seq(D)  OBVIOUS
<1> HIDE DEF step, D
<1>3. PICK it \in [SUBSET DOMAIN s -> W] : Walks(W, D, step, base, s, it)
  BY <1>1, <1>2, FoldExists
<1>4. Works(it)
  <2>1. \A d \in SUBSET DOMAIN s :
          it[d] = IF d = {} THEN base ELSE DeleteOne(it[d \ {Max(d)}], s[Max(d)])
    BY <1>1, <1>3, Zenon DEF Walks
  <2>2. it = [d \in SUBSET DOMAIN s |-> it[d]]  BY <1>3
  <2> QED  BY <2>1, <2>2, Zenon
<1>5. Works(Walk)
  <2> HIDE DEF Works
  <2> QED  BY <1>4
<1>6. FoldLeft(DeleteOne, base, s) = Walk[DOMAIN s]
  BY Zenon DEF FoldLeft, MapThenFoldSet
<1> HIDE DEF Walk
<1>7. \A d \in SUBSET DOMAIN s : d # {} => s[Max(d)] \in D  BY <1>3 DEF Walks
<1>8. Retraces(W, step, base, s, Walk)  BY <1>1, <1>5, <1>7, Zenon DEF Retraces
<1>9. PICK run : Runs(W, step, base, s, Walk[DOMAIN s], run)
  BY <1>1, <1>2, <1>8, FoldRuns
<1>10. ASSUME NEW k \in 1..Len(s) PROVE run[k] = DeleteOne(run[k - 1], s[k])
  <2>1. k - 1 \in 0..Len(s) /\ s[k] \in D  BY <1>2, LenProperties, ElementOfSeq
  <2> QED  BY <1>1, <1>9, <2>1 DEF Runs
<1> QED  BY <1>6, <1>9, <1>10 DEF Runs, DeleteOneRun

\* The rounds of files_move_paste.
PasteOneRun(W, base, s, run) ==
  /\ run[0] = base /\ run[Len(s)] = FoldLeft(PasteOne, base, s)
  /\ \A k \in 0..Len(s) : run[k] \in W
  /\ \A k \in 1..Len(s) : run[k] = PasteOne(run[k - 1], s[k])

\* FoldLeft goes through them.
LEMMA PasteOneFold ==
  ASSUME NEW W, NEW base \in W, NEW s \in Seq(Written \ {Root}),
         \A w \in W, e \in Written \ {Root} : PasteOne(w, e) \in W
  PROVE  \E run : PasteOneRun(W, base, s, run)
<1> DEFINE D == Written \ {Root}
           step == [x \in W \X D |-> PasteOne(x[1], x[2])]
           Works(it) == it = [d \in SUBSET DOMAIN s |->
             IF d = {} THEN base ELSE PasteOne(it[d \ {Max(d)}], s[Max(d)])]
           Walk == CHOOSE it : Works(it)
<1>1. /\ step \in [W \X D -> W]
      /\ \A w \in W, e \in D : step[<<w, e>>] = PasteOne(w, e)
  OBVIOUS
<1>2. s \in Seq(D)  OBVIOUS
<1> HIDE DEF step, D
<1>3. PICK it \in [SUBSET DOMAIN s -> W] : Walks(W, D, step, base, s, it)
  BY <1>1, <1>2, FoldExists
<1>4. Works(it)
  <2>1. \A d \in SUBSET DOMAIN s :
          it[d] = IF d = {} THEN base ELSE PasteOne(it[d \ {Max(d)}], s[Max(d)])
    BY <1>1, <1>3, Zenon DEF Walks
  <2>2. it = [d \in SUBSET DOMAIN s |-> it[d]]  BY <1>3
  <2> QED  BY <2>1, <2>2, Zenon
<1>5. Works(Walk)
  <2> HIDE DEF Works
  <2> QED  BY <1>4
<1>6. FoldLeft(PasteOne, base, s) = Walk[DOMAIN s]
  BY Zenon DEF FoldLeft, MapThenFoldSet
<1> HIDE DEF Walk
<1>7. \A d \in SUBSET DOMAIN s : d # {} => s[Max(d)] \in D  BY <1>3 DEF Walks
<1>8. Retraces(W, step, base, s, Walk)  BY <1>1, <1>5, <1>7, Zenon DEF Retraces
<1>9. PICK run : Runs(W, step, base, s, Walk[DOMAIN s], run)
  BY <1>1, <1>2, <1>8, FoldRuns
<1>10. ASSUME NEW k \in 1..Len(s) PROVE run[k] = PasteOne(run[k - 1], s[k])
  <2>1. k - 1 \in 0..Len(s) /\ s[k] \in D  BY <1>2, LenProperties, ElementOfSeq
  <2> QED  BY <1>1, <1>9, <2>1 DEF Runs
<1> QED  BY <1>6, <1>9, <1>10 DEF Runs, PasteOneRun

\* The rounds of files_undo.
RevertRun(W, base, s, run) ==
  /\ run[0] = base /\ run[Len(s)] = FoldLeft(Revert, base, s)
  /\ \A k \in 0..Len(s) : run[k] \in W
  /\ \A k \in 1..Len(s) : run[k] = Revert(run[k - 1], s[k])

\* FoldLeft goes through them.
LEMMA RevertFold ==
  ASSUME NEW W, NEW base \in W, NEW s \in Seq(NamedOp),
         \A w \in W, e \in NamedOp : Revert(w, e) \in W
  PROVE  \E run : RevertRun(W, base, s, run)
<1> DEFINE D == NamedOp
           step == [x \in W \X D |-> Revert(x[1], x[2])]
           Works(it) == it = [d \in SUBSET DOMAIN s |->
             IF d = {} THEN base ELSE Revert(it[d \ {Max(d)}], s[Max(d)])]
           Walk == CHOOSE it : Works(it)
<1>1. /\ step \in [W \X D -> W]
      /\ \A w \in W, e \in D : step[<<w, e>>] = Revert(w, e)
  OBVIOUS
<1>2. s \in Seq(D)  OBVIOUS
<1> HIDE DEF step, D
<1>3. PICK it \in [SUBSET DOMAIN s -> W] : Walks(W, D, step, base, s, it)
  BY <1>1, <1>2, FoldExists
<1>4. Works(it)
  <2>1. \A d \in SUBSET DOMAIN s :
          it[d] = IF d = {} THEN base ELSE Revert(it[d \ {Max(d)}], s[Max(d)])
    BY <1>1, <1>3, Zenon DEF Walks
  <2>2. it = [d \in SUBSET DOMAIN s |-> it[d]]  BY <1>3
  <2> QED  BY <2>1, <2>2, Zenon
<1>5. Works(Walk)
  <2> HIDE DEF Works
  <2> QED  BY <1>4
<1>6. FoldLeft(Revert, base, s) = Walk[DOMAIN s]
  BY Zenon DEF FoldLeft, MapThenFoldSet
<1> HIDE DEF Walk
<1>7. \A d \in SUBSET DOMAIN s : d # {} => s[Max(d)] \in D  BY <1>3 DEF Walks
<1>8. Retraces(W, step, base, s, Walk)  BY <1>1, <1>5, <1>7, Zenon DEF Retraces
<1>9. PICK run : Runs(W, step, base, s, Walk[DOMAIN s], run)
  BY <1>1, <1>2, <1>8, FoldRuns
<1>10. ASSUME NEW k \in 1..Len(s) PROVE run[k] = Revert(run[k - 1], s[k])
  <2>1. k - 1 \in 0..Len(s) /\ s[k] \in D  BY <1>2, LenProperties, ElementOfSeq
  <2> QED  BY <1>1, <1>9, <2>1 DEF Runs
<1> QED  BY <1>6, <1>9, <1>10 DEF Runs, RevertRun

\* The rounds of files_redo.
ReapplyRun(W, base, s, run) ==
  /\ run[0] = base /\ run[Len(s)] = FoldLeft(Reapply, base, s)
  /\ \A k \in 0..Len(s) : run[k] \in W
  /\ \A k \in 1..Len(s) : run[k] = Reapply(run[k - 1], s[k])

\* FoldLeft goes through them.
LEMMA ReapplyFold ==
  ASSUME NEW W, NEW base \in W, NEW s \in Seq(NamedOp),
         \A w \in W, e \in NamedOp : Reapply(w, e) \in W
  PROVE  \E run : ReapplyRun(W, base, s, run)
<1> DEFINE D == NamedOp
           step == [x \in W \X D |-> Reapply(x[1], x[2])]
           Works(it) == it = [d \in SUBSET DOMAIN s |->
             IF d = {} THEN base ELSE Reapply(it[d \ {Max(d)}], s[Max(d)])]
           Walk == CHOOSE it : Works(it)
<1>1. /\ step \in [W \X D -> W]
      /\ \A w \in W, e \in D : step[<<w, e>>] = Reapply(w, e)
  OBVIOUS
<1>2. s \in Seq(D)  OBVIOUS
<1> HIDE DEF step, D
<1>3. PICK it \in [SUBSET DOMAIN s -> W] : Walks(W, D, step, base, s, it)
  BY <1>1, <1>2, FoldExists
<1>4. Works(it)
  <2>1. \A d \in SUBSET DOMAIN s :
          it[d] = IF d = {} THEN base ELSE Reapply(it[d \ {Max(d)}], s[Max(d)])
    BY <1>1, <1>3, Zenon DEF Walks
  <2>2. it = [d \in SUBSET DOMAIN s |-> it[d]]  BY <1>3
  <2> QED  BY <2>1, <2>2, Zenon
<1>5. Works(Walk)
  <2> HIDE DEF Works
  <2> QED  BY <1>4
<1>6. FoldLeft(Reapply, base, s) = Walk[DOMAIN s]
  BY Zenon DEF FoldLeft, MapThenFoldSet
<1> HIDE DEF Walk
<1>7. \A d \in SUBSET DOMAIN s : d # {} => s[Max(d)] \in D  BY <1>3 DEF Walks
<1>8. Retraces(W, step, base, s, Walk)  BY <1>1, <1>5, <1>7, Zenon DEF Retraces
<1>9. PICK run : Runs(W, step, base, s, Walk[DOMAIN s], run)
  BY <1>1, <1>2, <1>8, FoldRuns
<1>10. ASSUME NEW k \in 1..Len(s) PROVE run[k] = Reapply(run[k - 1], s[k])
  <2>1. k - 1 \in 0..Len(s) /\ s[k] \in D  BY <1>2, LenProperties, ElementOfSeq
  <2> QED  BY <1>1, <1>9, <2>1 DEF Runs
<1> QED  BY <1>6, <1>9, <1>10 DEF Runs, ReapplyRun

----------------------------------------------------------------------------
(* Sorting.                                                                *)

\* In a strict total order of n things there is one with each number of
\* things before it from 0 to n - 1.
LEMMA RankOnto ==
  ASSUME NEW S, IsFiniteSet(S), NEW below \in [S -> SUBSET S],
         \A e \in S : e \notin below[e],
         \A d, e \in S : d \in below[e] => below[d] \subseteq below[e],
         \A d, e \in S : d = e \/ d \in below[e] \/ e \in below[d]
  PROVE  \A i \in 1..Cardinality(S) : \E e \in S : Cardinality(below[e]) = i - 1
<1> DEFINE n == Cardinality(S)
           T == 0..(n - 1)
           rank == [e \in S |-> Cardinality(below[e])]
<1>1. n \in Nat  BY FS_CardinalityType
<1>2. ASSUME NEW e \in S PROVE IsFiniteSet(below[e]) /\ Cardinality(below[e]) \in T
  <2>1. below[e] \in SUBSET S /\ below[e] # S  OBVIOUS
  <2>2. /\ IsFiniteSet(below[e]) /\ Cardinality(below[e]) <= n
        /\ n = Cardinality(below[e]) => S = below[e]
    BY <2>1, FS_Subset
  <2>3. Cardinality(below[e]) \in Nat  BY <2>2, FS_CardinalityType
  <2> QED  BY <1>1, <2>1, <2>2, <2>3
<1>3. ASSUME NEW d \in S, NEW e \in S, d \in below[e]
      PROVE  Cardinality(below[d]) # Cardinality(below[e])
  <2>1. below[d] \in SUBSET below[e] /\ below[d] # below[e]  BY <1>3
  <2>2. IsFiniteSet(below[e])  BY <1>2
  <2>3. Cardinality(below[e]) = Cardinality(below[d]) => below[e] = below[d]
    BY <2>1, <2>2, FS_Subset
  <2> QED  BY <2>1, <2>3
<1>4. rank \in [S -> T]  BY <1>2
<1>5. rank \in Injection(S, T)
  <2>1. \A d, e \in S : rank[d] = rank[e] => d = e  BY <1>3
  <2> QED  BY <1>4, <2>1 DEF Injection, IsInjective
<1>6. IsFiniteSet(T) /\ Cardinality(T) = n
  <2>1. IsFiniteSet(T) /\ Cardinality(T) = IF 0 > n - 1 THEN 0 ELSE (n - 1) - 0 + 1
    BY <1>1, FS_Interval
  <2> QED  BY <1>1, <2>1
<1>7. rank \in Surjection(S, T)
  <2> HIDE DEF rank, T
  <2> QED  BY <1>5, <1>6, FS_Injection
<1>8. ASSUME NEW i \in 1..n PROVE \E e \in S : Cardinality(below[e]) = i - 1
  <2>1. i - 1 \in T  BY <1>1
  <2>2. \E e \in S : rank[e] = i - 1  BY <1>7, <2>1 DEF Surjection
  <2> QED  BY <2>2
<1> QED  BY <1>8

\* The names a listing shows do not begin with a dot.
Shown == {n \in Name : n[1] \notin Hidden}

\* A name that is shown has a first letter and then numbers.
LEMMA NameFacts ==
  ASSUME NEW n \in Shown
  PROVE  /\ Len(n) \in Nat \ {0} /\ DOMAIN n = 1..Len(n)
         /\ n[1] \in ToSet(Letters) /\ \A i \in 2..Len(n) : n[i] \in Nat
         /\ n \in Seq(ToSet(Letters) \cup Hidden \cup Nat)
<1>1. /\ n \in Seq(ToSet(Letters) \cup Hidden \cup Nat) /\ n # <<>>
      /\ n[1] \in ToSet(Letters) /\ \A i \in 2..Len(n) : n[i] \in Nat
  BY DEF Shown, Name, NoName
<1>2. Len(n) \in Nat \ {0} /\ DOMAIN n = 1..Len(n)  BY <1>1, LenProperties, EmptySeq
<1> QED  BY <1>1, <1>2

\* What strcasecmp compares place by place tells the letters apart.
LEMMA WeightFacts ==
  ASSUME NEW m \in Shown, NEW n \in Shown, NEW i \in Nat \ {0}, i <= Len(m), i <= Len(n)
  PROVE  /\ Weight(m, i) \in Nat /\ Weight(n, i) \in Nat
         /\ Weight(m, i) = Weight(n, i) <=> m[i] = n[i]
<1>1. /\ Len(m) \in Nat /\ Len(n) \in Nat
      /\ m[1] \in ToSet(Letters) /\ n[1] \in ToSet(Letters)
      /\ \A j \in 2..Len(m) : m[j] \in Nat
      /\ \A j \in 2..Len(n) : n[j] \in Nat
  BY NameFacts
<1>2. CASE i # 1
  <2>1. i \in 2..Len(m) /\ i \in 2..Len(n)  BY <1>1, <1>2
  <2> QED  BY <1>1, <1>2, <2>1 DEF Weight
<1>3. CASE i = 1
  <2> DEFINE at(a) == CHOOSE k \in DOMAIN Letters : Letters[k] = a
  <2>1. \A a \in ToSet(Letters) : at(a) \in DOMAIN Letters /\ Letters[at(a)] = a
    BY DEF ToSet
  <2>2. \A k \in DOMAIN Letters : k \in Nat
    <3>1. Letters \in Seq(ToSet(Letters))  BY FileOpsAssumption
    <3>2. DOMAIN Letters = 1..Len(Letters) /\ Len(Letters) \in Nat  BY <3>1, LenProperties
    <3> QED  BY <3>2
  <2>3. Weight(m, i) = at(m[1]) /\ Weight(n, i) = at(n[1])  BY <1>3 DEF Weight
  <2> HIDE DEF at
  <2> QED  BY <1>1, <1>3, <2>1, <2>2, <2>3
<1> QED  BY <1>2, <1>3

\* No name comes before itself.
LEMMA NameNotBeforeItself ==
  ASSUME NEW n \in Shown PROVE ~NameBefore(n, n)
<1> SUFFICES ASSUME NEW i \in 1..Len(n), Weight(n, i) < Weight(n, i) PROVE FALSE
  BY NameFacts DEF NameBefore
<1>1. Weight(n, i) \in Nat  BY NameFacts, WeightFacts
<1> QED  BY <1>1

\* Of two names one comes before the other.
LEMMA NamesCompare ==
  ASSUME NEW m \in Shown, NEW n \in Shown
  PROVE  m = n \/ NameBefore(m, n) \/ NameBefore(n, m)
<1> SUFFICES ASSUME m # n PROVE NameBefore(m, n) \/ NameBefore(n, m)  OBVIOUS
<1>1. Len(m) \in Nat \ {0} /\ Len(n) \in Nat \ {0}  BY NameFacts
<1> DEFINE T == {i \in Nat \ {0} : \/ i > Len(m) /\ i <= Len(n)
                                   \/ i > Len(n) /\ i <= Len(m)
                                   \/ i <= Len(m) /\ i <= Len(n) /\ m[i] # n[i]}
<1>2. T \in SUBSET Nat  OBVIOUS
<1>3. T # {}
  <2>1. CASE Len(m) = Len(n)
    <3>1. \E i \in 1..Len(m) : m[i] # n[i]  BY <2>1, NameFacts, SeqEqual
    <3> QED  BY <1>1, <2>1, <3>1
  <2>2. CASE Len(m) < Len(n)
    <3>1. Len(n) \in T  BY <1>1, <2>2
    <3> QED  BY <3>1
  <2>3. CASE Len(n) < Len(m)
    <3>1. Len(m) \in T  BY <1>1, <2>3
    <3> QED  BY <3>1
  <2> QED  BY <1>1, <2>1, <2>2, <2>3
<1>4. PICK i \in T : \A j \in T : i <= j
  <2> HIDE DEF T
  <2> QED  BY <1>2, <1>3, Least
<1>5. i \in Nat \ {0}  BY <1>4
<1>6. ASSUME NEW j \in 1..(i - 1) PROVE j <= Len(m) /\ j <= Len(n) /\ m[j] = n[j]
  <2>1. j \in Nat \ {0} /\ j < i  BY <1>5
  <2>2. j \notin T  BY <1>4, <1>5, <2>1
  <2>3. /\ ~(j > Len(m) /\ j <= Len(n)) /\ ~(j > Len(n) /\ j <= Len(m))
        /\ ~(j <= Len(m) /\ j <= Len(n) /\ m[j] # n[j])
    BY <2>1, <2>2
  <2>4. j <= Len(m) \/ j <= Len(n)
    <3>1. i <= Len(m) \/ i <= Len(n)  BY <1>4
    <3> QED  BY <1>1, <1>5, <2>1, <3>1
  <2> QED  BY <1>1, <2>1, <2>3, <2>4
<1>7. CASE i > Len(m) /\ i <= Len(n)
  <2>1. i \in 1..Len(n)  BY <1>1, <1>5, <1>7
  <2> QED  BY <1>6, <1>7, <2>1 DEF NameBefore
<1>8. CASE i > Len(n) /\ i <= Len(m)
  <2>1. i \in 1..Len(m)  BY <1>1, <1>5, <1>8
  <2> QED  BY <1>6, <1>8, <2>1 DEF NameBefore
<1>9. CASE i <= Len(m) /\ i <= Len(n) /\ m[i] # n[i]
  <2>1. Weight(m, i) < Weight(n, i) \/ Weight(n, i) < Weight(m, i)
    BY <1>5, <1>9, WeightFacts
  <2>2. i \in 1..Len(n) /\ i \in 1..Len(m)  BY <1>1, <1>5, <1>9
  <2> QED  BY <1>6, <2>1, <2>2 DEF NameBefore
<1> QED  BY <1>4, <1>7, <1>8, <1>9

\* What comes before what comes before n comes before n.
LEMMA NamesInLine ==
  ASSUME NEW m \in Shown, NEW n \in Shown, NEW o \in Shown, NameBefore(m, n), NameBefore(n, o)
  PROVE  NameBefore(m, o)
<1>1. Len(m) \in Nat \ {0} /\ Len(n) \in Nat \ {0} /\ Len(o) \in Nat \ {0}  BY NameFacts
<1>2. PICK i \in 1..Len(n) :
        /\ \A k \in 1..(i - 1) : k <= Len(m) /\ m[k] = n[k]
        /\ i > Len(m) \/ Weight(m, i) < Weight(n, i)
  BY DEF NameBefore
<1>3. PICK j \in 1..Len(o) :
        /\ \A k \in 1..(j - 1) : k <= Len(n) /\ n[k] = o[k]
        /\ j > Len(n) \/ Weight(n, j) < Weight(o, j)
  BY DEF NameBefore
<1>4. CASE j < i
  <2>1. \A k \in 1..(j - 1) : k <= Len(m) /\ m[k] = o[k]  BY <1>1, <1>2, <1>3, <1>4
  <2>2. j \in 1..(i - 1) /\ j \in Nat \ {0}  BY <1>1, <1>4
  <2>3. j <= Len(m) /\ m[j] = n[j] /\ j <= Len(n)  BY <1>1, <1>2, <1>4, <2>2
  <2>4. Weight(m, j) = Weight(n, j)  BY <2>2, <2>3, WeightFacts
  <2>5. Weight(n, j) < Weight(o, j)  BY <1>1, <1>3, <2>3
  <2> QED  BY <2>1, <2>4, <2>5 DEF NameBefore
<1>5. CASE i < j
  <2>1. \A k \in 1..(i - 1) : k <= Len(m) /\ m[k] = o[k]  BY <1>1, <1>2, <1>3, <1>5
  <2>2. i \in 1..(j - 1) /\ i \in Nat \ {0} /\ i \in 1..Len(o)  BY <1>1, <1>5
  <2>3. n[i] = o[i] /\ i <= Len(n) /\ i <= Len(o)  BY <1>1, <1>3, <2>2
  <2>4. Weight(n, i) = Weight(o, i)  BY <2>2, <2>3, WeightFacts
  <2> QED  BY <1>2, <2>1, <2>2, <2>4 DEF NameBefore
<1>6. CASE i = j
  <2>1. \A k \in 1..(i - 1) : k <= Len(m) /\ m[k] = o[k]  BY <1>1, <1>2, <1>3, <1>6
  <2>2. Weight(n, i) < Weight(o, i) /\ i <= Len(n) /\ i <= Len(o) /\ i \in Nat \ {0}
    BY <1>1, <1>3, <1>6
  <2>3. i > Len(m) \/ Weight(m, i) < Weight(o, i)
    <3>1. CASE i <= Len(m)
      <4>1. Weight(m, i) \in Nat /\ Weight(n, i) \in Nat /\ Weight(o, i) \in Nat
        BY <2>2, <3>1, WeightFacts
      <4> QED  BY <1>1, <1>2, <2>2, <3>1, <4>1
    <3> QED  BY <1>1, <2>2, <3>1
  <2> QED  BY <1>6, <2>1, <2>3 DEF NameBefore
<1> QED  BY <1>1, <1>4, <1>5, <1>6

\* What files_load_directory reads.
ShownEntry == [name : Shown, dir : BOOLEAN]

\* entry_cmp puts any entries in one order.
LEMMA EntriesInLine ==
  /\ \A a \in ShownEntry : ~EntryBefore(a, a)
  /\ \A a, b, c \in ShownEntry : EntryBefore(a, b) /\ EntryBefore(b, c) => EntryBefore(a, c)
  /\ \A a, b \in ShownEntry : a = b \/ EntryBefore(a, b) \/ EntryBefore(b, a)
<1>0. \A a \in ShownEntry : a.name \in Shown /\ a.dir \in BOOLEAN  BY DEF ShownEntry
<1>1. \A a \in ShownEntry : ~EntryBefore(a, a)
  BY <1>0, NameNotBeforeItself DEF EntryBefore
<1>2. ASSUME NEW a \in ShownEntry, NEW b \in ShownEntry, NEW c \in ShownEntry,
             EntryBefore(a, b), EntryBefore(b, c)
      PROVE  EntryBefore(a, c)
  <2>1. CASE a.dir = b.dir /\ b.dir = c.dir
    <3>1. NameBefore(a.name, b.name) /\ NameBefore(b.name, c.name)
      BY <1>2, <2>1 DEF EntryBefore
    <3>2. NameBefore(a.name, c.name)  BY <1>0, <3>1, NamesInLine
    <3> QED  BY <2>1, <3>2 DEF EntryBefore
  <2>2. CASE ~(a.dir = b.dir /\ b.dir = c.dir)
    BY <1>0, <1>2, <2>2 DEF EntryBefore
  <2> QED  BY <2>1, <2>2
<1>3. ASSUME NEW a \in ShownEntry, NEW b \in ShownEntry
      PROVE  a = b \/ EntryBefore(a, b) \/ EntryBefore(b, a)
  <2>1. CASE a.dir = b.dir /\ a.name = b.name  BY <2>1 DEF ShownEntry
  <2>2. CASE a.dir = b.dir /\ a.name # b.name
    <3>1. NameBefore(a.name, b.name) \/ NameBefore(b.name, a.name)
      BY <1>0, <2>2, NamesCompare
    <3> QED  BY <2>2, <3>1 DEF EntryBefore
  <2>3. CASE a.dir # b.dir  BY <1>0, <2>3 DEF EntryBefore
  <2> QED  BY <2>1, <2>2, <2>3
<1> QED  BY <1>1, <1>2, <1>3

\* Sorting keeps the entries.
LEMMA SortedEntries ==
  ASSUME NEW S \in SUBSET ShownEntry, IsFiniteSet(S)
  PROVE  InOrder(S, EntryBefore) \in Seq(S)
<1> DEFINE n == Cardinality(S)
           below == [e \in S |-> {d \in S : EntryBefore(d, e)}]
<1>1. below \in [S -> SUBSET S] /\ \A e \in S : below[e] = {d \in S : EntryBefore(d, e)}
  OBVIOUS
<1>2. \A e \in S : e \notin below[e]  BY EntriesInLine
<1>3. \A d, e \in S : d \in below[e] => below[d] \subseteq below[e]
  BY EntriesInLine
<1>4. \A d, e \in S : d = e \/ d \in below[e] \/ e \in below[d]
  BY EntriesInLine
<1> HIDE DEF below
<1>5. \A i \in 1..n : \E e \in S : Cardinality(below[e]) = i - 1
  BY <1>1, <1>2, <1>3, <1>4, RankOnto
<1> DEFINE place(i) == CHOOSE e \in S : Cardinality({d \in S : EntryBefore(d, e)}) = i - 1
<1>6. ASSUME NEW i \in 1..n PROVE place(i) \in S
  <2>1. \E e \in S : Cardinality({d \in S : EntryBefore(d, e)}) = i - 1
    BY <1>1, <1>5, Zenon
  <2> QED  BY <2>1, Zenon
<1>7. InOrder(S, EntryBefore) = [i \in 1..n |-> place(i)]  BY Zenon DEF InOrder
<1>8. n \in Nat  BY FS_CardinalityType
<1> HIDE DEF place, n
<1>9. [i \in 1..n |-> place(i)] \in Seq(S)  BY <1>6, <1>8
<1> QED  BY <1>7, <1>9

\* A listing is a sequence of entries.
LEMMA ListingType ==
  ASSUME NEW f, FsOK(f), NEW p
  PROVE  Listing(f, p) \in Seq(Entry)
<1> DEFINE shown == {q \in Children(f, p) : Last(q)[1] \notin Hidden}
           read  == {[name |-> Last(q), dir |-> IsDir(f, q)] : q \in shown}
<1>1. SUFFICES ASSUME IsDir(f, p) PROVE InOrder(read, EntryBefore) \in Seq(Entry)
  BY EmptySeq DEF Listing
<1>2. p \in Seq(Name) /\ DOMAIN f \subseteq Seq(Name) /\ IsFiniteSet(DOMAIN f)
  BY <1>1 DEF IsDir, Exists, FsOK, Path
<1>3. ASSUME NEW q \in shown PROVE [name |-> Last(q), dir |-> IsDir(f, q)] \in ShownEntry
  <2>1. q \in Seq(Name) /\ Len(q) = Len(p) + 1  BY <1>2 DEF Children, Tree
  <2>2. q # <<>>
    <3>1. Len(p) \in Nat  BY <1>2, LenProperties
    <3> QED  BY <2>1, <3>1, EmptySeq
  <2>3. Last(q) \in Name  BY <2>1, <2>2, FrontLast
  <2>4. Last(q) \in Shown  BY <2>3 DEF Shown
  <2>5. IsDir(f, q) \in BOOLEAN  BY DEF IsDir, Exists
  <2> QED  BY <2>4, <2>5 DEF ShownEntry
<1>4. IsFiniteSet(read)
  <2>1. shown \in SUBSET DOMAIN f  BY DEF Children, Tree
  <2>2. IsFiniteSet(shown)  BY <1>2, <2>1, FS_Subset
  <2>3. [q \in shown |-> [name |-> Last(q), dir |-> IsDir(f, q)]] \in Surjection(shown, read)
    BY DEF Surjection
  <2> QED  BY <2>2, <2>3, FS_Surjection
<1>5. read \in SUBSET ShownEntry  BY <1>3
<1> HIDE DEF read
<1>6. InOrder(read, EntryBefore) \in Seq(read)  BY <1>4, <1>5, SortedEntries
<1>7. read \subseteq Entry  BY <1>5 DEF ShownEntry, Entry, Shown
<1> QED  BY <1>6, <1>7, SeqMonotonic

\* So is a selection of them, in their order.
LEMMA SortedPlaces ==
  ASSUME NEW S \in SUBSET Nat, IsFiniteSet(S)
  PROVE  InOrder(S, Above) \in Seq(S) /\ Len(InOrder(S, Above)) = Cardinality(S)
<1> DEFINE n == Cardinality(S)
           below == [e \in S |-> {d \in S : Above(d, e)}]
<1>1. below \in [S -> SUBSET S] /\ \A e \in S : below[e] = {d \in S : Above(d, e)}
  OBVIOUS
<1>2. \A e \in S : e \notin below[e]  BY DEF Above
<1>3. \A d, e \in S : d \in below[e] => below[d] \subseteq below[e]
  <2>1. \A x, d, e \in S : Above(x, d) /\ Above(d, e) => Above(x, e)  BY DEF Above
  <2> HIDE DEF below
  <2> QED  BY <1>1, <2>1
<1>4. \A d, e \in S : d = e \/ d \in below[e] \/ e \in below[d]  BY DEF Above
<1> HIDE DEF below
<1>5. \A i \in 1..n : \E e \in S : Cardinality(below[e]) = i - 1
  <2>1. below \in [S -> SUBSET S]  BY <1>1
  <2> QED  BY <1>2, <1>3, <1>4, <2>1, RankOnto
<1> DEFINE place(i) == CHOOSE e \in S : Cardinality({d \in S : Above(d, e)}) = i - 1
<1>6. ASSUME NEW i \in 1..n PROVE place(i) \in S
  <2>1. \E e \in S : Cardinality({d \in S : Above(d, e)}) = i - 1
    BY <1>1, <1>5, Zenon
  <2> QED  BY <2>1, Zenon
<1>7. InOrder(S, Above) = [i \in 1..n |-> place(i)]  BY Zenon DEF InOrder
<1>8. n \in Nat  BY FS_CardinalityType
<1> HIDE DEF place, n
<1>9. [i \in 1..n |-> place(i)] \in Seq(S) /\ Len([i \in 1..n |-> place(i)]) = n
  BY <1>6, <1>8
<1> QED  BY <1>7, <1>9 DEF n

\* A selection holds one entry at least and MAX_FILES at most.
LEMMA SelectionsType ==
  ASSUME entries \in Seq(Entry), NEW sel \in Selections
  PROVE  sel \in Seq(Entry) /\ Len(sel) \in 1..MaxFiles
<1>1. PICK I \in SUBSET DOMAIN entries :
        /\ Cardinality(I) \in 1..MaxFiles
        /\ sel = [i \in DOMAIN InOrder(I, Above) |-> entries[InOrder(I, Above)[i]]]
  BY DEF Selections
<1>2. DOMAIN entries = 1..Len(entries) /\ Len(entries) \in Nat
      /\ \A i \in 1..Len(entries) : entries[i] \in Entry
  BY LenProperties, ElementOfSeq
<1>3. I \in SUBSET Nat /\ IsFiniteSet(I)
  <2>1. IsFiniteSet(1..Len(entries)) /\ I \in SUBSET (1..Len(entries))  BY <1>2, FS_Interval
  <2> QED  BY <2>1, FS_Subset
<1> DEFINE at == InOrder(I, Above)
<1>4. at \in Seq(I) /\ Len(at) = Cardinality(I)  BY <1>3, SortedPlaces
<1> HIDE DEF at
<1>5. DOMAIN at = 1..Len(at) /\ Len(at) \in Nat /\ \A i \in 1..Len(at) : at[i] \in I
  BY <1>4, LenProperties, ElementOfSeq
<1>6. \A i \in 1..Len(at) : entries[at[i]] \in Entry  BY <1>1, <1>2, <1>5
<1>7. sel = [i \in 1..Len(at) |-> entries[at[i]]]  BY <1>1, <1>5 DEF at
<1>8. sel \in Seq(Entry) /\ Len(sel) = Len(at)  BY <1>5, <1>6, <1>7
<1> QED  BY <1>1, <1>4, <1>8

----------------------------------------------------------------------------
(* Paths as they are spelled.                                              *)

\* A path with single slashes is spelled as it is walked.
LEMMA PathIsWritten ==
  ASSUME NEW p \in Path
  PROVE  p \in Written /\ Resolve(p) = p /\ p \in Seq(Name \cup {NoName})
<1>1. p \in Seq(Name)  BY DEF Path
<1>2. p \in Seq(Name \cup {NoName})  BY <1>1, SeqMonotonic
<1>3. p # <<>> => Head(p) \in Name  BY <1>1, HeadTailProperties
<1>4. Resolve(p) = p  BY <1>3, NoNameIsNone DEF Resolve, Root
<1>5. p # <<NoName>>
  <2>1. Head(<<NoName>>) = NoName /\ <<NoName>> # <<>>  OBVIOUS
  <2> QED  BY <1>3, <2>1, NoNameIsNone
<1> QED  BY <1>2, <1>4, <1>5 DEF Written

\* A doubled slash changes neither the name nor what there is.
LEMMA WrittenFacts ==
  ASSUME NEW p \in Written
  PROVE  /\ p \in Seq(Name \cup {NoName}) /\ Resolve(p) \in Path
         /\ p # Root => Last(p) \in Name /\ Resolve(p) # Root
                        /\ Front(Resolve(p)) \in Path /\ Last(Resolve(p)) = Last(p)
<1>1. p \in Seq(Name \cup {NoName}) /\ Resolve(p) \in Path /\ p # <<NoName>>
  BY DEF Written
<1>2. ASSUME p # Root
      PROVE  /\ Last(p) \in Name /\ Resolve(p) # Root
             /\ Front(Resolve(p)) \in Path /\ Last(Resolve(p)) = Last(p)
  <2> DEFINE r == Resolve(p)
             n == Len(p)
  <2>0. p # <<>> /\ r \in Seq(Name)  BY <1>1, <1>2 DEF Root, Path
  <2>1. n \in Nat \ {0}  BY <1>1, <2>0, LenProperties, EmptySeq
  <2>2. r # <<>> /\ Last(r) = Last(p)
    <3>1. CASE Head(p) = NoName
      <4>1. r = Tail(p)  BY <1>2, <3>1 DEF Resolve
      <4>2. /\ Tail(p) \in Seq(Name \cup {NoName}) /\ Len(Tail(p)) = n - 1
            /\ \A i \in 1..(n - 1) : Tail(p)[i] = p[i + 1]
        BY <1>1, <2>0
      <4>3. n # 1
        <5> SUFFICES ASSUME n = 1 PROVE FALSE  OBVIOUS
        <5>1. p[1] = NoName  BY <2>0, <3>1
        <5>2. \A i \in 1..1 : p[i] = <<NoName>>[i]  BY <5>1
        <5>3. <<NoName>> \in Seq(Name \cup {NoName}) /\ Len(<<NoName>>) = 1  OBVIOUS
        <5>4. p = <<NoName>>  BY <1>1, <5>2, <5>3, SeqEqual
        <5> QED  BY <1>1, <5>4
      <4> HIDE DEF n
      <4>4. Len(r) = n - 1 /\ n - 1 \in Nat \ {0} /\ r[n - 1] = p[n]
        <5>1. n - 1 \in 1..(n - 1) /\ (n - 1) + 1 = n  BY <2>1, <4>3
        <5>2. Tail(p)[n - 1] = p[(n - 1) + 1]  BY <4>2, <5>1
        <5> QED  BY <2>1, <4>1, <4>2, <4>3, <5>1, <5>2
      <4>5. r # <<>>
        <5> HIDE DEF r
        <5> QED  BY <4>4, EmptySeq
      <4>6. Last(r) = r[n - 1]
        <5> HIDE DEF r
        <5> QED  BY <2>0, <4>4, <4>5, FrontLast
      <4>7. Last(p) = p[n]  BY <1>1, <2>0, FrontLast DEF n
      <4> QED  BY <4>4, <4>5, <4>6, <4>7
    <3>2. CASE Head(p) # NoName
      <4>1. r = p  BY <3>2 DEF Resolve
      <4> QED  BY <2>0, <4>1
    <3> QED  BY <3>1, <3>2
  <2> HIDE DEF r
  <2>3. Last(r) \in Name /\ Front(r) \in Seq(Name)  BY <2>0, <2>2, FrontLast
  <2> QED  BY <2>2, <2>3 DEF Path, Root, r
<1> QED  BY <1>1, <1>2

\* A name below a path however it is spelled.
LEMMA WrittenIn ==
  ASSUME NEW p \in Written, NEW n \in Name
  PROVE  /\ Append(p, n) \in Written \ {Root}
         /\ Front(Append(p, n)) = p /\ Last(Append(p, n)) = n
         /\ Resolve(Append(p, n)) = Append(Resolve(p), n)
<1> DEFINE q == Append(p, n)
           S == Name \cup {NoName}
<1>1. p \in Seq(S) /\ Resolve(p) \in Seq(Name) /\ n \in S  BY WrittenFacts DEF Path
<1>2. q \in Seq(S) /\ q # <<>> /\ Front(q) = p /\ Last(q) = n
  <2> HIDE DEF S
  <2> QED  BY <1>1, AppendFacts
<1>3. q # <<NoName>>
  <2>1. Last(<<NoName>>) = NoName  BY DEF Last
  <2> QED  BY <1>2, <2>1, NoNameIsNone
<1>4. Resolve(q) = Append(Resolve(p), n)
  <2>1. CASE p = <<>>
    <3>1. Head(q) = n  BY <2>1
    <3> QED  BY <2>1, <3>1, NoNameIsNone DEF Resolve, Root
  <2>2. CASE p # <<>>
    <3>1. Head(q) = Head(p) /\ Tail(q) = Append(Tail(p), n)  BY <1>1, <2>2
    <3> QED  BY <1>2, <2>2, <3>1 DEF Resolve, Root
  <2> QED  BY <2>1, <2>2
<1>5. Append(Resolve(p), n) \in Path  BY <1>1 DEF Path
<1> HIDE DEF q
<1> QED  BY <1>2, <1>3, <1>4, <1>5 DEF Written, Root, q

\* A name below a path.
LEMMA PathIn ==
  ASSUME NEW p \in Path, NEW n \in Name
  PROVE  /\ Append(p, n) \in Path \ {Root} /\ Front(Append(p, n)) = p
         /\ Last(Append(p, n)) = n
BY AppendFacts DEF Path, Root

\* path_join names the entry, at the root as well.
LEMMA JoinFacts ==
  ASSUME NEW p \in Path, NEW n \in Name
  PROVE  /\ Join(p, n) \in Written \ {Root} /\ Last(Join(p, n)) = n
         /\ Resolve(Join(p, n)) = Append(p, n)
<1>1. CASE p = Root
  <2>1. Join(p, n) = <<NoName, n>> /\ Append(p, n) = <<n>>  BY <1>1 DEF Join, Root
  <2>2. /\ <<NoName, n>> \in Seq(Name \cup {NoName}) /\ <<NoName, n>> # <<NoName>>
        /\ <<NoName, n>> # <<>> /\ Head(<<NoName, n>>) = NoName
        /\ Tail(<<NoName, n>>) = <<n>>
    OBVIOUS
  <2>3. Resolve(<<NoName, n>>) = <<n>>  BY <2>2 DEF Resolve, Root
  <2>4. <<n>> \in Path  BY DEF Path
  <2>5. Last(<<NoName, n>>) = n  BY DEF Last
  <2> QED  BY <2>1, <2>2, <2>3, <2>4, <2>5 DEF Written, Root
<1>2. CASE p # Root
  <2>1. Join(p, n) = Append(p, n)  BY <1>2 DEF Join
  <2>2. p \in Written /\ Resolve(p) = p  BY PathIsWritten
  <2> QED  BY <2>1, <2>2, WrittenIn
<1> QED  BY <1>1, <1>2

\* The root has a spelling.
LEMMA RootIsWritten == Root \in Written /\ <<>> \in Written
<1>1. <<>> \in Path  BY EmptySeq DEF Path
<1> QED  BY <1>1, PathIsWritten DEF Root

----------------------------------------------------------------------------
(* What the operations do to the files and what they record.               *)

\* Every file system.
FileSystems == {f \in UNION {[S -> Content] : S \in SUBSET Path} : FsOK(f)}

\* FileSystems holds them all.
LEMMA IsFileSystem ==
  ASSUME NEW f PROVE f \in FileSystems <=> FsOK(f)
<1> SUFFICES ASSUME FsOK(f) PROVE f \in UNION {[S -> Content] : S \in SUBSET Path}
  BY DEF FileSystems
<1>1. f \in [DOMAIN f -> Content] /\ DOMAIN f \in SUBSET Path  BY DEF FsOK
<1> QED  BY <1>1

\* What TypeOK says, with FsOK for the files.
LEMMA TypeFacts ==
  ASSUME TypeOK
  PROVE  /\ FsOK(fs) /\ cwd \in Path /\ cwd \in Written /\ entries \in Seq(Entry)
         /\ move_reg \in Seq(Written \ {Root}) /\ Len(move_reg) <= RegisterMax
         /\ time \in Nat /\ commands \in Nat /\ foreign \in Nat /\ H!TypeOK
BY PathIsWritten DEF TypeOK, FsOK

\* What is recorded has its type.
LEMMA ItemType ==
  ASSUME NEW dir \in Written, NEW old \in Name, NEW new \in Name \cup {NoName},
         NEW trash \in Written
  PROVE  Item(dir, old, new, trash) \in Items
BY DEF Item, Items

\* Only a rename has a new name.
LEMMA NoNewName == <<>> \in Name \cup {NoName}
BY DEF NoName

\* What a round of trashing or deleting leaves.
Rounds2 == [fs : FileSystems, items : Seq(Items)]

\* One entry trashed: the files stay a tree, one operation more.
LEMMA TrashOneOK ==
  ASSUME TypeOK, NEW w \in Rounds2, NEW e \in Entry
  PROVE  TrashOne(w, e) \in Rounds2 /\ Len(TrashOne(w, e).items) = Len(w.items) + 1
<1> DEFINE src  == Append(cwd, e.name)
           f    == MkdirP(w.fs, TrashDir)
           free == Append(TrashDir, e.name)
           dest == IF Exists(f, free) THEN Append(TrashDir, Stamped(e.name)) ELSE free
           item == Item(cwd, e.name, <<>>, dest)
<1>1. w.fs \in FileSystems /\ w.items \in Seq(Items) /\ e.name \in Name /\ cwd \in Path
      /\ time \in Nat /\ TrashDir \in Path
  BY TypeFacts, FileOpsAssumption DEF Rounds2, Entry
<1>2. FsOK(f)  BY <1>1, IsFileSystem, MkdirPOK
<1>3. Stamped(e.name) \in Name
  <2> DEFINE n == e.name
             S == ToSet(Letters) \cup Hidden \cup Nat
  <2>1. n \in Seq(S) /\ n # <<>> /\ n[1] \in ToSet(Letters) \cup Hidden
        /\ \A i \in 2..Len(n) : n[i] \in Nat /\ time \in S
    BY <1>1 DEF Name, NoName
  <2>2. Len(n) \in Nat \ {0}  BY <2>1, LenProperties, EmptySeq
  <2> HIDE DEF n, S
  <2>3. time \in S  BY <1>1 DEF S
  <2>4. /\ Append(n, time) \in Seq(S) /\ Append(n, time) # <<>>
        /\ Len(Append(n, time)) = Len(n) + 1
        /\ \A i \in 1..Len(n) : Append(n, time)[i] = n[i]
        /\ Append(n, time)[Len(n) + 1] = time
    BY <2>1, <2>3, AppendProperties
  <2> DEFINE m == Append(n, time)
  <2> HIDE DEF m
  <2>5. m[1] = n[1] /\ \A i \in 2..Len(m) : m[i] \in Nat  BY <1>1, <2>1, <2>2, <2>4 DEF m
  <2>6. m \in Name  BY <2>1, <2>4, <2>5 DEF Name, NoName, S, m
  <2> QED  BY <2>6 DEF Stamped, m, n
<1>4. dest \in Path /\ dest # Root /\ Last(dest) \in Name
  BY <1>1, <1>3, PathIn
<1>5. src \in Path  BY <1>1, PathIn
<1>6. src \in Seq(Name \cup {NoName}) /\ dest \in Seq(Name \cup {NoName})
      /\ dest \in Written /\ cwd \in Written
  BY <1>1, <1>4, <1>5, PathIsWritten
<1> HIDE DEF src, f, dest
<1>7. FsOK(Mv(f, src, dest))  BY <1>2, <1>4, <1>6, MvOK
<1>8. item \in Items  BY <1>1, <1>6, ItemType, NoNewName
<1>9. TrashOne(w, e) = [fs |-> Mv(f, src, dest), items |-> Append(w.items, item)]
  BY DEF TrashOne, src, f, dest
<1> HIDE DEF item
<1>10. Append(w.items, item) \in Seq(Items) /\ Len(Append(w.items, item)) = Len(w.items) + 1
  BY <1>1, <1>8, AppendProperties
<1> QED  BY <1>7, <1>9, <1>10, IsFileSystem DEF Rounds2

\* One entry deleted, likewise.
LEMMA DeleteOneOK ==
  ASSUME TypeOK, NEW w \in Rounds2, NEW e \in Entry
  PROVE  DeleteOne(w, e) \in Rounds2 /\ Len(DeleteOne(w, e).items) = Len(w.items) + 1
<1> DEFINE p == Append(cwd, e.name)
           g == IF e.dir THEN RemoveTree(w.fs, p) ELSE RemoveFile(w.fs, p)
           item == Item(cwd, e.name, <<>>, <<>>)
<1>1. w.fs \in FileSystems /\ w.items \in Seq(Items) /\ e.name \in Name
      /\ cwd \in Path /\ cwd \in Written
  BY TypeFacts DEF Rounds2, Entry
<1>2. p \in Path /\ p # Root  BY <1>1, PathIn
<1> HIDE DEF p
<1>3. FsOK(g)  BY <1>1, <1>2, IsFileSystem, RemoveTreeOK, RemoveFileOK
<1>4. item \in Items  BY <1>1, ItemType, NoNewName, RootIsWritten
<1>5. DeleteOne(w, e) = [fs |-> g, items |-> Append(w.items, item)]
  BY DEF DeleteOne, p
<1> HIDE DEF item, g
<1>6. Append(w.items, item) \in Seq(Items) /\ Len(Append(w.items, item)) = Len(w.items) + 1
  BY <1>1, <1>4, AppendProperties
<1> QED  BY <1>3, <1>5, <1>6, IsFileSystem DEF Rounds2

\* What a round of a paste leaves.
PasteRounds ==
  [dest : Written, fs : FileSystems, kept : Seq(Written \ {Root}), items : Seq(Items)]

\* One path pasted: dropped, kept, or moved and recorded.
LEMMA PasteOneOK ==
  ASSUME NEW w \in PasteRounds, NEW src \in Written \ {Root}
  PROVE  LET v == PasteOne(w, src) IN
         /\ v \in PasteRounds /\ v.dest = w.dest
         /\ \/ v = w
            \/ v.fs = w.fs /\ v.items = w.items /\ v.kept = Append(w.kept, src)
            \/ /\ v.kept = w.kept
               /\ v.items = Append(w.items, Item(w.dest, Last(src), <<>>, src))
         /\ Len(v.items) <= Len(w.items) + 1 /\ Len(v.kept) <= Len(w.kept) + 1
<1> DEFINE dst == Append(w.dest, Last(src))
           item == Item(w.dest, Last(src), <<>>, src)
           v == PasteOne(w, src)
           same == src = dst
           stays == \/ IsPrefix(src, w.dest)
                    \/ Exists(w.fs, Resolve(dst))
                    \/ ~CanRename(w.fs, Resolve(src), Resolve(dst))
           kept2 == Append(w.kept, src)
           items2 == Append(w.items, item)
           fs2 == Renamed(w.fs, Resolve(src), Resolve(dst))
<1>1. /\ w.dest \in Written /\ w.fs \in FileSystems /\ w.kept \in Seq(Written \ {Root})
      /\ w.items \in Seq(Items)
      /\ w = [dest |-> w.dest, fs |-> w.fs, kept |-> w.kept, items |-> w.items]
  BY DEF PasteRounds
<1>2. Last(src) \in Name /\ src \in Written  BY WrittenFacts
<1>3. dst \in Written /\ Resolve(dst) \in Path /\ Resolve(src) \in Path
  BY <1>1, <1>2, WrittenIn, WrittenFacts
<1>4. item \in Items  BY <1>1, <1>2, ItemType, NoNewName
<1>5. /\ kept2 \in Seq(Written \ {Root}) /\ Len(kept2) = Len(w.kept) + 1
      /\ items2 \in Seq(Items) /\ Len(items2) = Len(w.items) + 1
      /\ Len(w.kept) \in Nat /\ Len(w.items) \in Nat
  <2> HIDE DEF item
  <2> QED  BY <1>1, <1>4, AppendProperties, LenProperties
<1>6. v = IF same THEN w
          ELSE IF stays THEN [w EXCEPT !.kept = kept2]
          ELSE [w EXCEPT !.fs = fs2, !.items = items2]
  BY DEF PasteOne
<1>7. ~same /\ ~stays => fs2 \in FileSystems
  BY <1>1, <1>3, IsFileSystem, RenamedOK
<1> HIDE DEF v, same, stays, kept2, items2, fs2
<1>8. CASE same  BY <1>1, <1>5, <1>6, <1>8 DEF v
<1>9. CASE ~same /\ stays
  <2>1. v = [dest |-> w.dest, fs |-> w.fs, kept |-> kept2, items |-> w.items]
    BY <1>1, <1>6, <1>9
  <2>2. v \in PasteRounds  BY <1>1, <1>5, <2>1 DEF PasteRounds
  <2> QED  BY <1>5, <2>1, <2>2 DEF v, kept2
<1>10. CASE ~same /\ ~stays
  <2>1. v = [dest |-> w.dest, fs |-> fs2, kept |-> w.kept, items |-> items2]
    BY <1>1, <1>6, <1>10
  <2>2. v \in PasteRounds  BY <1>1, <1>5, <1>7, <1>10, <2>1 DEF PasteRounds
  <2> QED  BY <1>5, <2>1, <2>2 DEF v, items2
<1> QED  BY <1>8, <1>9, <1>10

\* The switches of files_undo and files_redo leave a tree.
LEMMA OpFacts ==
  ASSUME NEW op \in NamedOp
  PROVE  LET i == op.item
             here == Append(i.cwd, i.old_name)
             there == Append(i.cwd, i.new_name) IN
         /\ op.type \in {"RENAME", "TRASH", "DELETE_PERM", "MOVE"}
         /\ i.trash_path \in Written /\ i.trash_path \in Seq(Name \cup {NoName})
         /\ here \in Seq(Name \cup {NoName}) /\ here # Root /\ Last(here) \in Name
         /\ Resolve(here) \in Path /\ Resolve(i.trash_path) \in Path
         /\ op.type = "RENAME" => /\ there \in Seq(Name \cup {NoName})
                                  /\ there # Root /\ Last(there) \in Name
<1> DEFINE i == op.item
<1>1. /\ i.cwd \in Written /\ i.old_name \in Name /\ i.trash_path \in Written
      /\ op.type \in {"RENAME", "TRASH", "DELETE_PERM", "MOVE"}
      /\ op.type = "RENAME" => i.new_name \in Name
  BY DEF NamedOp, H!Op, H!OpTypes, Items
<1> HIDE DEF i
<1>2. /\ i.trash_path \in Seq(Name \cup {NoName}) /\ Resolve(i.trash_path) \in Path
  BY <1>1, WrittenFacts
<1>3. LET here == Append(i.cwd, i.old_name) IN
      /\ here \in Written /\ here # Root /\ Last(here) \in Name
  BY <1>1, WrittenIn
<1>4. op.type = "RENAME" =>
        LET there == Append(i.cwd, i.new_name) IN
        there \in Written /\ there # Root /\ Last(there) \in Name
  BY <1>1, WrittenIn
<1> QED  BY <1>1, <1>2, <1>3, <1>4, WrittenFacts DEF i

\* The switch of files_undo.
LEMMA RevertOK ==
  ASSUME NEW f \in FileSystems, NEW op \in NamedOp
  PROVE  Revert(f, op) \in FileSystems
<1> DEFINE i == op.item
           here == Append(i.cwd, i.old_name)
           there == Append(i.cwd, i.new_name)
<1>1. /\ op.type \in {"RENAME", "TRASH", "DELETE_PERM", "MOVE"}
      /\ i.trash_path \in Written /\ i.trash_path \in Seq(Name \cup {NoName})
      /\ here \in Seq(Name \cup {NoName}) /\ here # Root /\ Last(here) \in Name
      /\ Resolve(here) \in Path /\ Resolve(i.trash_path) \in Path
      /\ op.type = "RENAME" => /\ there \in Seq(Name \cup {NoName})
                               /\ there # Root /\ Last(there) \in Name
  BY OpFacts
<1>2. FsOK(f)  BY IsFileSystem
<1>3. CASE op.type = "RENAME"
  <2>1. Revert(f, op) = Rename(f, there, here)  BY <1>3 DEF Revert
  <2> HIDE DEF here, there
  <2>2. FsOK(Rename(f, there, here))  BY <1>1, <1>2, RenameOK
  <2> QED  BY <2>1, <2>2, IsFileSystem
<1>4. CASE op.type = "TRASH"
  <2>1. Revert(f, op) = Mv(f, i.trash_path, here)  BY <1>4 DEF Revert
  <2> HIDE DEF here, i
  <2>2. FsOK(Mv(f, i.trash_path, here))  BY <1>1, <1>2, MvOK
  <2> QED  BY <2>1, <2>2, IsFileSystem
<1>5. CASE op.type = "DELETE_PERM"
  <2>1. Revert(f, op) = f  BY <1>5 DEF Revert
  <2> QED  BY <2>1
<1>6. CASE op.type = "MOVE"
  <2>1. Revert(f, op) = Rename(f, Resolve(here), Resolve(i.trash_path))  BY <1>6 DEF Revert
  <2>2. Resolve(i.trash_path) \in Seq(Name \cup {NoName})  BY <1>1, PathIsWritten
  <2>3. Resolve(i.trash_path) # Root => Last(Resolve(i.trash_path)) \in Name
    BY <1>1, FrontLast DEF Path, Root
  <2> HIDE DEF here, i
  <2>4. FsOK(Rename(f, Resolve(here), Resolve(i.trash_path)))  BY <1>2, <2>2, <2>3, RenameOK
  <2> QED  BY <2>1, <2>4, IsFileSystem
<1> QED  BY <1>1, <1>3, <1>4, <1>5, <1>6

\* The switch of files_redo.
LEMMA ReapplyOK ==
  ASSUME NEW f \in FileSystems, NEW op \in NamedOp
  PROVE  Reapply(f, op) \in FileSystems
<1> DEFINE i == op.item
           here == Append(i.cwd, i.old_name)
           there == Append(i.cwd, i.new_name)
<1>1. /\ op.type \in {"RENAME", "TRASH", "DELETE_PERM", "MOVE"}
      /\ here \in Seq(Name \cup {NoName}) /\ here # Root /\ Last(here) \in Name
      /\ Resolve(here) \in Path /\ Resolve(i.trash_path) \in Path
      /\ op.type = "RENAME" => /\ there \in Seq(Name \cup {NoName})
                               /\ there # Root /\ Last(there) \in Name
  BY OpFacts
<1>2. FsOK(f)  BY IsFileSystem
<1>3. CASE op.type = "RENAME"
  <2>1. Reapply(f, op) = Rename(f, here, there)  BY <1>3 DEF Reapply
  <2> HIDE DEF here, there
  <2>2. FsOK(Rename(f, here, there))  BY <1>1, <1>2, <1>3, RenameOK
  <2> QED  BY <2>1, <2>2, IsFileSystem
<1>4. CASE op.type \in {"TRASH", "DELETE_PERM"}
  <2>1. Reapply(f, op) = f  BY <1>4 DEF Reapply
  <2> QED  BY <2>1
<1>5. CASE op.type = "MOVE"
  <2>1. Reapply(f, op) = Rename(f, Resolve(i.trash_path), Resolve(here))
    BY <1>5 DEF Reapply
  <2>2. Resolve(here) \in Seq(Name \cup {NoName})  BY <1>1, PathIsWritten
  <2>3. Resolve(here) # Root => Last(Resolve(here)) \in Name
    BY <1>1, FrontLast DEF Path, Root
  <2> HIDE DEF here, i
  <2>4. FsOK(Rename(f, Resolve(i.trash_path), Resolve(here)))  BY <1>2, <2>2, <2>3, RenameOK
  <2> QED  BY <2>1, <2>4, IsFileSystem
<1> QED  BY <1>1, <1>3, <1>4, <1>5

----------------------------------------------------------------------------
(* Sequences: what is taken out of them and put at their end.              *)

\* A part of a sequence holds what the sequence holds.
LEMMA SubSeqIn ==
  ASSUME NEW S, NEW s \in Seq(S), NEW a \in Nat \ {0}, NEW b \in Nat, b <= Len(s)
  PROVE  SubSeq(s, a, b) \in Seq(S)
<1>1. Len(s) \in Nat /\ \A i \in 1..Len(s) : s[i] \in S  BY LenProperties, ElementOfSeq
<1>2. a \in Int /\ b \in Int /\ \A i \in a..b : s[i] \in S  BY <1>1
<1> QED  BY <1>2, SubSeqProperties

\* What is more than the stack holds.
LEMMA OverflowIs ==
  ASSUME NEW n \in Nat
  PROVE  H!Overflow(n) \in 0..n /\ n - H!Overflow(n) <= UndoMax
BY FileOpsAssumption DEF H!Overflow

\* Nothing comes to a stack but what was pushed.
LEMMA StackOps ==
  ASSUME NEW S, NEW stack \in Seq(S), NEW ops \in Seq(S)
  PROVE  /\ H!Pushed(stack, ops) \in Seq(S) /\ H!Capped(stack) \in Seq(S)
         /\ H!Reverse(stack) \in Seq(S)
         /\ \A k \in 1..Len(stack) :
              H!Without(stack, k) \in Seq(S) /\ H!Top(stack, k) \in Seq(S)
<1>1. Len(stack) \in Nat /\ Len(ops) \in Nat /\ \A i \in 1..Len(stack) : stack[i] \in S
  BY LenProperties, ElementOfSeq
<1>2. H!Pushed(stack, ops) \in Seq(S)
  <2> DEFINE all == stack \o ops
             n == Len(stack) + Len(ops)
  <2>1. all \in Seq(S) /\ Len(all) = n /\ n \in Nat  BY <1>1, ConcatProperties
  <2> HIDE DEF all, n
  <2>2. H!Overflow(n) + 1 \in Nat \ {0}
    <3>1. n \in Nat  BY <2>1
    <3>2. H!Overflow(n) \in 0..n  BY <3>1, OverflowIs
    <3> DEFINE o == H!Overflow(n)
    <3> HIDE DEF o
    <3>3. o \in 0..n  BY <3>2 DEF o
    <3>4. o + 1 \in Nat \ {0}  BY <3>1, <3>3
    <3> QED  BY <3>4 DEF o
  <2>3. SubSeq(all, H!Overflow(n) + 1, n) \in Seq(S)  BY <2>1, <2>2, SubSeqIn
  <2> QED  BY <2>3 DEF H!Pushed, all, n
<1>3. H!Capped(stack) \in Seq(S)
  <2>1. 1 \in Nat \ {0} /\ Len(stack) - H!Overflow(Len(stack)) \in Nat
        /\ Len(stack) - H!Overflow(Len(stack)) <= Len(stack)
    <3> DEFINE n == Len(stack)
               o == H!Overflow(n)
    <3>1. n \in Nat  BY <1>1
    <3> HIDE DEF n
    <3>2. o \in 0..n  BY <3>1, OverflowIs
    <3> HIDE DEF o
    <3>3. 1 \in Nat \ {0} /\ n - o \in Nat /\ n - o <= n  BY <3>1, <3>2
    <3> QED  BY <3>3 DEF n, o
  <2> DEFINE m == Len(stack) - H!Overflow(Len(stack))
  <2> HIDE DEF m
  <2>2. SubSeq(stack, 1, m) \in Seq(S)  BY <2>1, SubSeqIn DEF m
  <2> QED  BY <2>2 DEF H!Capped, m
<1>4. H!Reverse(stack) \in Seq(S)
  <2>1. \A i \in 1..Len(stack) : (Len(stack) - i) + 1 \in 1..Len(stack)  BY <1>1
  <2>2. [i \in 1..Len(stack) |-> stack[(Len(stack) - i) + 1]] \in [1..Len(stack) -> S]
    BY <1>1, <2>1
  <2> QED  BY <1>1, <2>2, IsASeq DEF H!Reverse
<1>5. ASSUME NEW k \in 1..Len(stack)
      PROVE  H!Without(stack, k) \in Seq(S) /\ H!Top(stack, k) \in Seq(S)
  <2>1. /\ 1 \in Nat \ {0} /\ Len(stack) - k \in Nat /\ Len(stack) - k <= Len(stack)
        /\ Len(stack) - k + 1 \in Nat \ {0} /\ Len(stack) <= Len(stack)
    BY <1>1
  <2> DEFINE m == Len(stack) - k
             a == Len(stack) - k + 1
             n == Len(stack)
  <2>2. n \in Nat  BY <1>1
  <2> HIDE DEF m, a, n
  <2>3. SubSeq(stack, 1, m) \in Seq(S)  BY <2>1, SubSeqIn DEF m
  <2>4. SubSeq(stack, a, n) \in Seq(S)  BY <2>1, <2>2, SubSeqIn DEF a, n
  <2> QED  BY <2>3, <2>4 DEF H!Without, H!Top, m, a, n
<1> QED  BY <1>2, <1>3, <1>4, <1>5

\* What is in a sequence.
LEMMA InSet ==
  ASSUME NEW S, NEW s \in Seq(S)
  PROVE  ToSet(s) = {s[i] : i \in 1..Len(s)} /\ ToSet(s) \subseteq S
BY LenProperties, ElementOfSeq DEF ToSet

\* A sequence without duplicates gets no duplicate by a new element.
LEMMA AppendNew ==
  ASSUME NEW S, NEW s \in Seq(S), NEW e \in S
  PROVE  /\ ToSet(Append(s, e)) = ToSet(s) \cup {e}
         /\ IsInjective(s) /\ e \notin ToSet(s) => IsInjective(Append(s, e))
<1> DEFINE t == Append(s, e)
           n == Len(s)
<1>1. /\ t \in Seq(S) /\ Len(t) = n + 1 /\ \A i \in 1..n : t[i] = s[i]
      /\ t[n + 1] = e /\ n \in Nat
  BY AppendProperties, LenProperties
<1> HIDE DEF t, n
<1>2. ToSet(s) = {s[i] : i \in 1..n} /\ ToSet(t) = {t[i] : i \in 1..(n + 1)}
      /\ DOMAIN t = 1..(n + 1) /\ DOMAIN s = 1..n
  BY <1>1, InSet, LenProperties DEF n
<1>3. 1..(n + 1) = 1..n \cup {n + 1}  BY <1>1
<1>4. ToSet(t) = ToSet(s) \cup {e}  BY <1>1, <1>2, <1>3
<1>5. ASSUME IsInjective(s), e \notin ToSet(s) PROVE IsInjective(t)
  <2>1. \A i, j \in 1..n : s[i] = s[j] => i = j  BY <1>2, <1>5 DEF IsInjective
  <2>2. \A i \in 1..n : s[i] # e  BY <1>2, <1>5
  <2>3. \A i, j \in 1..(n + 1) : t[i] = t[j] => i = j  BY <1>1, <1>3, <2>1, <2>2
  <2> QED  BY <1>2, <2>3 DEF IsInjective
<1> QED  BY <1>4, <1>5 DEF t

\* What files_move_mark takes out leaves the others, once each.
LEMMA TakeOut ==
  ASSUME NEW S, NEW s \in Seq(S), IsInjective(s), NEW e \in ToSet(s)
  PROVE  /\ RemoveFirst(s, e) \in Seq(S) /\ IsInjective(RemoveFirst(s, e))
         /\ Len(RemoveFirst(s, e)) <= Len(s)
<1> DEFINE n == Len(s)
           T == {j \in 1..n : s[j] = e}
           i == Min(T)
           t == RemoveAt(s, i)
<1>1. n \in Nat /\ DOMAIN s = 1..n /\ \A j \in 1..n : s[j] \in S
  BY LenProperties, ElementOfSeq
<1>2. \E j \in 1..n : s[j] = e  BY <1>1 DEF ToSet
<1>3. RemoveFirst(s, e) = t  BY <1>2, Zenon DEF RemoveFirst, SelectInSeq
<1> HIDE DEF n
<1>4. i \in 1..n
  <2>1. PICK m \in T : \A l \in T : m <= l
    <3>1. T \in SUBSET Nat /\ T # {}  BY <1>1, <1>2
    <3> HIDE DEF T
    <3> QED  BY <3>1, Least
  <2>2. \E x \in T : \A y \in T : x <= y  BY <2>1
  <2>3. i \in T
    <3> HIDE DEF T
    <3>1. Min(T) = CHOOSE x \in T : \A y \in T : x <= y  BY Zenon DEF Min
    <3> QED  BY <2>2, <3>1, Zenon
  <2> QED  BY <2>3
<1> HIDE DEF i
<1> DEFINE a == SubSeq(s, 1, i - 1)
           b == SubSeq(s, i + 1, n)
<1>5. a \in Seq(S) /\ Len(a) = i - 1 /\ \A j \in 1..(i - 1) : a[j] = s[j]
  <2>1. 1 \in Int /\ i - 1 \in Int /\ \A j \in 1..(i - 1) : s[j] \in S  BY <1>1, <1>4
  <2>2. /\ a \in Seq(S) /\ Len(a) = (IF 1 <= i - 1 THEN (i - 1) - 1 + 1 ELSE 0)
        /\ \A j \in 1..((i - 1) - 1 + 1) : a[j] = s[1 + j - 1]
    BY <2>1, SubSeqProperties
  <2> HIDE DEF a
  <2> QED  BY <1>1, <1>4, <2>2
<1>6. b \in Seq(S) /\ Len(b) = n - i /\ \A j \in 1..(n - i) : b[j] = s[i + j]
  <2>1. i + 1 \in Int /\ n \in Int /\ \A j \in (i + 1)..n : s[j] \in S  BY <1>1, <1>4
  <2>2. /\ b \in Seq(S) /\ Len(b) = (IF i + 1 <= n THEN n - (i + 1) + 1 ELSE 0)
        /\ \A j \in 1..(n - (i + 1) + 1) : b[j] = s[i + 1 + j - 1]
    BY <2>1, SubSeqProperties
  <2> HIDE DEF b
  <2>3. \A j \in 1..(n - i) : i + 1 + j - 1 = i + j /\ j \in 1..(n - (i + 1) + 1)  BY <1>1, <1>4
  <2> QED  BY <1>1, <1>4, <2>2, <2>3
<1>7. t = a \o b  BY DEF RemoveAt, n
<1> HIDE DEF a, b
<1>8. /\ a \o b \in Seq(S) /\ Len(a \o b) = Len(a) + Len(b)
      /\ \A j \in 1..(Len(a) + Len(b)) : (a \o b)[j] = IF j <= Len(a) THEN a[j] ELSE b[j - Len(a)]
  BY <1>5, <1>6, ConcatProperties
<1> HIDE DEF t
<1>9. /\ t \in Seq(S) /\ Len(t) = n - 1
      /\ \A j \in 1..(n - 1) : t[j] = IF j < i THEN s[j] ELSE s[j + 1]
  <2>1. t \in Seq(S) /\ Len(t) = n - 1  BY <1>1, <1>4, <1>5, <1>6, <1>7, <1>8
  <2>2. ASSUME NEW j \in 1..(n - 1) PROVE t[j] = IF j < i THEN s[j] ELSE s[j + 1]
    <3>1. t[j] = IF j <= i - 1 THEN a[j] ELSE b[j - (i - 1)]
      BY <1>1, <1>4, <1>5, <1>6, <1>7, <1>8
    <3>2. CASE j < i  BY <1>1, <1>4, <1>5, <3>1, <3>2
    <3>3. CASE ~(j < i)
      <4>1. j - (i - 1) \in 1..(n - i) /\ i + (j - (i - 1)) = j + 1 /\ ~(j <= i - 1)
        BY <1>1, <1>4, <3>3
      <4>2. b[j - (i - 1)] = s[i + (j - (i - 1))]  BY <1>6, <4>1
      <4> QED  BY <3>1, <3>3, <4>1, <4>2
    <3> QED  BY <3>2, <3>3
  <2> QED  BY <2>1, <2>2
<1>10. IsInjective(t)
  <2>1. \A j, k \in 1..n : s[j] = s[k] => j = k  BY <1>1 DEF IsInjective
  <2>2. DOMAIN t = 1..(n - 1)  BY <1>9, LenProperties
  <2>3. ASSUME NEW j \in 1..(n - 1), NEW k \in 1..(n - 1), t[j] = t[k] PROVE j = k
    <3> DEFINE x == IF j < i THEN j ELSE j + 1
               y == IF k < i THEN k ELSE k + 1
    <3>1. x \in 1..n /\ y \in 1..n  BY <1>1
    <3>2. s[x] = s[y]  BY <1>9, <2>3
    <3>3. x = y  BY <2>1, <3>1, <3>2
    <3> QED  BY <1>4, <3>3
  <2> QED  BY <2>2, <2>3 DEF IsInjective
<1>11. Len(t) <= n  BY <1>1, <1>9
<1> QED  BY <1>3, <1>9, <1>10, <1>11 DEF n

----------------------------------------------------------------------------
(* The inductive invariant.                                                *)

\* What the move register may hold.
Register == {r \in Seq(Written \ {Root}) : Len(r) <= RegisterMax /\ IsInjective(r)}

\* The files are a tree and the snapshot a listing.
FilesOK == FsOK(fs) /\ cwd \in Path /\ entries \in Seq(Entry)

\* The counters count.
CountersOK == time \in Nat /\ commands \in Nat /\ foreign \in Nat

\* The renames recorded can be undone and redone: each has its new name.
StacksNamed ==
  undo_stack \in Seq(NamedOp) /\ redo_stack \in Seq(NamedOp) /\ move_batch_id \in Nat

\* All of it.
IInv == FilesOK /\ move_reg \in Register /\ CountersOK /\ StacksNamed

\* It implies the invariants of the runs.
LEMMA IInvImplies ==
  ASSUME IInv PROVE TypeOK /\ RegisterHasNoDuplicates
<1>1. NamedOp \subseteq H!Op  BY DEF NamedOp
<1>2. H!TypeOK  BY <1>1, SeqMonotonic DEF IInv, StacksNamed, H!TypeOK
<1>3. /\ FsOK(fs) /\ cwd \in Path /\ entries \in Seq(Entry)
      /\ move_reg \in Seq(Written \ {Root}) /\ Len(move_reg) <= RegisterMax
      /\ IsInjective(move_reg) /\ time \in Nat /\ commands \in Nat /\ foreign \in Nat
  BY DEF IInv, FilesOK, CountersOK, Register
<1> QED  BY <1>2, <1>3 DEF TypeOK, FsOK, RegisterHasNoDuplicates

\* The reload a command ends with leaves a listing.
LEMMA ReloadOK ==
  ASSUME FsOK(fs'), cwd \in Path, Reload
  PROVE  FilesOK'
BY ListingType DEF Reload, FilesOK

\* The operations recorded can be undone.
LEMMA OpsNamed ==
  ASSUME NEW type \in H!OpTypes, NEW batch \in Nat, NEW items \in Seq(Items),
         type = "RENAME" => \A i \in 1..Len(items) : items[i].new_name \in Name
  PROVE  H!Ops(type, batch, items) \in Seq(NamedOp)
<1>1. Len(items) \in Nat /\ \A i \in 1..Len(items) : items[i] \in Items
  BY LenProperties, ElementOfSeq
<1>2. \A i \in 1..Len(items) : H!OpOf(type, batch, items[i]) \in NamedOp
  BY <1>1 DEF H!OpOf, NamedOp, H!Op
<1>3. [i \in 1..Len(items) |-> H!OpOf(type, batch, items[i])] \in [1..Len(items) -> NamedOp]
  BY <1>2
<1> QED  BY <1>1, <1>3, IsASeq DEF H!Ops

\* So can the stacks after a push.
LEMMA RecordOK ==
  ASSUME StacksNamed, NEW type \in H!OpTypes, NEW items \in Seq(Items),
         type = "RENAME" => \A i \in 1..Len(items) : items[i].new_name \in Name,
         H!Record(type, items)
  PROVE  StacksNamed'
<1> DEFINE ops == H!Ops(type, 0, items)
<1>1. ops \in Seq(NamedOp)  BY OpsNamed
<1>2. /\ undo_stack' = H!Pushed(undo_stack, ops) /\ redo_stack' = <<>>
      /\ move_batch_id' = move_batch_id
  BY DEF H!Record, H!Push
<1> HIDE DEF ops
<1>3. H!Pushed(undo_stack, ops) \in Seq(NamedOp)  BY <1>1, StackOps DEF StacksNamed
<1>4. <<>> \in Seq(NamedOp)  BY EmptySeq
<1> QED  BY <1>2, <1>3, <1>4 DEF StacksNamed

\* And after the pushes of a paste.
LEMMA PasteRecordOK ==
  ASSUME StacksNamed, NEW items \in Seq(Items), H!Paste(items)
  PROVE  StacksNamed'
<1> DEFINE ops == H!Ops("MOVE", move_batch_id + 1, items)
<1>0. "MOVE" \in H!OpTypes /\ move_batch_id + 1 \in Nat  BY DEF H!OpTypes, StacksNamed
<1>1. ops \in Seq(NamedOp)  BY <1>0, OpsNamed
<1>2. /\ undo_stack' = H!Pushed(undo_stack, ops) /\ redo_stack' = <<>>
      /\ move_batch_id' = move_batch_id + 1
  BY DEF H!Paste, H!Push
<1> HIDE DEF ops
<1>3. H!Pushed(undo_stack, ops) \in Seq(NamedOp)  BY <1>1, StackOps DEF StacksNamed
<1>4. <<>> \in Seq(NamedOp)  BY EmptySeq
<1> QED  BY <1>0, <1>2, <1>3, <1>4 DEF StacksNamed

\* And after a walk from one to the other.
LEMMA WalkOK ==
  ASSUME NEW from \in Seq(NamedOp), NEW to \in Seq(NamedOp), NEW k \in 1..Len(from)
  PROVE  /\ H!Without(from, k) \in Seq(NamedOp)
         /\ H!Capped(to \o H!Reverse(H!Top(from, k))) \in Seq(NamedOp)
         /\ H!Reverse(H!Top(from, k)) \in Seq(NamedOp)
<1>1. H!Without(from, k) \in Seq(NamedOp) /\ H!Top(from, k) \in Seq(NamedOp)
  BY StackOps
<1> DEFINE top == H!Top(from, k)
           back == H!Reverse(top)
           all == to \o back
<1>2. top \in Seq(NamedOp)  BY <1>1
<1> HIDE DEF top
<1>3. back \in Seq(NamedOp)  BY <1>2, StackOps
<1> HIDE DEF back
<1>4. all \in Seq(NamedOp)  BY <1>3, ConcatProperties
<1> HIDE DEF all
<1>5. H!Capped(all) \in Seq(NamedOp)  BY <1>4, StackOps
<1> QED  BY <1>1, <1>3, <1>5 DEF top, back, all

\* Rename, trash and delete.
LEMMA RenameKeeps ==
  ASSUME IInv, NEW e \in ToSet(entries), NEW name \in NewNames, RenameEntry(e, name)
  PROVE  IInv'
<1>1. FilesOK /\ CountersOK /\ StacksNamed /\ move_reg \in Register  BY DEF IInv
<1>2. e.name \in Name /\ name \in Name /\ cwd \in Path /\ cwd \in Written
  <2>1. e \in Entry  BY <1>1, InSet DEF FilesOK
  <2>2. cwd \in Path  BY <1>1 DEF FilesOK
  <2> QED  BY <2>1, <2>2, PathIsWritten, FileOpsAssumption DEF Entry
<1> DEFINE src == Append(cwd, e.name)
           dst == Append(cwd, name)
           item == Item(cwd, e.name, name, <<>>)
<1>3. dst \in Seq(Name \cup {NoName}) /\ Last(dst) \in Name
  BY <1>2, PathIn, PathIsWritten
<1>4. fs' = Rename(fs, src, dst) /\ Reload /\ H!Record("RENAME", <<item>>)
      /\ move_reg' = move_reg /\ commands' = commands + 1 /\ time' = time /\ foreign' = foreign
  BY DEF RenameEntry, Command
<1>5. item \in Items /\ item.new_name = name
  <2>1. name \in Name \cup {NoName}  BY <1>2
  <2>2. item \in Items  BY <1>2, <2>1, ItemType, RootIsWritten
  <2> QED  BY <2>2 DEF Item
<1> HIDE DEF src, dst, item
<1>6. FsOK(fs')  BY <1>1, <1>3, <1>4, RenameOK DEF FilesOK
<1>7. FilesOK'  BY <1>2, <1>4, <1>6, ReloadOK
<1>8. StacksNamed'
  <2>1. <<item>> \in Seq(Items) /\ \A i \in 1..Len(<<item>>) : <<item>>[i].new_name \in Name
    BY <1>2, <1>5
  <2>2. "RENAME" \in H!OpTypes  BY DEF H!OpTypes
  <2> QED  BY <1>1, <1>4, <2>1, <2>2, RecordOK
<1>9. CountersOK'  BY <1>1, <1>4 DEF CountersOK
<1> QED  BY <1>1, <1>4, <1>7, <1>8, <1>9 DEF IInv

\* The loop of files_delete_to_trash: an operation for each entry.
LEMMA TrashLoop ==
  ASSUME TypeOK, NEW sel \in Seq(Entry)
  PROVE  LET w == FoldLeft(TrashOne, [fs |-> fs, items |-> <<>>], sel) IN
         FsOK(w.fs) /\ w.items \in Seq(Items) /\ Len(w.items) = Len(sel)
<1> DEFINE base == [fs |-> fs, items |-> <<>>]
           n == Len(sel)
<1>1. base \in Rounds2
  BY TypeFacts, IsFileSystem, EmptySeq DEF Rounds2
<1>2. n \in Nat /\ \A k \in 1..n : sel[k] \in Entry  BY LenProperties, ElementOfSeq
<1>3. \A w \in Rounds2, e \in Entry : TrashOne(w, e) \in Rounds2  BY TrashOneOK
<1> HIDE DEF base
<1>10. PICK run : TrashOneRun(Rounds2, base, sel, run)  BY <1>1, <1>3, TrashOneFold
<1>4. /\ run[0] = base /\ run[n] = FoldLeft(TrashOne, base, sel)
      /\ \A k \in 0..n : run[k] \in Rounds2
      /\ \A k \in 1..n : run[k] = TrashOne(run[k - 1], sel[k])
  BY <1>10 DEF TrashOneRun
<1> DEFINE P == [k \in 0..n |-> Len(run[k].items) = k]
<1>5. P[0]
  <2>1. base.items = <<>>  BY DEF base
  <2>2. 0 \in 0..n  BY <1>2
  <2> QED  BY <1>4, <2>1, <2>2
<1> HIDE DEF n
<1>6. \A k \in 1..n : P[k - 1] => P[k]
  <2> SUFFICES ASSUME NEW k \in 1..n, P[k - 1] PROVE P[k]  OBVIOUS
  <2>1. k - 1 \in 0..n /\ k \in 0..n  BY <1>2
  <2>2. run[k - 1] \in Rounds2 /\ sel[k] \in Entry /\ run[k] = TrashOne(run[k - 1], sel[k])
    BY <1>2, <1>4, <2>1
  <2>3. Len(run[k].items) = Len(run[k - 1].items) + 1  BY <2>2, TrashOneOK
  <2> QED  BY <2>1, <2>3
<1>7. P[n] /\ run[n] \in Rounds2
  <2>1. n \in 0..n  BY <1>2
  <2> HIDE DEF P
  <2>2. \A k \in 0..n : P[k]  BY <1>2, <1>5, <1>6, Climb
  <2> QED  BY <1>4, <2>1, <2>2
<1>8. Len(run[n].items) = n
  <2>1. n \in 0..n  BY <1>2
  <2> QED  BY <1>7, <2>1
<1>9. FsOK(run[n].fs) /\ run[n].items \in Seq(Items)
  BY <1>7, IsFileSystem DEF Rounds2
<1> QED  BY <1>4, <1>8, <1>9 DEF n, base

\* The loop of files_delete_permanent.
LEMMA DeleteLoop ==
  ASSUME TypeOK, NEW sel \in Seq(Entry)
  PROVE  LET w == FoldLeft(DeleteOne, [fs |-> fs, items |-> <<>>], sel) IN
         FsOK(w.fs) /\ w.items \in Seq(Items) /\ Len(w.items) = Len(sel)
<1> DEFINE base == [fs |-> fs, items |-> <<>>]
           n == Len(sel)
<1>1. base \in Rounds2
  BY TypeFacts, IsFileSystem, EmptySeq DEF Rounds2
<1>2. n \in Nat /\ \A k \in 1..n : sel[k] \in Entry  BY LenProperties, ElementOfSeq
<1>3. \A w \in Rounds2, e \in Entry : DeleteOne(w, e) \in Rounds2  BY DeleteOneOK
<1> HIDE DEF base
<1>10. PICK run : DeleteOneRun(Rounds2, base, sel, run)  BY <1>1, <1>3, DeleteOneFold
<1>4. /\ run[0] = base /\ run[n] = FoldLeft(DeleteOne, base, sel)
      /\ \A k \in 0..n : run[k] \in Rounds2
      /\ \A k \in 1..n : run[k] = DeleteOne(run[k - 1], sel[k])
  BY <1>10 DEF DeleteOneRun
<1> DEFINE P == [k \in 0..n |-> Len(run[k].items) = k]
<1>5. P[0]
  <2>1. base.items = <<>>  BY DEF base
  <2>2. 0 \in 0..n  BY <1>2
  <2> QED  BY <1>4, <2>1, <2>2
<1> HIDE DEF n
<1>6. \A k \in 1..n : P[k - 1] => P[k]
  <2> SUFFICES ASSUME NEW k \in 1..n, P[k - 1] PROVE P[k]  OBVIOUS
  <2>1. k - 1 \in 0..n /\ k \in 0..n  BY <1>2
  <2>2. run[k - 1] \in Rounds2 /\ sel[k] \in Entry /\ run[k] = DeleteOne(run[k - 1], sel[k])
    BY <1>2, <1>4, <2>1
  <2>3. Len(run[k].items) = Len(run[k - 1].items) + 1  BY <2>2, DeleteOneOK
  <2> QED  BY <2>1, <2>3
<1>7. P[n] /\ run[n] \in Rounds2
  <2>1. n \in 0..n  BY <1>2
  <2> HIDE DEF P
  <2>2. \A k \in 0..n : P[k]  BY <1>2, <1>5, <1>6, Climb
  <2> QED  BY <1>4, <2>1, <2>2
<1>8. Len(run[n].items) = n
  <2>1. n \in 0..n  BY <1>2
  <2> QED  BY <1>7, <2>1
<1>9. FsOK(run[n].fs) /\ run[n].items \in Seq(Items)
  BY <1>7, IsFileSystem DEF Rounds2
<1> QED  BY <1>4, <1>8, <1>9 DEF n, base

\* files_delete_to_trash keeps the invariant.
LEMMA TrashKeeps ==
  ASSUME IInv, NEW sel \in Selections, Trash(sel)
  PROVE  IInv'
<1>1. FilesOK /\ CountersOK /\ StacksNamed /\ move_reg \in Register /\ TypeOK
  BY IInvImplies DEF IInv
<1>2. sel \in Seq(Entry)  BY <1>1, SelectionsType DEF FilesOK
<1> DEFINE w == FoldLeft(TrashOne, [fs |-> fs, items |-> <<>>], sel)
<1>3. FsOK(w.fs) /\ w.items \in Seq(Items)  BY <1>1, <1>2, TrashLoop
<1>4. fs' = w.fs /\ Reload /\ H!Record("TRASH", w.items)
      /\ move_reg' = move_reg /\ commands' = commands + 1 /\ time' = time /\ foreign' = foreign
  BY DEF Trash, Command
<1> HIDE DEF w
<1>5. FilesOK'  BY <1>1, <1>3, <1>4, ReloadOK DEF FilesOK
<1>6. StacksNamed'
  <2>1. "TRASH" \in H!OpTypes /\ "TRASH" # "RENAME"  BY DEF H!OpTypes
  <2> QED  BY <1>1, <1>3, <1>4, <2>1, RecordOK
<1>7. CountersOK'  BY <1>1, <1>4 DEF CountersOK
<1> QED  BY <1>1, <1>4, <1>5, <1>6, <1>7 DEF IInv

\* files_delete_permanent.
LEMMA DeleteKeeps ==
  ASSUME IInv, NEW sel \in Selections, Delete(sel)
  PROVE  IInv'
<1>1. FilesOK /\ CountersOK /\ StacksNamed /\ move_reg \in Register /\ TypeOK
  BY IInvImplies DEF IInv
<1>2. sel \in Seq(Entry)  BY <1>1, SelectionsType DEF FilesOK
<1> DEFINE w == FoldLeft(DeleteOne, [fs |-> fs, items |-> <<>>], sel)
<1>3. FsOK(w.fs) /\ w.items \in Seq(Items)  BY <1>1, <1>2, DeleteLoop
<1>4. fs' = w.fs /\ Reload /\ H!Record("DELETE_PERM", w.items)
      /\ move_reg' = move_reg /\ commands' = commands + 1 /\ time' = time /\ foreign' = foreign
  BY DEF Delete, Command
<1> HIDE DEF w
<1>5. FilesOK'  BY <1>1, <1>3, <1>4, ReloadOK DEF FilesOK
<1>6. StacksNamed'
  <2>1. "DELETE_PERM" \in H!OpTypes /\ "DELETE_PERM" # "RENAME"  BY DEF H!OpTypes
  <2> QED  BY <1>1, <1>3, <1>4, <2>1, RecordOK
<1>7. CountersOK'  BY <1>1, <1>4 DEF CountersOK
<1> QED  BY <1>1, <1>4, <1>5, <1>6, <1>7 DEF IInv

\* The move register.
LEMMA MarkMoreOK ==
  ASSUME cwd \in Path, NEW r \in Register, NEW e \in Entry
  PROVE  MarkMore(r, e) \in Register
<1> DEFINE full == Join(cwd, e.name)
           S == Written \ {Root}
<1>1. full \in S /\ r \in Seq(S) /\ Len(r) <= RegisterMax /\ IsInjective(r)
  BY JoinFacts DEF Register, Entry
<1>2. MarkMore(r, e) = IF full \in ToSet(r) \/ Len(r) >= RegisterMax THEN r
                       ELSE Append(r, full)
  BY DEF MarkMore
<1> HIDE DEF full, S
<1>3. ASSUME full \notin ToSet(r), ~(Len(r) >= RegisterMax)
      PROVE  /\ Append(r, full) \in Seq(S) /\ Len(Append(r, full)) <= RegisterMax
             /\ IsInjective(Append(r, full))
  <2>1. Append(r, full) \in Seq(S) /\ Len(Append(r, full)) = Len(r) + 1 /\ Len(r) \in Nat
    BY <1>1, AppendProperties, LenProperties
  <2>2. IsInjective(Append(r, full))  BY <1>1, <1>3, AppendNew
  <2>3. RegisterMax \in Nat  BY FileOpsAssumption
  <2> QED  BY <1>3, <2>1, <2>2, <2>3
<1> QED  BY <1>2, <1>3 DEF Register, S

\* files_move_mark.
LEMMA MarkKeeps ==
  ASSUME IInv, NEW e \in ToSet(entries), Mark(e)
  PROVE  IInv'
<1>1. FilesOK /\ CountersOK /\ StacksNamed /\ move_reg \in Register  BY DEF IInv
<1> DEFINE full == Join(cwd, e.name)
           S == Written \ {Root}
<1>2. full \in S /\ e \in Entry /\ cwd \in Path
  <2>1. e \in Entry  BY <1>1, InSet DEF FilesOK
  <2> QED  BY <1>1, <2>1, JoinFacts DEF FilesOK, Entry
<1>3. move_reg' \in Register
  <2>1. CASE full \in ToSet(move_reg)
    <3>1. move_reg' = RemoveFirst(move_reg, full)  BY <2>1 DEF Mark
    <3>2. move_reg \in Seq(S) /\ Len(move_reg) <= RegisterMax /\ IsInjective(move_reg)
          /\ Len(move_reg) \in Nat /\ RegisterMax \in Nat
      BY <1>1, LenProperties, FileOpsAssumption DEF Register
    <3> HIDE DEF full, S
    <3>3. /\ RemoveFirst(move_reg, full) \in Seq(S)
          /\ IsInjective(RemoveFirst(move_reg, full))
          /\ Len(RemoveFirst(move_reg, full)) <= Len(move_reg)
      BY <2>1, <3>2, TakeOut
    <3>4. Len(RemoveFirst(move_reg, full)) \in Nat  BY <3>3, LenProperties
    <3>5. Len(RemoveFirst(move_reg, full)) <= RegisterMax  BY <3>2, <3>3, <3>4
    <3> QED  BY <3>1, <3>3, <3>5 DEF Register, S
  <2>2. CASE full \notin ToSet(move_reg)
    <3>1. Len(move_reg) \in Nat /\ RegisterMax \in Nat
      BY <1>1, LenProperties, FileOpsAssumption DEF Register
    <3>2. move_reg' = MarkMore(move_reg, e)
      <4>1. move_reg' = IF Len(move_reg) < RegisterMax THEN Append(move_reg, full)
                        ELSE move_reg
        BY <2>2 DEF Mark
      <4>2. MarkMore(move_reg, e) = IF Len(move_reg) >= RegisterMax THEN move_reg
                                    ELSE Append(move_reg, full)
        BY <2>2 DEF MarkMore
      <4> QED  BY <3>1, <4>1, <4>2
    <3> QED  BY <1>1, <1>2, <3>2, MarkMoreOK
  <2> QED  BY <2>1, <2>2
<1>4. UNCHANGED <<fs, cwd, entries, history, time, commands, foreign>>  BY DEF Mark
<1> QED  BY <1>1, <1>3, <1>4 DEF IInv, FilesOK, CountersOK, StacksNamed, history

\* files_move_mark_all.
LEMMA MarkAllKeeps ==
  ASSUME IInv, NEW sel \in Selections, MarkAll(sel)
  PROVE  IInv'
<1>1. FilesOK /\ CountersOK /\ StacksNamed /\ move_reg \in Register /\ cwd \in Path
  BY DEF IInv, FilesOK
<1>2. sel \in Seq(Entry) /\ Len(sel) \in Nat  BY <1>1, SelectionsType, LenProperties DEF FilesOK
<1>3. \A r \in Register, e \in Entry : MarkMore(r, e) \in Register  BY <1>1, MarkMoreOK
<1>4. PICK run : MarkMoreRun(Register, move_reg, sel, run)
  BY <1>1, <1>2, <1>3, MarkMoreFold
<1>5. FoldLeft(MarkMore, move_reg, sel) \in Register
  <2>1. Len(sel) \in 0..Len(sel)  BY <1>2
  <2> QED  BY <1>4, <2>1 DEF MarkMoreRun
<1>6. move_reg' \in Register  BY <1>5 DEF MarkAll
<1>7. UNCHANGED <<fs, cwd, entries, history, time, commands, foreign>>  BY DEF MarkAll
<1> QED  BY <1>1, <1>6, <1>7 DEF IInv, FilesOK, CountersOK, StacksNamed, history

\* files_move_clear.
LEMMA ClearKeeps ==
  ASSUME IInv, ClearRegister
  PROVE  IInv'
<1>1. FilesOK /\ CountersOK /\ StacksNamed  BY DEF IInv
<1>2. <<>> \in Register
  <2>1. <<>> \in Seq(Written \ {Root}) /\ Len(<<>>) = 0 /\ DOMAIN <<>> = {}  BY EmptySeq
  <2>2. 0 <= RegisterMax  BY FileOpsAssumption
  <2> QED  BY <2>1, <2>2 DEF Register, IsInjective
<1>3. move_reg' = <<>> /\ UNCHANGED <<fs, cwd, entries, history, time, commands, foreign>>
  BY DEF ClearRegister
<1> QED  BY <1>1, <1>2, <1>3 DEF IInv, FilesOK, CountersOK, StacksNamed, history

\* The loop of a paste, round by round.
PasteBase(dest) == [dest |-> dest, fs |-> fs, kept |-> <<>>, items |-> <<>>]

\* The rounds of files_move_paste.
LEMMA PasteLoop ==
  ASSUME IInv, NEW dest \in Written
  PROVE  \E run : PasteOneRun(PasteRounds, PasteBase(dest), move_reg, run)
<1>1. PasteBase(dest) \in PasteRounds
  BY IsFileSystem, EmptySeq DEF IInv, FilesOK, PasteBase, PasteRounds
<1>2. \A w \in PasteRounds, src \in Written \ {Root} : PasteOne(w, src) \in PasteRounds
  BY PasteOneOK
<1>3. move_reg \in Seq(Written \ {Root})  BY DEF IInv, Register
<1> QED  BY <1>1, <1>2, <1>3, PasteOneFold

\* After k rounds: what was kept is from the first k paths, once each.
KeptSoFar(run, k) ==
  /\ run[k].kept \in Seq(Written \ {Root}) /\ IsInjective(run[k].kept)
  /\ ToSet(run[k].kept) \subseteq {move_reg[j] : j \in 1..k}
  /\ Len(run[k].kept) <= k /\ Len(run[k].items) <= k

\* A path is met once, so it is kept once.
LEMMA KeptOK ==
  ASSUME IInv, NEW dest \in Written, NEW run,
         PasteOneRun(PasteRounds, PasteBase(dest), move_reg, run)
  PROVE  \A k \in 0..Len(move_reg) : KeptSoFar(run, k)
<1> DEFINE n == Len(move_reg)
           P == [k \in 0..n |-> KeptSoFar(run, k)]
           S == Written \ {Root}
<1>1. /\ n \in Nat /\ \A k \in 1..n : move_reg[k] \in S
      /\ \A i, j \in 1..n : move_reg[i] = move_reg[j] => i = j
  <2>1. move_reg \in Seq(S) /\ IsInjective(move_reg)  BY DEF IInv, Register
  <2>2. n \in Nat /\ DOMAIN move_reg = 1..n /\ \A k \in 1..n : move_reg[k] \in S
    BY <2>1, LenProperties, ElementOfSeq
  <2> QED  BY <2>1, <2>2 DEF IsInjective
<1>2. /\ run[0] = PasteBase(dest)
      /\ \A k \in 0..n : run[k] \in PasteRounds
      /\ \A k \in 1..n : run[k] = PasteOne(run[k - 1], move_reg[k])
  BY DEF PasteOneRun
<1> HIDE DEF n
<1>3. P[0]
  <2>1. run[0].kept = <<>> /\ run[0].items = <<>>  BY <1>2 DEF PasteBase
  <2>2. <<>> \in Seq(S) /\ Len(<<>>) = 0 /\ DOMAIN <<>> = {}  BY EmptySeq
  <2>3. IsInjective(<<>>) /\ ToSet(<<>>) = {}  BY <2>2 DEF IsInjective, ToSet
  <2>4. KeptSoFar(run, 0)  BY <2>1, <2>2, <2>3 DEF KeptSoFar
  <2> QED  BY <1>1, <2>4
<1>4. \A k \in 1..n : P[k - 1] => P[k]
  <2> SUFFICES ASSUME NEW k \in 1..n, P[k - 1] PROVE P[k]  OBVIOUS
  <2>1. k - 1 \in 0..n /\ k \in 0..n /\ k \in Nat /\ move_reg[k] \in S  BY <1>1
  <2> DEFINE w == run[k - 1]
             v == run[k]
             src == move_reg[k]
  <2>2. KeptSoFar(run, k - 1)  BY <2>1
  <2>3. w \in PasteRounds /\ v = PasteOne(w, src)  BY <1>2, <2>1
  <2>4. /\ v \in PasteRounds
        /\ \/ v = w
           \/ v.fs = w.fs /\ v.items = w.items /\ v.kept = Append(w.kept, src)
           \/ v.kept = w.kept
        /\ Len(v.items) <= Len(w.items) + 1 /\ Len(v.kept) <= Len(w.kept) + 1
    <3> HIDE DEF w, src
    <3> QED  BY <2>1, <2>3, PasteOneOK DEF src
  <2>5. /\ w.kept \in Seq(S) /\ IsInjective(w.kept)
        /\ ToSet(w.kept) \subseteq {move_reg[j] : j \in 1..(k - 1)}
        /\ Len(w.kept) <= k - 1 /\ Len(w.items) <= k - 1
    BY <2>2 DEF KeptSoFar
  <2>6. Len(v.items) \in Nat /\ Len(v.kept) \in Nat /\ Len(w.items) \in Nat /\ Len(w.kept) \in Nat
        /\ v.kept \in Seq(S)
    BY <2>3, <2>4, LenProperties DEF PasteRounds
  <2>7. {move_reg[j] : j \in 1..k} = {move_reg[j] : j \in 1..(k - 1)} \cup {src}
    <3>1. 1..k = 1..(k - 1) \cup {k}  BY <2>1
    <3> QED  BY <3>1
  <2>8. src \notin {move_reg[j] : j \in 1..(k - 1)}
    <3>1. \A j \in 1..(k - 1) : j \in 1..n /\ j # k  BY <1>1
    <3> QED  BY <1>1, <3>1
  <2>9. IsInjective(v.kept) /\ ToSet(v.kept) \subseteq {move_reg[j] : j \in 1..k}
    <3> HIDE DEF w, v, src
    <3>1. CASE v.kept = w.kept  BY <2>5, <2>7, <3>1
    <3>2. CASE v.kept = Append(w.kept, src)
      <4>1. src \notin ToSet(w.kept)  BY <2>5, <2>8
      <4>2. ToSet(v.kept) = ToSet(w.kept) \cup {src} /\ IsInjective(v.kept)
        BY <2>1, <2>5, <3>2, <4>1, AppendNew DEF src
      <4> QED  BY <2>5, <2>7, <4>2
    <3> QED  BY <2>4, <3>1, <3>2
  <2>10. Len(v.kept) <= k /\ Len(v.items) <= k
    <3> HIDE DEF w, v
    <3> QED  BY <2>1, <2>4, <2>5, <2>6
  <2>11. KeptSoFar(run, k)  BY <2>6, <2>9, <2>10 DEF KeptSoFar
  <2> QED  BY <2>1, <2>11
<1>5. \A k \in 0..n : P[k]
  <2> HIDE DEF P
  <2> QED  BY <1>1, <1>3, <1>4, Climb
<1>6. \A k \in 0..n : KeptSoFar(run, k)  BY <1>5
<1> QED  BY <1>6 DEF n

\* What a paste leaves of files, register and operations.
LEMMA PastedOK ==
  ASSUME IInv, NEW dest \in Written
  PROVE  /\ FsOK(Pasted(dest).fs) /\ Pasted(dest).kept \in Register
         /\ Pasted(dest).items \in Seq(Items) /\ Len(Pasted(dest).items) <= Len(move_reg)
<1> DEFINE n == Len(move_reg)
           w == Pasted(dest)
<1>1. PICK run : PasteOneRun(PasteRounds, PasteBase(dest), move_reg, run)  BY PasteLoop
<1>2. run[n] = w /\ \A k \in 0..n : run[k] \in PasteRounds
  BY <1>1 DEF PasteOneRun, Pasted, PasteBase
<1>3. n \in Nat /\ n <= RegisterMax /\ RegisterMax \in Nat
  BY LenProperties, FileOpsAssumption DEF IInv, Register
<1>4. n \in 0..n  BY <1>3
<1>5. KeptSoFar(run, n)  BY <1>1, <1>4, KeptOK
<1> HIDE DEF n, w
<1>6. w \in PasteRounds  BY <1>2, <1>4
<1>7. /\ w.kept \in Seq(Written \ {Root}) /\ IsInjective(w.kept)
      /\ Len(w.kept) <= n /\ Len(w.items) <= n
  BY <1>2, <1>5 DEF KeptSoFar
<1>8. Len(w.kept) \in Nat  BY <1>7, LenProperties
<1>9. Len(w.kept) <= RegisterMax  BY <1>3, <1>7, <1>8
<1>10. w.kept \in Register  BY <1>7, <1>9 DEF Register
<1>11. FsOK(w.fs) /\ w.items \in Seq(Items)  BY <1>6, IsFileSystem DEF PasteRounds
<1> QED  BY <1>7, <1>10, <1>11 DEF n, w

\* A paste goes to a directory with a spelling.
LEMMA TargetsWritten ==
  ASSUME IInv, NEW dest \in PasteTargets
  PROVE  dest \in Written
<1>1. cwd \in Path /\ cwd \in Written /\ entries \in Seq(Entry)
  BY PathIsWritten DEF IInv, FilesOK
<1>2. CASE dest = cwd  BY <1>1, <1>2
<1>3. CASE dest # cwd
  <2>1. PICK e \in ToSet(entries) : dest = Join(cwd, e.name)  BY <1>3 DEF PasteTargets
  <2>2. e \in Entry  BY <1>1, <2>1, InSet
  <2>3. e.name \in Name  BY <2>2 DEF Entry
  <2> QED  BY <1>1, <2>1, <2>3, JoinFacts
<1> QED  BY <1>2, <1>3

\* files_move_paste keeps the invariant.
LEMMA PasteKeeps ==
  ASSUME IInv, NEW dest \in PasteTargets, Paste(dest)
  PROVE  IInv'
<1> DEFINE w == Pasted(dest)
<1>1. FilesOK /\ CountersOK /\ StacksNamed /\ cwd \in Path  BY DEF IInv, FilesOK
<1>2. FsOK(w.fs) /\ w.kept \in Register /\ w.items \in Seq(Items)
  BY TargetsWritten, PastedOK
<1>3. /\ fs' = w.fs /\ move_reg' = w.kept /\ Reload
      /\ IF w.items = <<>> THEN UNCHANGED history ELSE H!Paste(w.items)
      /\ commands' = commands + 1 /\ time' = time /\ foreign' = foreign
  BY DEF Paste, Command
<1> HIDE DEF w
<1>4. FilesOK'  BY <1>1, <1>2, <1>3, ReloadOK
<1>5. StacksNamed'
  <2>1. CASE w.items = <<>>  BY <1>1, <1>3, <2>1 DEF StacksNamed, history
  <2>2. CASE w.items # <<>>  BY <1>1, <1>2, <1>3, <2>2, PasteRecordOK
  <2> QED  BY <2>1, <2>2
<1>6. CountersOK'  BY <1>1, <1>3 DEF CountersOK
<1> QED  BY <1>2, <1>3, <1>4, <1>5, <1>6 DEF IInv

\* Undo and redo.
LEMMA UndoKeeps ==
  ASSUME IInv, NEW k \in 1..Len(undo_stack), Undo(k)
  PROVE  IInv'
<1> DEFINE ops == H!Reverse(H!Top(undo_stack, k))
<1>1. FilesOK /\ CountersOK /\ StacksNamed /\ move_reg \in Register /\ cwd \in Path
  BY DEF IInv, FilesOK
<1>2. /\ H!Without(undo_stack, k) \in Seq(NamedOp) /\ ops \in Seq(NamedOp)
      /\ H!Capped(redo_stack \o ops) \in Seq(NamedOp)
  BY <1>1, WalkOK DEF StacksNamed
<1>3. /\ fs' = FoldLeft(Revert, fs, ops) /\ Reload
      /\ move_reg' = move_reg /\ time' = time /\ commands' = commands /\ foreign' = foreign
      /\ undo_stack' = H!Without(undo_stack, k)
      /\ redo_stack' = H!Capped(redo_stack \o ops) /\ move_batch_id' = move_batch_id
  BY DEF Undo, Undone, H!Undo, Reverse, H!Reverse
<1> HIDE DEF ops
<1>4. FsOK(fs')
  <2>1. fs \in FileSystems  BY <1>1, IsFileSystem DEF FilesOK
  <2>2. \A f \in FileSystems, op \in NamedOp : Revert(f, op) \in FileSystems  BY RevertOK
  <2>3. ops \in Seq(NamedOp) /\ Len(ops) \in 0..Len(ops)  BY <1>2, LenProperties
  <2>4. PICK run : RevertRun(FileSystems, fs, ops, run)  BY <2>1, <2>2, <2>3, RevertFold
  <2>5. fs' \in FileSystems  BY <1>3, <2>3, <2>4 DEF RevertRun
  <2> QED  BY <2>5, IsFileSystem
<1>5. FilesOK'  BY <1>1, <1>3, <1>4, ReloadOK
<1> QED  BY <1>1, <1>2, <1>3, <1>5 DEF IInv, CountersOK, StacksNamed

\* files_redo.
LEMMA RedoKeeps ==
  ASSUME IInv, NEW k \in 1..Len(redo_stack), Redo(k)
  PROVE  IInv'
<1> DEFINE ops == H!Reverse(H!Top(redo_stack, k))
<1>1. FilesOK /\ CountersOK /\ StacksNamed /\ move_reg \in Register /\ cwd \in Path
  BY DEF IInv, FilesOK
<1>2. /\ H!Without(redo_stack, k) \in Seq(NamedOp) /\ ops \in Seq(NamedOp)
      /\ H!Capped(undo_stack \o ops) \in Seq(NamedOp)
  BY <1>1, WalkOK DEF StacksNamed
<1>3. /\ fs' = FoldLeft(Reapply, fs, ops) /\ Reload
      /\ move_reg' = move_reg /\ time' = time /\ commands' = commands /\ foreign' = foreign
      /\ redo_stack' = H!Without(redo_stack, k)
      /\ undo_stack' = H!Capped(undo_stack \o ops) /\ move_batch_id' = move_batch_id
  BY DEF Redo, H!Redo, Reverse, H!Reverse
<1> HIDE DEF ops
<1>4. FsOK(fs')
  <2>1. fs \in FileSystems  BY <1>1, IsFileSystem DEF FilesOK
  <2>2. \A f \in FileSystems, op \in NamedOp : Reapply(f, op) \in FileSystems  BY ReapplyOK
  <2>3. ops \in Seq(NamedOp) /\ Len(ops) \in 0..Len(ops)  BY <1>2, LenProperties
  <2>4. PICK run : ReapplyRun(FileSystems, fs, ops, run)  BY <2>1, <2>2, <2>3, ReapplyFold
  <2>5. fs' \in FileSystems  BY <1>3, <2>3, <2>4 DEF ReapplyRun
  <2> QED  BY <2>5, IsFileSystem
<1>5. FilesOK'  BY <1>1, <1>3, <1>4, ReloadOK
<1> QED  BY <1>1, <1>2, <1>3, <1>5 DEF IInv, CountersOK, StacksNamed

\* The world around.
LEMMA ForeignRemoveKeeps ==
  ASSUME IInv, NEW p \in DOMAIN fs \ {Root}, ForeignRemove(p)
  PROVE  IInv'
<1>1. FilesOK /\ CountersOK /\ StacksNamed /\ move_reg \in Register  BY DEF IInv
<1>2. FsOK(fs')
  <2>1. p \in Path /\ p # Root /\ FsOK(fs)  BY <1>1 DEF FilesOK, FsOK
  <2> QED  BY <2>1, RemoveTreeOK DEF ForeignRemove
<1>3. /\ foreign' = foreign + 1
      /\ UNCHANGED <<cwd, entries, move_reg, history, time, commands>>
  BY DEF ForeignRemove
<1> QED  BY <1>1, <1>2, <1>3 DEF IInv, FilesOK, CountersOK, StacksNamed, history

\* Another process creates a file.
LEMMA ForeignCreateKeeps ==
  ASSUME IInv, NEW p \in FreePaths, ForeignCreate(p)
  PROVE  IInv'
<1>1. FilesOK /\ CountersOK /\ StacksNamed /\ move_reg \in Register  BY DEF IInv
<1>2. FsOK(fs')
  <2>1. PICK d \in Places, n \in NewNames : p = Append(d, n)  BY DEF FreePaths
  <2>2. d \in Path /\ n \in Name  BY FileOpsAssumption
  <2>3. p \in Path /\ ~Exists(fs, p) /\ IsDir(fs, Front(p))
    BY <2>1, <2>2, PathIn DEF FreePaths
  <2>4. 1000 + foreign \in Nat /\ FsOK(fs)  BY <1>1 DEF CountersOK, FilesOK
  <2>5. fs' = Create(fs, p, 1000 + foreign)  BY DEF ForeignCreate
  <2> QED  BY <2>3, <2>4, <2>5, CreateOK
<1>3. /\ foreign' = foreign + 1
      /\ UNCHANGED <<cwd, entries, move_reg, history, time, commands>>
  BY DEF ForeignCreate
<1> QED  BY <1>1, <1>2, <1>3 DEF IInv, FilesOK, CountersOK, StacksNamed, history

\* Every step keeps it.
LEMMA NextKeeps ==
  ASSUME IInv, [Next]_vars
  PROVE  IInv'
<1>1. FilesOK /\ CountersOK /\ StacksNamed /\ move_reg \in Register  BY DEF IInv
<1>2. ASSUME NEW p \in Places, Visit(p) PROVE IInv'
  <2>1. p \in Path /\ Listing(fs, p) \in Seq(Entry)
    BY <1>1, FileOpsAssumption, ListingType DEF FilesOK
  <2>2. cwd' = p /\ entries' = Listing(fs, p)
        /\ UNCHANGED <<fs, move_reg, history, time, commands, foreign>>
    BY <1>2 DEF Visit
  <2> QED  BY <1>1, <2>1, <2>2 DEF IInv, FilesOK, CountersOK, StacksNamed, history
<1>3. ASSUME Refresh PROVE IInv'
  <2>1. Listing(fs, cwd) \in Seq(Entry)  BY <1>1, ListingType DEF FilesOK
  <2>2. entries' = Listing(fs, cwd)
        /\ UNCHANGED <<fs, cwd, move_reg, history, time, commands, foreign>>
    BY <1>3 DEF Refresh
  <2> QED  BY <1>1, <2>1, <2>2 DEF IInv, FilesOK, CountersOK, StacksNamed, history
<1>4. ASSUME Tick PROVE IInv'
  <2>1. time' = time + 1
        /\ UNCHANGED <<fs, cwd, entries, move_reg, history, commands, foreign>>
    BY <1>4 DEF Tick
  <2> QED  BY <1>1, <2>1 DEF IInv, FilesOK, CountersOK, StacksNamed, history
<1>5. ASSUME UNCHANGED vars PROVE IInv'
  BY <1>1, <1>5 DEF IInv, FilesOK, CountersOK, StacksNamed, vars
<1>6. ASSUME NEW e \in ToSet(entries), NEW name \in NewNames, RenameEntry(e, name)
      PROVE  IInv'
  BY <1>6, RenameKeeps
<1>7. ASSUME NEW sel \in Selections, Trash(sel) PROVE IInv'  BY <1>7, TrashKeeps
<1>8. ASSUME NEW sel \in Selections, Delete(sel) PROVE IInv'  BY <1>8, DeleteKeeps
<1>9. ASSUME NEW e \in ToSet(entries), Mark(e) PROVE IInv'  BY <1>9, MarkKeeps
<1>10. ASSUME NEW sel \in Selections, MarkAll(sel) PROVE IInv'  BY <1>10, MarkAllKeeps
<1>11. ASSUME ClearRegister PROVE IInv'  BY <1>11, ClearKeeps
<1>12. ASSUME NEW dest \in PasteTargets, Paste(dest) PROVE IInv'  BY <1>12, PasteKeeps
<1>13. ASSUME NEW k \in 1..Len(undo_stack), Undo(k) PROVE IInv'  BY <1>13, UndoKeeps
<1>14. ASSUME NEW k \in 1..Len(redo_stack), Redo(k) PROVE IInv'  BY <1>14, RedoKeeps
<1>15. ASSUME NEW p \in DOMAIN fs \ {Root}, ForeignRemove(p) PROVE IInv'
  BY <1>15, ForeignRemoveKeeps
<1>16. ASSUME NEW p \in FreePaths, ForeignCreate(p) PROVE IInv'
  BY <1>16, ForeignCreateKeeps
<1> QED
  BY <1>2, <1>3, <1>4, <1>5, <1>6, <1>7, <1>8, <1>9, <1>10, <1>11, <1>12, <1>13, <1>14,
     <1>15, <1>16 DEF Next

\* It holds at the start.
LEMMA InitKeeps ==
  ASSUME Init PROVE IInv
<1>1. FsOK(fs)  BY FileOpsAssumption DEF Init, FsOK
<1>2. cwd \in Path /\ entries \in Seq(Entry)
  <2>1. cwd \in Path  BY FileOpsAssumption DEF Init
  <2> QED  BY <1>1, <2>1, ListingType DEF Init
<1>3. move_reg \in Register
  <2>1. <<>> \in Seq(Written \ {Root}) /\ Len(<<>>) = 0 /\ DOMAIN <<>> = {}  BY EmptySeq
  <2>2. 0 <= RegisterMax  BY FileOpsAssumption
  <2> QED  BY <2>1, <2>2 DEF Register, IsInjective, Init
<1>4. StacksNamed  BY EmptySeq DEF Init, H!Init, StacksNamed
<1>5. CountersOK  BY DEF Init, CountersOK
<1> QED  BY <1>1, <1>2, <1>3, <1>4, <1>5 DEF IInv, FilesOK

\* So it always holds.
LEMMA AlwaysIInv == Spec => []IInv
<1>1. Init => IInv  BY InitKeeps
<1>2. IInv /\ [Next]_vars => IInv'  BY NextKeeps
<1> QED  BY <1>1, <1>2, PTL DEF Spec

\* The files stay a tree of directories whatever is renamed, trashed, pasted,
\* undone or removed by others, and what is listed, registered and recorded
\* stays of its type.
THEOREM FileOpsTypeCorrect == Spec => []TypeOK
<1>1. IInv => TypeOK  BY IInvImplies
<1> QED  BY <1>1, AlwaysIInv, PTL

\* No path is ever in the move register twice.
THEOREM RegisterNeverHasDuplicates == Spec => []RegisterHasNoDuplicates
<1>1. IInv => RegisterHasNoDuplicates  BY IInvImplies
<1> QED  BY <1>1, AlwaysIInv, PTL

----------------------------------------------------------------------------
(* The stacks of the files buffer are those of UndoHistory: every command   *)
(* records, undoes and redoes as it says, and nothing else touches them.    *)

\* The theorems about the history, with the bounds of the files buffer.
Stacks == INSTANCE UndoHistory_proofs WITH MaxItems <- MaxFiles, MaxBatch <- MaxCommands

\* The bounds here are bounds there.
LEMMA BoundsHere == Stacks!BoundsAssumption
BY FileOpsAssumption DEF Stacks!BoundsAssumption

\* What a call records is what UndoHistory lets a call record.
LEMMA SomeItemsHere ==
  ASSUME NEW items \in Seq(Items), items # <<>>, Len(items) <= MaxFiles
  PROVE  items \in H!SomeItems
<1>1. Len(items) \in 0..MaxFiles /\ items \in [1..Len(items) -> Items]
  BY LenProperties, FileOpsAssumption
<1>2. H!BoundedSeq(Items, MaxFiles) = UNION {[1..m -> Items] : m \in 0..MaxFiles}
  BY DEF H!BoundedSeq, H!SeqOf
<1> QED  BY <1>1, <1>2 DEF H!SomeItems

\* Every step is one of the history, or leaves it alone.
LEMMA HistoryStep ==
  ASSUME IInv, [Next]_vars
  PROVE  [H!Next]_(H!vars)
<1> DEFINE Goal == H!Next \/ UNCHANGED history
<1> SUFFICES Goal  BY DEF history, H!vars
<1>1. TypeOK /\ entries \in Seq(Entry)  BY IInvImplies DEF IInv, FilesOK
<1>2. ASSUME NEW e \in ToSet(entries), NEW name \in NewNames, RenameEntry(e, name) PROVE Goal
  <2> DEFINE item == Item(cwd, e.name, name, <<>>)
  <2>1. e.name \in Name /\ name \in Name \cup {NoName} /\ cwd \in Written
    <3>1. e \in Entry  BY <1>1, InSet
    <3>2. cwd \in Path  BY DEF IInv, FilesOK
    <3> QED  BY <3>1, <3>2, PathIsWritten, FileOpsAssumption DEF Entry
  <2>2. item \in Items  BY <2>1, ItemType, RootIsWritten
  <2>3. H!Record("RENAME", <<item>>)  BY <1>2 DEF RenameEntry
  <2> QED  BY <2>2, <2>3 DEF H!Next
<1>3. ASSUME NEW sel \in Selections, Trash(sel) PROVE Goal
  <2> DEFINE items == FoldLeft(TrashOne, [fs |-> fs, items |-> <<>>], sel).items
  <2>1. sel \in Seq(Entry) /\ Len(sel) \in 1..MaxFiles  BY <1>1, SelectionsType
  <2>2. items \in Seq(Items) /\ Len(items) = Len(sel)  BY <1>1, <2>1, TrashLoop
  <2>3. H!Record("TRASH", items)  BY <1>3 DEF Trash
  <2> HIDE DEF items
  <2>4. items \in H!SomeItems  BY <2>1, <2>2, SomeItemsHere, EmptySeq, FileOpsAssumption
  <2> QED  BY <2>3, <2>4 DEF H!Next
<1>4. ASSUME NEW sel \in Selections, Delete(sel) PROVE Goal
  <2> DEFINE items == FoldLeft(DeleteOne, [fs |-> fs, items |-> <<>>], sel).items
  <2>1. sel \in Seq(Entry) /\ Len(sel) \in 1..MaxFiles  BY <1>1, SelectionsType
  <2>2. items \in Seq(Items) /\ Len(items) = Len(sel)  BY <1>1, <2>1, DeleteLoop
  <2>3. H!Record("DELETE_PERM", items)  BY <1>4 DEF Delete
  <2> HIDE DEF items
  <2>4. items \in H!SomeItems  BY <2>1, <2>2, SomeItemsHere, EmptySeq, FileOpsAssumption
  <2> QED  BY <2>3, <2>4 DEF H!Next
<1>5. ASSUME NEW dest \in PasteTargets, Paste(dest) PROVE Goal
  <2> DEFINE items == Pasted(dest).items
  <2>1. items \in Seq(Items) /\ Len(items) <= Len(move_reg)  BY TargetsWritten, PastedOK
  <2>2. IF items = <<>> THEN UNCHANGED history ELSE H!Paste(items)  BY <1>5 DEF Paste
  <2>3. Len(move_reg) \in Nat /\ Len(move_reg) <= MaxFiles
    BY LenProperties, FileOpsAssumption DEF IInv, Register
  <2> HIDE DEF items
  <2>4. Len(items) <= MaxFiles  BY <2>1, <2>3, LenProperties, FileOpsAssumption
  <2>5. items # <<>> => items \in H!SomeItems  BY <2>1, <2>4, SomeItemsHere
  <2> QED  BY <2>2, <2>5 DEF H!Next
<1>6. ASSUME NEW k \in 1..Len(undo_stack), Undo(k) PROVE Goal
  BY <1>6 DEF Undo, H!Next
<1>7. ASSUME NEW k \in 1..Len(redo_stack), Redo(k) PROVE Goal
  BY <1>7 DEF Redo, H!Next
<1>8. ASSUME \/ \E p \in Places : Visit(p)
             \/ Refresh
             \/ \E e \in ToSet(entries) : Mark(e)
             \/ \E sel \in Selections : MarkAll(sel)
             \/ ClearRegister
             \/ \E p \in DOMAIN fs \ {Root} : ForeignRemove(p)
             \/ \E p \in FreePaths : ForeignCreate(p)
             \/ Tick
             \/ UNCHANGED vars
      PROVE  Goal
  BY <1>8 DEF Visit, Refresh, Mark, MarkAll, ClearRegister, ForeignRemove, ForeignCreate,
              Tick, vars, history
<1> HIDE DEF Goal
<1> QED  BY <1>2, <1>3, <1>4, <1>5, <1>6, <1>7, <1>8 DEF Next

\* Whatever is renamed, trashed, deleted, pasted, undone and redone, and
\* whatever else is done in between, the two stacks change as push_undo,
\* files_undo and files_redo alone would change them (file.c:43-60, 1012-1160).
THEOREM FileOpsKeepsHistory == Spec => H!Spec
<1>1. Init => H!Init  BY DEF Init
<1>2. IInv /\ [Next]_vars => [H!Next]_(H!vars)  BY HistoryStep
<1> QED  BY <1>1, <1>2, AlwaysIInv, PTL DEF Spec, H!Spec

\* H and P are the same specification.
LEMMA SameHistory == Stacks!Spec <=> H!Spec
<1>1. Stacks!Init <=> H!Init  BY DEF Stacks!Init, H!Init
<1>2. Stacks!Next <=> H!Next
  BY DEF Stacks!Next, H!Next, Stacks!Record, H!Record, Stacks!Undo, H!Undo, Stacks!Redo, H!Redo, Stacks!Paste, H!Paste,
         Stacks!SomeItems, H!SomeItems, Stacks!BoundedSeq, H!BoundedSeq, Stacks!SeqOf, H!SeqOf,
         Stacks!Push, H!Push, Stacks!Ops, H!Ops, Stacks!OpOf, H!OpOf,
         Stacks!Pushed, H!Pushed, Stacks!Overflow, H!Overflow, Stacks!Capped, H!Capped, Stacks!Top, H!Top,
         Stacks!Without, H!Without, Stacks!IsGroup, H!IsGroup, Stacks!Reverse, H!Reverse
<1>3. [Stacks!Next]_(Stacks!vars) <=> [H!Next]_(H!vars)  BY <1>2 DEF Stacks!vars, H!vars
<1> QED  BY <1>1, <1>3, PTL DEF Stacks!Spec, H!Spec

\* So the stacks of the files buffer never hold more than UNDO_MAX together,
\* the ids of their batches grow, and no paste is ever half undone.
THEOREM FileOpsStacksFit == Spec => [](H!StacksFit /\ H!BatchesOrdered /\ H!BatchNotSplit)
<1>1. Stacks!Spec => []Stacks!StacksFit  BY Stacks!StacksAlwaysFit, BoundsHere
<1>2. Stacks!Spec => []Stacks!BatchesOrdered  BY Stacks!BatchesAlwaysOrdered, BoundsHere
<1>3. Stacks!Spec => []Stacks!BatchNotSplit  BY Stacks!BatchNeverSplit, BoundsHere
<1>4. Stacks!StacksFit <=> H!StacksFit  BY DEF Stacks!StacksFit, H!StacksFit
<1>5. Stacks!BatchesOrdered <=> H!BatchesOrdered
  BY DEF Stacks!BatchesOrdered, H!BatchesOrdered, Stacks!Timeline, H!Timeline, Stacks!Reverse, H!Reverse
<1>6. Stacks!BatchNotSplit <=> H!BatchNotSplit
  BY DEF Stacks!BatchNotSplit, H!BatchNotSplit, Stacks!SameBatch, H!SameBatch, Stacks!Last, H!Last
<1> QED  BY <1>1, <1>2, <1>3, <1>4, <1>5, <1>6, SameHistory, FileOpsKeepsHistory, PTL

\* Walking up and down the history with u and U loses, doubles and reorders
\* nothing, and one u after a paste takes back all of it that is on the stack.
THEOREM FileOpsHistoryKept == Spec => H!HistoryKept /\ H!PasteIsOneGroup
<1> DEFINE WalkP == \/ \E k \in 1..Len(undo_stack) : Stacks!Undo(k)
                    \/ \E k \in 1..Len(redo_stack) : Stacks!Redo(k)
           WalkH == \/ \E k \in 1..Len(undo_stack) : H!Undo(k)
                    \/ \E k \in 1..Len(redo_stack) : H!Redo(k)
           PastesP == \A items \in Stacks!SomeItems :
                        Stacks!Paste(items) =>
                          \E k \in 1..Len(undo_stack') :
                            /\ Stacks!IsGroup(undo_stack', k)
                            /\ k = IF Len(items) <= UndoMax THEN Len(items) ELSE UndoMax
           PastesH == \A items \in H!SomeItems :
                        H!Paste(items) =>
                          \E k \in 1..Len(undo_stack') :
                            /\ H!IsGroup(undo_stack', k)
                            /\ k = IF Len(items) <= UndoMax THEN Len(items) ELSE UndoMax
<1>1. Stacks!Spec => Stacks!HistoryKept  BY Stacks!HistoryAlwaysKept, BoundsHere
<1>2. Stacks!Spec => Stacks!PasteIsOneGroup  BY Stacks!PasteAlwaysOneGroup, BoundsHere
<1>3. Stacks!Timeline = H!Timeline /\ (Stacks!Timeline)' = (H!Timeline)'
  BY DEF Stacks!Timeline, H!Timeline, Stacks!Reverse, H!Reverse
<1>4. WalkP <=> WalkH
  BY DEF Stacks!Undo, H!Undo, Stacks!Redo, H!Redo, Stacks!IsGroup, H!IsGroup, Stacks!Without, H!Without,
         Stacks!Capped, H!Capped, Stacks!Overflow, H!Overflow, Stacks!Top, H!Top, Stacks!Reverse, H!Reverse
<1>5. PastesP <=> PastesH
  BY DEF Stacks!SomeItems, H!SomeItems, Stacks!BoundedSeq, H!BoundedSeq, Stacks!SeqOf, H!SeqOf,
         Stacks!Paste, H!Paste, Stacks!Push, H!Push, Stacks!Ops, H!Ops, Stacks!OpOf, H!OpOf, Stacks!Pushed, H!Pushed,
         Stacks!Overflow, H!Overflow, Stacks!IsGroup, H!IsGroup
<1>6. [WalkP => (Stacks!Timeline)' = Stacks!Timeline]_(Stacks!vars)
        <=> [WalkH => (H!Timeline)' = H!Timeline]_(H!vars)
  <2> HIDE DEF WalkP, WalkH
  <2> QED  BY <1>3, <1>4 DEF Stacks!vars, H!vars
<1>7. [PastesP]_(Stacks!vars) <=> [PastesH]_(H!vars)
  <2> HIDE DEF PastesP, PastesH
  <2> QED  BY <1>5 DEF Stacks!vars, H!vars
<1>8. Stacks!HistoryKept => H!HistoryKept  BY <1>6, PTL DEF Stacks!HistoryKept, H!HistoryKept
<1>9. Stacks!PasteIsOneGroup => H!PasteIsOneGroup
  BY <1>7, PTL DEF Stacks!PasteIsOneGroup, H!PasteIsOneGroup
<1> QED  BY <1>1, <1>2, <1>8, <1>9, SameHistory, FileOpsKeepsHistory, PTL

----------------------------------------------------------------------------
(* What a paste does to the files.                                         *)

\* A move to a place that is free loses nothing.
LEMMA MovedIsAll ==
  ASSUME NEW f, FsOK(f), NEW src \in Path, NEW dst \in Path, ~Exists(f, dst)
  PROVE  LET g == Renamed(f, src, dst) IN
         Contents(g) = Contents(f) /\ Cardinality(DOMAIN g) = Cardinality(DOMAIN f)
<1> DEFINE tree == Tree(f, src)
           rest == DOMAIN f \ tree
           moved == {To(src, dst, q) : q \in tree}
           g == Renamed(f, src, dst)
           to == [q \in tree |-> To(src, dst, q)]
<1>1. Tree(f, dst) = {}  BY TreeOfNone
<1>2. /\ DOMAIN g = rest \cup moved
      /\ \A q \in tree : g[To(src, dst, q)] = f[q]
      /\ \A q \in rest : g[q] = f[q]
      /\ \A q \in moved : IsPrefix(dst, q)
  <2> HIDE DEF g
  <2> QED  BY <1>1, RenamedFacts DEF g
<1>3. tree \subseteq DOMAIN f  BY DEF Tree
<1> HIDE DEF g
<1>4. Contents(g) = Contents(f)
  <2>1. {g[q] : q \in DOMAIN g} = {f[q] : q \in DOMAIN f}
    <3> HIDE DEF tree
    <3> QED  BY <1>2, <1>3
  <2> QED  BY <2>1 DEF Contents
<1>5. to \in Bijection(tree, moved)
  <2>1. \A q \in tree : To(dst, src, to[q]) = q
    <3> SUFFICES ASSUME NEW q \in tree PROVE To(dst, src, To(src, dst, q)) = q  OBVIOUS
    <3>1. q \in Seq(Name) /\ IsPrefix(src, q) /\ src \in Seq(Name) /\ dst \in Seq(Name)
      BY DEF Tree, FsOK, Path
    <3> QED  BY <3>1, ToFacts
  <2> HIDE DEF tree
  <2> QED  BY <2>1 DEF Bijection, Injection, Surjection, IsInjective
<1>6. rest \cap moved = {}
  <2>1. \A q \in rest : ~IsPrefix(dst, q)  BY <1>1 DEF Tree
  <2> QED  BY <1>2, <2>1
<1>7. IsFiniteSet(tree) /\ IsFiniteSet(rest)  BY <1>3, FS_Subset DEF FsOK
<1>8. IsFiniteSet(moved) /\ Cardinality(moved) = Cardinality(tree)
  <2> HIDE DEF tree, moved, to
  <2>1. ExistsBijection(tree, moved)  BY <1>5 DEF ExistsBijection
  <2> QED  BY <1>7, <2>1, FS_Bijection
<1>9. rest \cap tree = {} /\ rest \cup tree = DOMAIN f  BY <1>3
<1> HIDE DEF tree, rest, moved
<1>10. Cardinality(DOMAIN g) = Cardinality(rest) + Cardinality(moved) - Cardinality({})
  BY <1>2, <1>6, <1>7, <1>8, FS_Union
<1>11. Cardinality(DOMAIN f) = Cardinality(rest) + Cardinality(tree) - Cardinality({})
  BY <1>7, <1>9, FS_Union
<1> QED  BY <1>4, <1>8, <1>10, <1>11 DEF g

\* A round of files_move_paste: the path is dropped, kept, or moved to a place
\* that was free.
PasteMoves(w, v, src) ==
  LET dst == Append(w.dest, Last(src)) IN
  /\ ~Exists(w.fs, Resolve(dst)) /\ CanRename(w.fs, Resolve(src), Resolve(dst))
  /\ v.fs = Renamed(w.fs, Resolve(src), Resolve(dst)) /\ v.kept = w.kept
  /\ v.items = Append(w.items, Item(w.dest, Last(src), <<>>, src))

\* There is no fourth case.
LEMMA PasteCases ==
  ASSUME NEW w \in PasteRounds, NEW src \in Written \ {Root}
  PROVE  LET v == PasteOne(w, src) IN
         \/ src = Append(w.dest, Last(src)) /\ v = w
         \/ v.fs = w.fs /\ v.items = w.items /\ v.kept = Append(w.kept, src)
         \/ PasteMoves(w, v, src)
<1> DEFINE dst == Append(w.dest, Last(src))
           stays == \/ IsPrefix(src, w.dest)
                    \/ Exists(w.fs, Resolve(dst))
                    \/ ~CanRename(w.fs, Resolve(src), Resolve(dst))
           kept2 == Append(w.kept, src)
           items2 == Append(w.items, Item(w.dest, Last(src), <<>>, src))
           fs2 == Renamed(w.fs, Resolve(src), Resolve(dst))
           v == PasteOne(w, src)
<1>1. v = IF src = dst THEN w
          ELSE IF stays THEN [w EXCEPT !.kept = kept2]
          ELSE [w EXCEPT !.fs = fs2, !.items = items2]
  BY DEF PasteOne
<1>2. w = [dest |-> w.dest, fs |-> w.fs, kept |-> w.kept, items |-> w.items]
  BY DEF PasteRounds
<1>3. CASE src = dst  BY <1>1, <1>3
<1>4. CASE src # dst /\ stays
  <2> HIDE DEF stays, kept2, v
  <2>1. v.fs = w.fs /\ v.items = w.items /\ v.kept = kept2  BY <1>1, <1>2, <1>4
  <2> QED  BY <2>1 DEF kept2, v
<1>5. CASE src # dst /\ ~stays
  <2>1. ~Exists(w.fs, Resolve(dst)) /\ CanRename(w.fs, Resolve(src), Resolve(dst))  BY <1>5
  <2> HIDE DEF stays, fs2, items2, v
  <2>2. v.fs = fs2 /\ v.kept = w.kept /\ v.items = items2  BY <1>1, <1>2, <1>5
  <2>3. PasteMoves(w, v, src)
    <3> HIDE DEF dst
    <3> QED  BY <2>1, <2>2 DEF PasteMoves, fs2, items2, dst
  <2> QED  BY <2>3 DEF v
<1> QED  BY <1>3, <1>4, <1>5

\* So does a whole paste: every round moves to a free place or nothing at all.
LEMMA PasteKeepsFiles ==
  ASSUME IInv, NEW dest \in PasteTargets, Paste(dest)
  PROVE  /\ Contents(fs') = Contents(fs)
         /\ Cardinality(DOMAIN fs') = Cardinality(DOMAIN fs)
<1> DEFINE n == Len(move_reg)
           All(f) == Contents(f) = Contents(fs) /\ Cardinality(DOMAIN f) = Cardinality(DOMAIN fs)
<1>1. PICK run : PasteOneRun(PasteRounds, PasteBase(dest), move_reg, run)
  BY TargetsWritten, PasteLoop
<1>2. /\ run[0] = PasteBase(dest) /\ run[n] = Pasted(dest)
      /\ \A k \in 0..n : run[k] \in PasteRounds
      /\ \A k \in 1..n : run[k] = PasteOne(run[k - 1], move_reg[k])
  BY <1>1 DEF PasteOneRun, Pasted, PasteBase
<1>3. n \in Nat /\ \A k \in 1..n : move_reg[k] \in Written \ {Root}
  BY LenProperties, ElementOfSeq DEF IInv, Register
<1> DEFINE P == [k \in 0..n |-> All(run[k].fs)]
<1> HIDE DEF n
<1>4. P[0]
  <2>1. run[0].fs = fs /\ 0 \in 0..n  BY <1>2, <1>3 DEF PasteBase
  <2> QED  BY <2>1
<1>5. \A k \in 1..n : P[k - 1] => P[k]
  <2> SUFFICES ASSUME NEW k \in 1..n, P[k - 1] PROVE P[k]  OBVIOUS
  <2>1. k - 1 \in 0..n /\ k \in 0..n  BY <1>3
  <2> DEFINE w == run[k - 1]
             v == run[k]
             src == move_reg[k]
             dst == Append(w.dest, Last(src))
  <2>2. w \in PasteRounds /\ src \in Written \ {Root} /\ v = PasteOne(w, src) /\ All(w.fs)
    BY <1>2, <1>3, <2>1
  <2> SUFFICES All(v.fs)  BY <2>1
  <2> HIDE DEF All, w, v, src
  <2>3. v = w \/ v.fs = w.fs \/ PasteMoves(w, v, src)  BY <2>2, PasteCases
  <2>4. ASSUME PasteMoves(w, v, src) PROVE All(v.fs)
    <3>1. FsOK(w.fs) /\ w.dest \in Written /\ Last(src) \in Name
      BY <2>2, IsFileSystem, WrittenFacts DEF PasteRounds
    <3>2. dst \in Written  BY <3>1, WrittenIn
    <3>3. Resolve(src) \in Path /\ Resolve(dst) \in Path
      BY <2>2, <3>2, WrittenFacts
    <3>4. ~Exists(w.fs, Resolve(dst)) /\ v.fs = Renamed(w.fs, Resolve(src), Resolve(dst))
      BY <2>4 DEF PasteMoves
    <3> HIDE DEF dst
    <3>5. Contents(v.fs) = Contents(w.fs) /\ Cardinality(DOMAIN v.fs) = Cardinality(DOMAIN w.fs)
      BY <3>1, <3>3, <3>4, MovedIsAll
    <3> QED  BY <2>2, <3>5 DEF All
  <2> QED  BY <2>2, <2>3, <2>4
<1>6. \A k \in 0..n : P[k]
  <2> HIDE DEF P
  <2> QED  BY <1>3, <1>4, <1>5, Climb
<1>7. All(run[n].fs)
  <2>1. n \in 0..n  BY <1>3
  <2> QED  BY <1>6, <2>1
<1>8. fs' = Pasted(dest).fs  BY DEF Paste
<1> QED  BY <1>2, <1>7, <1>8

\* Every content and every directory there before a paste is there after it
\* (the stat of file.c:1463).
THEOREM PasteNeverLoses == Spec => PasteLosesNothing
<1> DEFINE Kept == \A dest \in PasteTargets :
                     Paste(dest) => /\ Contents(fs') = Contents(fs)
                                    /\ Cardinality(DOMAIN fs') = Cardinality(DOMAIN fs)
<1>1. IInv => Kept  BY PasteKeepsFiles
<1>2. PasteLosesNothing <=> [][Kept]_vars  BY PTL DEF PasteLosesNothing
<1>3. IInv => [Kept]_vars  BY <1>1
<1> HIDE DEF Kept
<1> QED  BY <1>2, <1>3, AlwaysIInv, PTL

\* What is there after a move to a place that was free.
LEMMA RenamedDomain ==
  ASSUME NEW f, FsOK(f), NEW src \in Path, NEW dst \in Path, ~Exists(f, dst)
  PROVE  LET g == Renamed(f, src, dst) IN
         /\ \A q \in DOMAIN f \ Tree(f, src) :
              q \in DOMAIN g /\ g[q] = f[q] /\ ~IsPrefix(dst, q)
         /\ \A q \in Tree(f, src) :
              /\ To(src, dst, q) \in DOMAIN g /\ g[To(src, dst, q)] = f[q]
              /\ IsPrefix(dst, To(src, dst, q))
         /\ \A r \in DOMAIN g :
              r \in DOMAIN f \ Tree(f, src) \/ \E q \in Tree(f, src) : r = To(src, dst, q)
<1> DEFINE tree == Tree(f, src)
           rest == DOMAIN f \ tree
           moved == {To(src, dst, q) : q \in tree}
           g == Renamed(f, src, dst)
<1>1. Tree(f, dst) = {}  BY TreeOfNone
<1>2. /\ DOMAIN g = rest \cup moved
      /\ \A q \in tree : g[To(src, dst, q)] = f[q]
      /\ \A q \in rest : g[q] = f[q]
      /\ \A q \in moved : IsPrefix(dst, q)
  <2> HIDE DEF g
  <2> QED  BY <1>1, RenamedFacts DEF g
<1>3. \A q \in rest : ~IsPrefix(dst, q)  BY <1>1 DEF Tree
<1> HIDE DEF g, tree
<1> QED  BY <1>2, <1>3 DEF g, tree

\* What was put or left in the directory of a paste is not moved out of it again.
LEMMA StaysThere ==
  ASSUME NEW f, FsOK(f), NEW src \in Path, NEW d \in Path, NEW m \in Name,
         CanRename(f, src, Append(d, Last(src))), ~Exists(f, Append(d, Last(src)))
  PROVE  LET g == Renamed(f, src, Append(d, Last(src))) IN
         /\ Exists(g, Append(d, Last(src)))
         /\ Exists(f, Append(d, m)) => Exists(g, Append(d, m))
<1> DEFINE n == Last(src)
           dst == Append(d, n)
           at == Append(d, m)
           g == Renamed(f, src, dst)
<1>1. src \in DOMAIN f /\ src # Root /\ ~IsStrictPrefix(src, dst)
  BY DEF CanRename, Exists
<1>2. src \in Seq(Name) /\ src # <<>> /\ n \in Name /\ d \in Seq(Name)
  BY <1>1, FrontLast DEF Path, Root
<1>3. /\ dst \in Path /\ dst \in Seq(Name) /\ dst # <<>> /\ Front(dst) = d
      /\ at \in Path /\ at \in Seq(Name) /\ at # <<>> /\ Front(at) = d /\ Last(at) = m
  <2> HIDE DEF n
  <2> QED  BY <1>2, AppendFacts DEF Path
<1>4. /\ \A r \in DOMAIN f \ Tree(f, src) : r \in DOMAIN g
      /\ \A r \in Tree(f, src) : To(src, dst, r) \in DOMAIN g
  <2> HIDE DEF dst
  <2>1. ~Exists(f, dst)  BY DEF dst
  <2> QED  BY <1>3, <2>1, RenamedDomain
<1>5. dst \in DOMAIN g
  <2>1. src \in Tree(f, src)  BY <1>1, <1>2, PrefixTrivial DEF Tree
  <2>2. To(src, dst, src) = dst
    <3> HIDE DEF dst
    <3>1. IsPrefix(src, src)  BY <1>2, PrefixTrivial
    <3> QED  BY <1>2, <1>3, <3>1, ToFacts
  <2> QED  BY <1>4, <2>1, <2>2
<1>6. ASSUME Exists(f, at) PROVE at \in DOMAIN g
  <2>1. at \in DOMAIN f  BY <1>6 DEF Exists
  <2>2. at # src
    <3>1. at = src => m = n  BY <1>3
    <3>2. m = n => at = dst  OBVIOUS
    <3> QED  BY <1>6, <3>1, <3>2
  <2>3. ~IsPrefix(src, at)
    <3> SUFFICES ASSUME IsPrefix(src, at) PROVE FALSE  OBVIOUS
    <3> HIDE DEF at, dst
    <3>1. IsPrefix(src, d)  BY <1>2, <1>3, <2>2, PrefixOfFront
    <3>2. IsPrefix(src, dst)  BY <1>2, <1>3, <3>1, PrefixOfFront
    <3>3. src # dst  BY <1>1 DEF Exists, dst
    <3> QED  BY <1>1, <3>2, <3>3 DEF IsStrictPrefix
  <2>4. at \in DOMAIN f \ Tree(f, src)  BY <2>1, <2>3 DEF Tree
  <2> HIDE DEF g
  <2> QED  BY <1>4, <2>4
<1> HIDE DEF g
<1> QED  BY <1>5, <1>6 DEF Exists, g

\* Moved back, the files are what they were.
LEMMA MovedBack ==
  ASSUME NEW f, FsOK(f), NEW src \in Path, NEW dst \in Path,
         CanRename(f, src, dst), ~Exists(f, dst)
  PROVE  Rename(Renamed(f, src, dst), dst, src) = f
<1> DEFINE tree == Tree(f, src)
           rest == DOMAIN f \ tree
           g == Renamed(f, src, dst)
           h == Renamed(g, dst, src)
<1>1. /\ src \in DOMAIN f /\ src # Root /\ dst # Root
      /\ src \in Seq(Name) /\ dst \in Seq(Name) /\ dst \notin DOMAIN f
  BY DEF CanRename, Exists, Path
<1>2. /\ \A q \in rest : q \in DOMAIN g /\ g[q] = f[q] /\ ~IsPrefix(dst, q)
      /\ \A q \in tree : /\ To(src, dst, q) \in DOMAIN g /\ g[To(src, dst, q)] = f[q]
                         /\ IsPrefix(dst, To(src, dst, q))
      /\ \A r \in DOMAIN g : r \in rest \/ \E q \in tree : r = To(src, dst, q)
  BY RenamedDomain
<1>3. \A q \in tree : To(dst, src, To(src, dst, q)) = q
  <2> SUFFICES ASSUME NEW q \in tree PROVE To(dst, src, To(src, dst, q)) = q  OBVIOUS
  <2>1. q \in Seq(Name) /\ IsPrefix(src, q)  BY DEF Tree, FsOK, Path
  <2> QED  BY <1>1, <2>1, ToFacts
<1>4. FsOK(g)  BY RenamedOK
<1>5. ~IsPrefix(dst, src)  BY <1>1, Ancestors
<1>6. src \in tree /\ To(src, dst, src) = dst
  BY <1>1, PrefixTrivial, ToFacts DEF Tree
<1> HIDE DEF g
<1>7. dst \in DOMAIN g  BY <1>2, <1>6
<1>8. src \notin DOMAIN g
  <2>1. src \notin rest  BY <1>6
  <2>2. \A q \in tree : src # To(src, dst, q)  BY <1>2, <1>5
  <2> QED  BY <1>2, <2>1, <2>2
<1>9. IsDir(g, Front(src))
  <2>1. IsDir(f, Front(src))  BY <1>1 DEF FsOK, IsTree
  <2>2. Front(src) \notin tree
    <3>1. Front(src) \in Seq(Name) /\ Len(Front(src)) = Len(src) - 1 /\ Len(src) \in Nat
      BY <1>1, FrontLast, LenProperties DEF Root
    <3> QED  BY <3>1 DEF Tree, IsPrefix
  <2>3. Front(src) \in rest /\ f[Front(src)] = Dir  BY <2>1, <2>2 DEF IsDir, Exists
  <2> QED  BY <1>2, <2>3 DEF IsDir, Exists
<1>10. CanRename(g, dst, src)
  BY <1>1, <1>5, <1>7, <1>8, <1>9 DEF CanRename, Exists, IsStrictPrefix
<1>11. /\ \A q \in DOMAIN g \ Tree(g, dst) : q \in DOMAIN h /\ h[q] = g[q]
       /\ \A q \in Tree(g, dst) :
            To(dst, src, q) \in DOMAIN h /\ h[To(dst, src, q)] = g[q]
       /\ \A r \in DOMAIN h :
            r \in DOMAIN g \ Tree(g, dst) \/ \E q \in Tree(g, dst) : r = To(dst, src, q)
  BY <1>4, <1>8, RenamedDomain DEF Exists
<1>12. FsOK(h)  BY <1>4, <1>10, RenamedOK
<1> HIDE DEF h, tree
<1>13. \A q \in rest : q \in DOMAIN g \ Tree(g, dst)  BY <1>2 DEF Tree
<1>14. \A q \in tree : To(src, dst, q) \in Tree(g, dst)  BY <1>2 DEF Tree
<1>15. \A q \in rest : q \in DOMAIN h /\ h[q] = f[q]  BY <1>2, <1>11, <1>13
<1>16. \A q \in tree : q \in DOMAIN h /\ h[q] = f[q]
  <2> TAKE q \in tree
  <2> DEFINE r == To(src, dst, q)
  <2>1. r \in Tree(g, dst) /\ To(dst, src, r) = q /\ g[r] = f[q]  BY <1>2, <1>3, <1>14
  <2> HIDE DEF r
  <2> QED  BY <1>11, <2>1
<1>17. \A r \in DOMAIN h : r \in DOMAIN f
  <2> SUFFICES ASSUME NEW r \in DOMAIN h PROVE r \in DOMAIN f  OBVIOUS
  <2>1. \A q \in tree : q \in DOMAIN f  BY DEF tree, Tree
  <2>2. CASE r \in DOMAIN g \ Tree(g, dst)
    <3>1. \A q \in tree : r # To(src, dst, q)  BY <1>14, <2>2
    <3> QED  BY <1>2, <2>2, <3>1
  <2>3. CASE \E q \in Tree(g, dst) : r = To(dst, src, q)
    <3>1. PICK q \in Tree(g, dst) : r = To(dst, src, q)  BY <2>3
    <3>2. q \in DOMAIN g /\ IsPrefix(dst, q)  BY DEF Tree
    <3>3. PICK p \in tree : q = To(src, dst, p)  BY <1>2, <3>2
    <3> QED  BY <1>3, <2>1, <3>1, <3>3
  <2> QED  BY <1>11, <2>2, <2>3
<1>18. DOMAIN h = DOMAIN f /\ \A q \in DOMAIN f : h[q] = f[q]
  BY <1>15, <1>16, <1>17
<1>19. h \in [DOMAIN f -> Content] /\ f \in [DOMAIN f -> Content]
  BY <1>12, <1>18 DEF FsOK
<1>20. h = f  BY <1>18, <1>19
<1> QED  BY <1>10, <1>20 DEF Rename, g, h

\* A path that is not in the register any more was in the directory already, or
\* is there now and recorded.
Accounted(w, p) ==
  \/ p \in ToSet(w.kept)
  \/ p = Append(w.dest, Last(p))
  \/ /\ Exists(w.fs, Resolve(Append(w.dest, Last(p))))
     /\ Item(w.dest, Last(p), <<>>, p) \in ToSet(w.items)

\* A round accounts for its path and leaves the others accounted for.
LEMMA AccountedOn ==
  ASSUME NEW w \in PasteRounds, NEW src \in Written \ {Root}
  PROVE  LET v == PasteOne(w, src) IN
         /\ Accounted(v, src)
         /\ \A p \in Written \ {Root} : Accounted(w, p) => Accounted(v, p)
<1> DEFINE v == PasteOne(w, src)
           n == Last(src)
           dst == Append(w.dest, n)
           d == Resolve(w.dest)
           item == Item(w.dest, n, <<>>, src)
<1>1. /\ w.dest \in Written /\ FsOK(w.fs) /\ w.kept \in Seq(Written \ {Root})
      /\ w.items \in Seq(Items) /\ d \in Path
  BY IsFileSystem, WrittenFacts DEF PasteRounds
<1>2. v.dest = w.dest  BY PasteOneOK
<1>3. n \in Name /\ Resolve(src) \in Path /\ Last(Resolve(src)) = n  BY WrittenFacts
<1>4. \A m \in Name : Resolve(Append(w.dest, m)) = Append(d, m)  BY <1>1, WrittenIn
<1>5. item \in Items  BY <1>1, <1>3, ItemType, NoNewName
<1>6. \/ src = dst /\ v = w
      \/ v.fs = w.fs /\ v.items = w.items /\ v.kept = Append(w.kept, src)
      \/ PasteMoves(w, v, src)
  BY PasteCases
<1> HIDE DEF v
<1>7. CASE src = dst /\ v = w  BY <1>7 DEF Accounted, v
<1>8. CASE v.fs = w.fs /\ v.items = w.items /\ v.kept = Append(w.kept, src)
  <2>1. ToSet(v.kept) = ToSet(w.kept) \cup {src}  BY <1>1, <1>8, AppendNew
  <2> QED  BY <1>2, <1>8, <2>1 DEF Accounted, v
<1>9. CASE PasteMoves(w, v, src)
  <2>1. /\ ~Exists(w.fs, Append(d, n)) /\ CanRename(w.fs, Resolve(src), Append(d, n))
        /\ v.fs = Renamed(w.fs, Resolve(src), Append(d, n)) /\ v.kept = w.kept
        /\ v.items = Append(w.items, item)
    BY <1>3, <1>4, <1>9 DEF PasteMoves
  <2>2. ToSet(v.items) = ToSet(w.items) \cup {item}
    <3> HIDE DEF item
    <3> QED  BY <1>1, <1>5, <2>1, AppendNew
  <2>3. /\ Exists(v.fs, Append(d, n))
        /\ \A m \in Name : Exists(w.fs, Append(d, m)) => Exists(v.fs, Append(d, m))
    <3> DEFINE r == Resolve(src)
    <3>1. r \in Path /\ Last(r) = n  BY <1>3
    <3> HIDE DEF r, d, n
    <3>2. /\ ~Exists(w.fs, Append(d, Last(r))) /\ CanRename(w.fs, r, Append(d, Last(r)))
          /\ v.fs = Renamed(w.fs, r, Append(d, Last(r)))
      BY <2>1, <3>1 DEF r
    <3>3. \A m \in Name : /\ Exists(v.fs, Append(d, Last(r)))
                          /\ Exists(w.fs, Append(d, m)) => Exists(v.fs, Append(d, m))
      BY <1>1, <3>1, <3>2, StaysThere
    <3> QED  BY <1>3, <3>1, <3>3
  <2>4. Accounted(v, src)  BY <1>2, <1>3, <1>4, <2>2, <2>3 DEF Accounted
  <2>5. ASSUME NEW p \in Written \ {Root}, Accounted(w, p) PROVE Accounted(v, p)
    <3>1. Last(p) \in Name  BY WrittenFacts
    <3> HIDE DEF d, item
    <3> QED  BY <1>2, <1>4, <2>1, <2>2, <2>3, <2>5, <3>1 DEF Accounted
  <2> QED  BY <2>4, <2>5 DEF v
<1> QED  BY <1>6, <1>7, <1>8, <1>9

\* So the whole paste accounts for every path.
LEMMA PasteAccounts ==
  ASSUME IInv, NEW dest \in PasteTargets, NEW p \in ToSet(move_reg)
  PROVE  Accounted(Pasted(dest), p)
<1> DEFINE n == Len(move_reg)
<1>1. PICK run : PasteOneRun(PasteRounds, PasteBase(dest), move_reg, run)
  BY TargetsWritten, PasteLoop
<1>2. /\ run[n] = Pasted(dest)
      /\ \A k \in 0..n : run[k] \in PasteRounds
      /\ \A k \in 1..n : run[k] = PasteOne(run[k - 1], move_reg[k])
  BY <1>1 DEF PasteOneRun, Pasted, PasteBase
<1>3. /\ n \in Nat /\ \A k \in 1..n : move_reg[k] \in Written \ {Root}
      /\ \E j \in 1..n : p = move_reg[j]
  BY InSet, LenProperties, ElementOfSeq DEF IInv, Register
<1>4. PICK j \in 1..n : p = move_reg[j]  BY <1>3
<1> DEFINE Told(k) == j <= k => Accounted(run[k], p)
           P == [k \in 0..n |-> Told(k)]
<1> HIDE DEF n, Told
<1>5. P[0]
  <2>1. 0 \in 0..n /\ Told(0)  BY <1>3 DEF Told
  <2> QED  BY <2>1
<1>6. \A k \in 1..n : P[k - 1] => P[k]
  <2> SUFFICES ASSUME NEW k \in 1..n, P[k - 1] PROVE P[k]  OBVIOUS
  <2>1. k - 1 \in 0..n /\ k \in 0..n /\ Told(k - 1)
    <3>1. k - 1 \in 0..n /\ k \in 0..n  BY <1>3
    <3> QED  BY <3>1
  <2> SUFFICES ASSUME j <= k PROVE Accounted(run[k], p)
    <3>1. Told(k)  BY DEF Told
    <3> QED  BY <2>1, <3>1
  <2>2. run[k - 1] \in PasteRounds /\ run[k] = PasteOne(run[k - 1], move_reg[k])
        /\ move_reg[k] \in Written \ {Root} /\ p \in Written \ {Root}
    BY <1>2, <1>3, <1>4, <2>1
  <2>3. CASE j = k  BY <1>4, <2>2, <2>3, AccountedOn
  <2>4. CASE j # k
    <3>1. j <= k - 1  BY <1>3, <2>4
    <3>2. Accounted(run[k - 1], p)  BY <2>1, <3>1 DEF Told
    <3> QED  BY <2>2, <3>2, AccountedOn
  <2> QED  BY <2>3, <2>4
<1>7. \A k \in 0..n : P[k]
  <2> HIDE DEF P
  <2> QED  BY <1>3, <1>5, <1>6, Climb
<1>8. n \in 0..n /\ j <= n  BY <1>3
<1>9. Told(n)  BY <1>7, <1>8
<1> QED  BY <1>2, <1>8, <1>9 DEF Told

\* The target stays the same through the paste.
LEMMA PastedDest ==
  ASSUME IInv, NEW dest \in PasteTargets
  PROVE  Pasted(dest).dest = dest
<1> DEFINE n == Len(move_reg)
<1>1. PICK run : PasteOneRun(PasteRounds, PasteBase(dest), move_reg, run)
  BY TargetsWritten, PasteLoop
<1>2. /\ run[0] = PasteBase(dest) /\ run[n] = Pasted(dest)
      /\ \A k \in 0..n : run[k] \in PasteRounds
      /\ \A k \in 1..n : run[k] = PasteOne(run[k - 1], move_reg[k])
  BY <1>1 DEF PasteOneRun, Pasted, PasteBase
<1>3. n \in Nat /\ \A k \in 1..n : move_reg[k] \in Written \ {Root}
  BY LenProperties, ElementOfSeq DEF IInv, Register
<1> DEFINE P == [k \in 0..n |-> run[k].dest = dest]
<1> HIDE DEF n
<1>4. P[0]
  <2>1. run[0].dest = dest /\ 0 \in 0..n  BY <1>2, <1>3 DEF PasteBase
  <2> QED  BY <2>1
<1>5. \A k \in 1..n : P[k - 1] => P[k]
  <2> SUFFICES ASSUME NEW k \in 1..n, P[k - 1] PROVE P[k]  OBVIOUS
  <2>1. k - 1 \in 0..n /\ k \in 0..n  BY <1>3
  <2>2. run[k].dest = run[k - 1].dest  BY <1>2, <1>3, <2>1, PasteOneOK
  <2> QED  BY <2>1, <2>2
<1>6. \A k \in 0..n : P[k]
  <2> HIDE DEF P
  <2> QED  BY <1>3, <1>4, <1>5, Climb
<1>7. n \in 0..n  BY <1>3
<1> QED  BY <1>2, <1>6, <1>7

\* What a paste records is on the undo stack, or the stack is full of it.
LEMMA BatchOnStack ==
  ASSUME StacksNamed, NEW items \in Seq(Items), H!Paste(items), NEW it \in ToSet(items)
  PROVE  LET batch == {op \in ToSet(undo_stack') :
                         op.type = "MOVE" /\ op.batch_id = move_batch_id'}
         IN  \/ \E op \in batch : op.item = it
             \/ Len(undo_stack') = UndoMax /\ ToSet(undo_stack') = batch
<1> DEFINE b == move_batch_id + 1
           ops == H!Ops("MOVE", b, items)
           h == Len(undo_stack)
           l == Len(items)
           d == H!Overflow(h + l)
           all == undo_stack \o ops
           new == SubSeq(all, d + 1, h + l)
           batch == {op \in ToSet(undo_stack') : op.type = "MOVE" /\ op.batch_id = b}
<1>1. undo_stack' = H!Pushed(undo_stack, ops) /\ move_batch_id' = b  BY DEF H!Paste, H!Push
<1>2. /\ undo_stack \in Seq(H!Op) /\ h \in Nat /\ l \in Nat /\ b \in Nat
      /\ \A i \in 1..l : items[i] \in Items
  <2>1. NamedOp \subseteq H!Op  BY DEF NamedOp
  <2> QED  BY <2>1, SeqMonotonic, LenProperties, ElementOfSeq DEF StacksNamed
<1>3. /\ ops \in Seq(H!Op) /\ Len(ops) = l
      /\ \A i \in 1..l : /\ ops[i].type = "MOVE" /\ ops[i].batch_id = b
                         /\ ops[i].item = items[i]
  <2>1. \A i \in 1..l : H!OpOf("MOVE", b, items[i]) \in H!Op
    BY <1>2 DEF H!OpOf, H!Op, H!OpTypes
  <2>2. ops = [i \in 1..l |-> H!OpOf("MOVE", b, items[i])]  BY DEF H!Ops
  <2>3. [i \in 1..l |-> H!OpOf("MOVE", b, items[i])] \in [1..l -> H!Op]  BY <2>1
  <2> HIDE DEF ops, l, b
  <2>4. ops \in Seq(H!Op) /\ Len(ops) = l  BY <1>2, <2>2, <2>3, IsASeq, LenProperties
  <2> QED  BY <2>2, <2>4 DEF H!OpOf
<1> HIDE DEF ops
<1>4. /\ all \in Seq(H!Op) /\ Len(all) = h + l
      /\ \A i \in 1..(h + l) : all[i] = IF i <= h THEN undo_stack[i] ELSE ops[i - h]
  <2> DEFINE m == Len(ops)
             S == H!Op
  <2>1. m = l /\ ops \in Seq(S) /\ undo_stack \in Seq(S)  BY <1>2, <1>3
  <2> HIDE DEF l, m, S
  <2>2. /\ all \in Seq(S) /\ Len(all) = h + m
        /\ \A i \in 1..(h + m) : all[i] = IF i <= h THEN undo_stack[i] ELSE ops[i - h]
    BY <2>1, ConcatProperties DEF m
  <2> HIDE DEF all, h
  <2> QED  BY <2>1, <2>2 DEF S
<1>5. undo_stack' = new  BY <1>1, <1>3 DEF H!Pushed
<1> HIDE DEF all, h, l, b
<1>6. /\ d \in 0..(h + l) /\ d = IF h + l <= UndoMax THEN 0 ELSE h + l - UndoMax
      /\ UndoMax \in Nat \ {0}
  BY <1>2, FileOpsAssumption DEF H!Overflow
<1> HIDE DEF d
<1>7. /\ new \in Seq(H!Op) /\ Len(new) = h + l - d
      /\ \A i \in 1..(h + l - d) : new[i] = all[i + d]
  BY <1>2, <1>4, <1>6
<1> HIDE DEF new
<1>8. ToSet(undo_stack') = {new[i] : i \in 1..(h + l - d)}  BY <1>5, <1>7, InSet
<1>9. CASE l <= UndoMax
  <2>1. PICK i \in 1..l : it = items[i]  BY InSet DEF l
  <2>2. h + i - d \in 1..(h + l - d) /\ (h + i - d) + d = h + i /\ h + i \in 1..(h + l)
        /\ ~(h + i <= h) /\ (h + i) - h = i
    BY <1>2, <1>6, <1>9
  <2>3. new[h + i - d] = ops[i]  BY <1>4, <1>7, <2>2
  <2>4. ops[i] \in ToSet(undo_stack')  BY <1>8, <2>2, <2>3
  <2> QED  BY <1>1, <1>3, <2>1, <2>4
<1>10. CASE ~(l <= UndoMax)
  <2>1. h + l - d = UndoMax /\ d >= h  BY <1>2, <1>6, <1>10
  <2>2. ASSUME NEW i \in 1..(h + l - d)
        PROVE  new[i].type = "MOVE" /\ new[i].batch_id = b
    <3>1. i + d \in 1..(h + l) /\ ~(i + d <= h) /\ (i + d) - h \in 1..l
      BY <1>2, <1>6, <2>1
    <3>2. new[i] = ops[(i + d) - h]  BY <1>4, <1>7, <3>1
    <3> QED  BY <1>3, <3>1, <3>2
  <2>3. Len(undo_stack') = UndoMax  BY <1>5, <1>7, <2>1
  <2>4. \A op \in ToSet(undo_stack') : op.type = "MOVE" /\ op.batch_id = b
    BY <1>8, <2>2
  <2> QED  BY <1>1, <2>3, <2>4
<1> QED  BY <1>9, <1>10

\* A path leaves the register in a paste only because its entry was in the
\* directory already or was moved there, and of what was moved undo knows
\* where it came from (file.c:1446-1483).
THEOREM PasteAlwaysAccounts == Spec => PasteAccountsForAll
<1> DEFINE Answer(dest, p) ==
             \/ p = Append(dest, Last(p))
             \/ /\ Exists(fs', Resolve(Append(dest, Last(p))))
                /\ LET batch == {op \in ToSet(undo_stack') :
                                  op.type = "MOVE" /\ op.batch_id = move_batch_id'}
                   IN  \/ \E op \in batch : op.item.trash_path = p /\ op.item.cwd = dest
                       \/ Len(undo_stack') = UndoMax /\ ToSet(undo_stack') = batch
           Told == \A dest \in PasteTargets :
                     Paste(dest) =>
                       \A p \in ToSet(move_reg) \ ToSet(move_reg') : Answer(dest, p)
<1>1. ASSUME IInv, NEW dest \in PasteTargets, Paste(dest),
             NEW p \in ToSet(move_reg) \ ToSet(move_reg')
      PROVE  Answer(dest, p)
  <2> DEFINE w == Pasted(dest)
             item == Item(dest, Last(p), <<>>, p)
  <2>1. /\ fs' = w.fs /\ move_reg' = w.kept
        /\ IF w.items = <<>> THEN UNCHANGED history ELSE H!Paste(w.items)
    BY <1>1 DEF Paste
  <2>2. Accounted(w, p)  BY <1>1, PasteAccounts
  <2>3. w.dest = dest /\ w.items \in Seq(Items)
    BY <1>1, TargetsWritten, PastedOK, PastedDest
  <2> HIDE DEF w
  <2>4. CASE p = Append(dest, Last(p))  BY <2>4
  <2>5. CASE Exists(w.fs, Resolve(Append(dest, Last(p)))) /\ item \in ToSet(w.items)
    <3>1. w.items # <<>>
      <4>1. ToSet(<<>>) = {}  BY DEF ToSet
      <4> QED  BY <2>5, <4>1
    <3>2. H!Paste(w.items)  BY <2>1, <3>1
    <3>3. StacksNamed  BY <1>1 DEF IInv
    <3>4. item.trash_path = p /\ item.cwd = dest  BY DEF Item
    <3> HIDE DEF item
    <3>5. LET batch == {op \in ToSet(undo_stack') :
                          op.type = "MOVE" /\ op.batch_id = move_batch_id'}
          IN  \/ \E op \in batch : op.item = item
              \/ Len(undo_stack') = UndoMax /\ ToSet(undo_stack') = batch
      BY <2>3, <2>5, <3>2, <3>3, BatchOnStack
    <3> QED  BY <2>1, <2>5, <3>4, <3>5
  <2>6. p \notin ToSet(w.kept)  BY <1>1, <2>1
  <2> QED  BY <2>2, <2>3, <2>4, <2>5, <2>6 DEF Accounted
<1>2. IInv => Told
  <2> HIDE DEF Answer
  <2> QED  BY <1>1
<1>3. PasteAccountsForAll <=> [][Told]_vars  BY PTL DEF PasteAccountsForAll
<1>4. IInv => [Told]_vars  BY <1>2
<1> HIDE DEF Told
<1> QED  BY <1>3, <1>4, AlwaysIInv, PTL

----------------------------------------------------------------------------
(* Undo.                                                                   *)

\* The operations of a paste, reverted one by one, lead from f back to g.
Unwinds(r, f, batch, items, g) ==
  /\ r[0] = f /\ r[Len(items)] = g
  /\ \A i \in 1..Len(items) :
       r[i] = Revert(r[i - 1], H!OpOf("MOVE", batch, items[Len(items) - i + 1]))

\* A move to a free place, reverted.
LEMMA MoveReverts ==
  ASSUME NEW w \in PasteRounds, NEW v, NEW src \in Written \ {Root}, NEW batch,
         PasteMoves(w, v, src)
  PROVE  Revert(v.fs, H!OpOf("MOVE", batch, Item(w.dest, Last(src), <<>>, src))) = w.fs
<1> DEFINE item == Item(w.dest, Last(src), <<>>, src)
           op == H!OpOf("MOVE", batch, item)
           from == Resolve(src)
           to == Resolve(Append(w.dest, Last(src)))
<1>1. op.type = "MOVE" /\ op.item = item  BY DEF H!OpOf
<1>2. item.cwd = w.dest /\ item.old_name = Last(src) /\ item.trash_path = src  BY DEF Item
<1>3. FsOK(w.fs) /\ w.dest \in Written /\ Last(src) \in Name
  BY IsFileSystem, WrittenFacts DEF PasteRounds
<1>4. Append(w.dest, Last(src)) \in Written  BY <1>3, WrittenIn
<1>5. from \in Path /\ to \in Path  BY <1>4, WrittenFacts
<1>6. /\ ~Exists(w.fs, to) /\ CanRename(w.fs, from, to) /\ v.fs = Renamed(w.fs, from, to)
  BY DEF PasteMoves
<1>7. Revert(v.fs, op) = Rename(v.fs, to, from)
  <2> HIDE DEF op, item
  <2> QED  BY <1>1, <1>2 DEF Revert
<1> HIDE DEF op, from, to
<1>8. Rename(v.fs, to, from) = w.fs  BY <1>3, <1>5, <1>6, MovedBack
<1> QED  BY <1>7, <1>8 DEF op

\* After every round of a paste what was recorded so far leads back to the start.
LEMMA RoundUnwinds ==
  ASSUME NEW w \in PasteRounds, NEW src \in Written \ {Root}, NEW batch, NEW g,
         \E r : Unwinds(r, w.fs, batch, w.items, g)
  PROVE  LET v == PasteOne(w, src) IN \E r : Unwinds(r, v.fs, batch, v.items, g)
<1> DEFINE v == PasteOne(w, src)
           item == Item(w.dest, Last(src), <<>>, src)
           l == Len(w.items)
<1>1. v = w \/ (v.fs = w.fs /\ v.items = w.items) \/ PasteMoves(w, v, src)  BY PasteCases
<1> HIDE DEF v
<1>2. CASE v = w \/ (v.fs = w.fs /\ v.items = w.items)  BY <1>2 DEF v
<1>3. CASE PasteMoves(w, v, src)
  <2>1. PICK r : Unwinds(r, w.fs, batch, w.items, g)  OBVIOUS
  <2>2. w.items \in Seq(Items) /\ w.dest \in Written /\ Last(src) \in Name
    BY WrittenFacts DEF PasteRounds
  <2>3. item \in Items  BY <2>2, ItemType, NoNewName
  <2>4. v.items = Append(w.items, item)  BY <1>3 DEF PasteMoves
  <2>5. Revert(v.fs, H!OpOf("MOVE", batch, item)) = w.fs  BY <1>3, MoveReverts
  <2> HIDE DEF item
  <2>6. /\ Len(v.items) = l + 1 /\ l \in Nat /\ v.items[l + 1] = item
        /\ \A i \in 1..l : v.items[i] = w.items[i]
    BY <2>2, <2>3, <2>4, AppendProperties, LenProperties
  <2>7. /\ r[0] = w.fs /\ r[l] = g
        /\ \A i \in 1..l : r[i] = Revert(r[i - 1], H!OpOf("MOVE", batch, w.items[l - i + 1]))
    BY <2>1 DEF Unwinds
  <2> DEFINE m == l + 1
             s == [i \in 0..m |-> IF i = 0 THEN v.fs ELSE r[i - 1]]
  <2> HIDE DEF l
  <2>8. s[0] = v.fs /\ s[m] = g
    <3>1. 0 \in 0..m /\ m \in 0..m /\ m # 0 /\ m - 1 = l  BY <2>6
    <3> QED  BY <2>7, <3>1
  <2>9. ASSUME NEW i \in 1..m
        PROVE  s[i] = Revert(s[i - 1], H!OpOf("MOVE", batch, v.items[m - i + 1]))
    <3>1. i \in 0..m /\ i # 0 /\ i - 1 \in 0..m  BY <2>6
    <3>2. s[i] = r[i - 1]  BY <3>1
    <3>3. CASE i = 1
      <4>1. s[i - 1] = v.fs /\ m - i + 1 = l + 1 /\ i - 1 = 0  BY <2>6, <3>1, <3>3
      <4> HIDE DEF s, m
      <4> QED  BY <2>5, <2>6, <2>7, <3>2, <4>1
    <3>4. CASE i # 1
      <4>1. i - 1 \in 1..l /\ i - 1 # 0 /\ m - i + 1 = l - (i - 1) + 1
            /\ l - (i - 1) + 1 \in 1..l
        BY <2>6, <3>4
      <4>2. s[i - 1] = r[(i - 1) - 1]  BY <3>1, <4>1
      <4>3. v.items[m - i + 1] = w.items[l - (i - 1) + 1]  BY <2>6, <4>1
      <4>4. r[i - 1] = Revert(r[(i - 1) - 1], H!OpOf("MOVE", batch, w.items[l - (i - 1) + 1]))
        BY <2>7, <4>1
      <4> HIDE DEF s, m
      <4> QED  BY <3>2, <4>2, <4>3, <4>4
    <3> QED  BY <3>3, <3>4
  <2>10. Unwinds(s, v.fs, batch, v.items, g)
    <3> HIDE DEF s
    <3> QED  BY <2>6, <2>8, <2>9 DEF Unwinds
  <2> QED  BY <2>10 DEF v
<1> QED  BY <1>1, <1>2, <1>3

LEMMA PasteUnwinds ==
  ASSUME IInv, NEW dest \in PasteTargets, NEW batch
  PROVE  \E r : Unwinds(r, Pasted(dest).fs, batch, Pasted(dest).items, fs)
<1> DEFINE n == Len(move_reg)
           Back(w) == \E r : Unwinds(r, w.fs, batch, w.items, fs)
<1>1. PICK run : PasteOneRun(PasteRounds, PasteBase(dest), move_reg, run)
  BY TargetsWritten, PasteLoop
<1>2. /\ run[0] = PasteBase(dest) /\ run[n] = Pasted(dest)
      /\ \A k \in 0..n : run[k] \in PasteRounds
      /\ \A k \in 1..n : run[k] = PasteOne(run[k - 1], move_reg[k])
  BY <1>1 DEF PasteOneRun, Pasted, PasteBase
<1>3. n \in Nat /\ \A k \in 1..n : move_reg[k] \in Written \ {Root}
  BY LenProperties, ElementOfSeq DEF IInv, Register
<1> DEFINE P == [k \in 0..n |-> Back(run[k])]
<1> HIDE DEF n
<1>4. P[0]
  <2>1. run[0].fs = fs /\ run[0].items = <<>> /\ Len(<<>>) = 0  BY <1>2 DEF PasteBase
  <2> DEFINE r == [i \in 0..0 |-> fs]
  <2>2. r[0] = fs /\ 1..0 = {}  OBVIOUS
  <2> HIDE DEF r
  <2>3. Unwinds(r, run[0].fs, batch, run[0].items, fs)  BY <2>1, <2>2 DEF Unwinds
  <2>4. 0 \in 0..n /\ Back(run[0])  BY <1>3, <2>3
  <2> HIDE DEF Back
  <2> QED  BY <2>4
<1>5. \A k \in 1..n : P[k - 1] => P[k]
  <2> HIDE DEF Back
  <2> SUFFICES ASSUME NEW k \in 1..n, P[k - 1] PROVE P[k]  OBVIOUS
  <2>1. k - 1 \in 0..n /\ k \in 0..n  BY <1>3
  <2>2. Back(run[k - 1])  BY <2>1
  <2>3. run[k - 1] \in PasteRounds /\ move_reg[k] \in Written \ {Root}
        /\ run[k] = PasteOne(run[k - 1], move_reg[k])
    BY <1>2, <1>3, <2>1
  <2> DEFINE w == run[k - 1]
             src == move_reg[k]
  <2>4. Back(PasteOne(w, src))
    <3> HIDE DEF w, src
    <3>1. w \in PasteRounds /\ src \in Written \ {Root} /\ Back(w)  BY <2>2, <2>3 DEF w, src
    <3> QED  BY <3>1, RoundUnwinds DEF Back
  <2> QED  BY <2>1, <2>3, <2>4
<1>6. \A k \in 0..n : P[k]
  <2> HIDE DEF P
  <2> QED  BY <1>3, <1>4, <1>5, Climb
<1>7. Back(run[n])
  <2> HIDE DEF Back
  <2>1. n \in 0..n  BY <1>3
  <2> QED  BY <1>6, <2>1
<1> QED  BY <1>2, <1>7

\* What u takes from a stack is one group.
LEMMA OneGroup ==
  ASSUME NEW stack \in Seq(H!Op), NEW k \in 1..Len(stack), NEW l \in 1..Len(stack),
         H!IsGroup(stack, k), H!IsGroup(stack, l)
  PROVE  k = l
<1> DEFINE n == Len(stack)
           alike(i) == /\ stack[i].type = "MOVE" /\ stack[n].type = "MOVE"
                       /\ stack[n].batch_id > 0 /\ stack[i].batch_id = stack[n].batch_id
<1>1. n \in Nat  BY LenProperties
<1>2. /\ \A i \in (n - k + 1)..(n - 1) : alike(i)
      /\ k < n => ~alike(n - k)
      /\ \A i \in (n - l + 1)..(n - 1) : alike(i)
      /\ l < n => ~alike(n - l)
  BY DEF H!IsGroup
<1> HIDE DEF n, alike
<1>3. ~(k < l)
  <2> SUFFICES ASSUME k < l PROVE FALSE  OBVIOUS
  <2>1. k < n /\ n - k \in (n - l + 1)..(n - 1)  BY <1>1 DEF n
  <2> QED  BY <1>2, <2>1
<1>4. ~(l < k)
  <2> SUFFICES ASSUME l < k PROVE FALSE  OBVIOUS
  <2>1. l < n /\ n - l \in (n - k + 1)..(n - 1)  BY <1>1 DEF n
  <2> QED  BY <1>2, <2>1
<1> QED  BY <1>3, <1>4

\* What a call pushed is at the top of the stack.
LEMMA TopIsPushed ==
  ASSUME NEW stack \in Seq(H!Op), NEW ops \in Seq(H!Op), Len(ops) \in 1..UndoMax
  PROVE  LET new == H!Pushed(stack, ops) IN
         /\ new \in Seq(H!Op) /\ Len(ops) \in 1..Len(new)
         /\ \A i \in 1..Len(ops) : new[Len(new) - Len(ops) + i] = ops[i]
<1> DEFINE h == Len(stack)
           l == Len(ops)
           d == H!Overflow(h + l)
           all == stack \o ops
           new == SubSeq(all, d + 1, h + l)
<1>1. H!Pushed(stack, ops) = new  BY DEF H!Pushed
<1>2. h \in Nat /\ l \in 1..UndoMax  BY LenProperties
<1>3. /\ all \in Seq(H!Op) /\ Len(all) = h + l
      /\ \A i \in 1..(h + l) : all[i] = IF i <= h THEN stack[i] ELSE ops[i - h]
  <2> DEFINE S == H!Op
  <2> HIDE DEF S
  <2> QED  BY ConcatProperties DEF S
<1> HIDE DEF all, h, l
<1>4. d \in 0..h /\ UndoMax \in Nat \ {0}  BY <1>2, FileOpsAssumption DEF H!Overflow
<1> HIDE DEF d
<1>5. /\ new \in Seq(H!Op) /\ Len(new) = h + l - d
      /\ \A i \in 1..(h + l - d) : new[i] = all[i + d]
  <2> DEFINE m == h + l
             S == H!Op
             sub == SubSeq(all, d + 1, m)
  <2>1. m \in Nat /\ d \in 0..m  BY <1>2, <1>4
  <2>2. all \in Seq(S) /\ Len(all) = m  BY <1>3
  <2> HIDE DEF m, S
  <2>3. sub \in Seq(S) /\ Len(sub) = m - d /\ \A i \in 1..(m - d) : sub[i] = all[i + d]
    BY <2>1, <2>2
  <2>4. new = sub  BY DEF m
  <2> HIDE DEF new, sub
  <2>5. m - d = h + l - d  BY <1>2, <1>4 DEF m
  <2> QED  BY <2>3, <2>4, <2>5 DEF S
<1> HIDE DEF new
<1>6. l \in 1..Len(new)  BY <1>2, <1>4, <1>5
<1>7. \A i \in 1..l : new[Len(new) - l + i] = ops[i]
  <2> TAKE i \in 1..l
  <2>1. /\ Len(new) - l + i \in 1..(h + l - d) /\ (Len(new) - l + i) + d = h + i
        /\ h + i \in 1..(h + l) /\ ~(h + i <= h) /\ (h + i) - h = i
    BY <1>2, <1>4, <1>5
  <2> QED  BY <1>3, <1>5, <2>1
<1> QED  BY <1>1, <1>5, <1>6, <1>7 DEF l

\* The loop of files_undo, operation by operation from the top.
LEMMA UndoneIs ==
  ASSUME NEW f, FsOK(f), NEW stack \in Seq(NamedOp), NEW k \in 1..Len(stack), NEW r,
         r[0] = f, \A i \in 1..k : r[i] = Revert(r[i - 1], stack[Len(stack) - i + 1])
  PROVE  Undone(f, stack, k) = r[k]
<1> DEFINE n == Len(stack)
           ops == Reverse(H!Top(stack, k))
<1>1. n \in Nat /\ \A i \in 1..n : stack[i] \in NamedOp  BY LenProperties, ElementOfSeq
<1>2. ops \in Seq(NamedOp) /\ Len(ops) = k /\ \A i \in 1..k : ops[i] = stack[n - i + 1]
  <2> DEFINE top == SubSeq(stack, n - k + 1, n)
  <2>1. H!Top(stack, k) = top  BY DEF H!Top
  <2>2. /\ top \in Seq(NamedOp) /\ Len(top) = k
        /\ \A i \in 1..k : top[i] = stack[n - k + i]
    <3> HIDE DEF n
    <3>1. k \in 1..n  BY DEF n
    <3>2. n = Len(stack)  BY DEF n
    <3> QED  BY <1>1, <3>1, <3>2
  <2> HIDE DEF top, n
  <2>3. k \in 1..n  BY DEF n
  <2>4. ops = [i \in 1..k |-> top[(k - i) + 1]]  BY <2>1, <2>2 DEF Reverse
  <2>5. \A i \in 1..k : (k - i) + 1 \in 1..k /\ n - k + ((k - i) + 1) = n - i + 1
                       /\ n - i + 1 \in 1..n
    BY <1>1, <2>3
  <2>6. \A i \in 1..k : top[(k - i) + 1] = stack[n - i + 1]
    <3> TAKE i \in 1..k
    <3>1. top[(k - i) + 1] = stack[n - k + ((k - i) + 1)]  BY <2>2, <2>5
    <3> QED  BY <2>5, <3>1
  <2>7. [i \in 1..k |-> top[(k - i) + 1]] \in [1..k -> NamedOp]  BY <1>1, <2>5, <2>6
  <2> HIDE DEF ops
  <2>8. ops \in Seq(NamedOp) /\ Len(ops) = k
    <3>1. k \in Nat  BY <1>1, <2>3
    <3>2. ops \in [1..k -> NamedOp]  BY <2>4, <2>7
    <3> HIDE DEF n
    <3> QED  BY <3>1, <3>2, IsASeq, LenProperties
  <2> QED  BY <2>4, <2>6, <2>8
<1> HIDE DEF ops
<1>3. f \in FileSystems /\ \A g \in FileSystems, op \in NamedOp : Revert(g, op) \in FileSystems
  BY IsFileSystem, RevertOK
<1>4. PICK run : RevertRun(FileSystems, f, ops, run)  BY <1>2, <1>3, RevertFold
<1>5. /\ run[0] = f /\ run[k] = FoldLeft(Revert, f, ops)
      /\ \A i \in 1..k : run[i] = Revert(run[i - 1], ops[i])
  BY <1>2, <1>4 DEF RevertRun
<1> DEFINE P == [i \in 0..k |-> run[i] = r[i]]
<1>6. k \in Nat  BY <1>1
<1>7. P[0]
  <2>1. run[0] = r[0] /\ 0 \in 0..k  BY <1>5, <1>6
  <2> QED  BY <2>1
<1>8. \A i \in 1..k : P[i - 1] => P[i]
  <2> SUFFICES ASSUME NEW i \in 1..k, P[i - 1] PROVE P[i]  OBVIOUS
  <2>1. i - 1 \in 0..k /\ i \in 0..k  BY <1>6
  <2>2. run[i - 1] = r[i - 1]  BY <2>1
  <2>3. run[i] = r[i]  BY <1>2, <1>5, <2>2
  <2> QED  BY <2>1, <2>3
<1>9. \A i \in 0..k : P[i]
  <2> HIDE DEF P
  <2> QED  BY <1>6, <1>7, <1>8, Climb
<1>10. run[k] = r[k]
  <2>1. k \in 0..k  BY <1>6
  <2> QED  BY <1>9, <2>1
<1> QED  BY <1>5, <1>10 DEF Undone, ops

\* A rename to a name that was free, taken back by u.
LEMMA RenameBack ==
  ASSUME IInv, IInv', NEW e \in ToSet(entries), NEW name \in NewNames,
         RenameEntry(e, name), ~Exists(fs, Append(cwd, name)),
         NEW k \in 1..Len(undo_stack'), H!IsGroup(undo_stack', k)
  PROVE  Undone(fs', undo_stack', k) = fs
<1> DEFINE src == Append(cwd, e.name)
           dst == Append(cwd, name)
           item == Item(cwd, e.name, name, <<>>)
           op == H!OpOf("RENAME", 0, item)
           n == Len(undo_stack')
<1>1. e.name \in Name /\ name \in Name /\ cwd \in Path /\ cwd \in Written
  <2>1. e \in Entry /\ cwd \in Path  BY InSet DEF IInv, FilesOK
  <2> QED  BY <2>1, PathIsWritten, FileOpsAssumption DEF Entry
<1>2. src \in Path /\ dst \in Path  BY <1>1, PathIn
<1>3. FsOK(fs) /\ FsOK(fs') /\ undo_stack \in Seq(NamedOp) /\ undo_stack' \in Seq(NamedOp)
  BY DEF IInv, FilesOK, StacksNamed
<1>4. /\ fs' = Rename(fs, src, dst)
      /\ undo_stack' = H!Pushed(undo_stack, H!Ops("RENAME", 0, <<item>>))
  BY DEF RenameEntry, H!Record, H!Push
<1>5. item \in Items
  <2>1. name \in Name \cup {NoName}  BY <1>1
  <2> QED  BY <1>1, <2>1, ItemType, RootIsWritten
<1>6. undo_stack'[n] = op
  <2> DEFINE ops == H!Ops("RENAME", 0, <<item>>)
  <2>1. op \in H!Op  BY <1>5 DEF H!OpOf, H!Op, H!OpTypes
  <2>2. ops \in Seq(H!Op) /\ Len(ops) = 1 /\ ops[1] = op
    <3> HIDE DEF op
    <3>1. ops = <<op>>  BY DEF H!Ops, op
    <3> HIDE DEF ops
    <3> QED  BY <2>1, <3>1
  <2>3. undo_stack \in Seq(H!Op) /\ 1 \in 1..UndoMax
    <3>1. NamedOp \subseteq H!Op  BY DEF NamedOp
    <3> QED  BY <1>3, <3>1, SeqMonotonic, FileOpsAssumption
  <2> HIDE DEF ops, op
  <2>4. Len(undo_stack') - 1 + 1 = Len(undo_stack') /\ undo_stack'[Len(undo_stack') - 1 + 1] = op
    <3>1. Len(undo_stack') \in Nat  BY <1>3, LenProperties
    <3> DEFINE new == H!Pushed(undo_stack, ops)
    <3>2. Len(ops) \in 1..UndoMax /\ 1 \in 1..Len(ops)  BY <2>2, <2>3
    <3>3. new[Len(new) - Len(ops) + 1] = ops[1]  BY <2>2, <2>3, <3>2, TopIsPushed
    <3>4. undo_stack' = new  BY <1>4 DEF ops
    <3> HIDE DEF new
    <3> QED  BY <2>2, <3>1, <3>3, <3>4
  <2> QED  BY <2>4
<1>7. op.type = "RENAME" /\ op.item = item  BY DEF H!OpOf
<1>8. n \in Nat  BY <1>3, LenProperties
<1> HIDE DEF n, op
<1>9. k = 1
  <2> SUFFICES ASSUME k # 1 PROVE FALSE  OBVIOUS
  <2>1. k \in 1..n  BY DEF n
  <2>2. n - 1 \in (n - k + 1)..(n - 1)  BY <1>8, <2>1
  <2>3. undo_stack'[n].type = "MOVE"  BY <2>2 DEF H!IsGroup, n
  <2> QED  BY <1>6, <1>7, <2>3
<1>10. Revert(fs', op) = fs
  <2>1. Revert(fs', op) = Rename(fs', dst, src)
    <3>1. item.cwd = cwd /\ item.old_name = e.name /\ item.new_name = name  BY DEF Item
    <3> HIDE DEF item
    <3> QED  BY <1>7, <3>1 DEF Revert
  <2> HIDE DEF src, dst
  <2>2. CASE CanRename(fs, src, dst)
    <3>1. ~Exists(fs, dst)  BY DEF dst
    <3> QED  BY <1>2, <1>3, <1>4, <2>1, <2>2, <3>1, MovedBack DEF Rename
  <2>3. CASE ~CanRename(fs, src, dst)
    <3>1. fs' = fs  BY <1>4, <2>3 DEF Rename
    <3>2. ~CanRename(fs, dst, src)  BY DEF CanRename, dst
    <3> QED  BY <2>1, <3>1, <3>2 DEF Rename
  <2> QED  BY <2>2, <2>3
<1> DEFINE r == [i \in 0..1 |-> IF i = 0 THEN fs' ELSE fs]
<1>11. r[0] = fs' /\ r[1] = fs  OBVIOUS
<1> HIDE DEF r
<1>12. \A i \in 1..1 : r[i] = Revert(r[i - 1], undo_stack'[Len(undo_stack') - i + 1])
  <2> SUFFICES r[1] = Revert(r[1 - 1], undo_stack'[n - 1 + 1])  BY DEF n
  <2>1. 1 - 1 = 0 /\ n - 1 + 1 = n  BY <1>8
  <2> QED  BY <1>6, <1>10, <1>11, <2>1
<1>13. Undone(fs', undo_stack', 1) = r[1]
  <2>1. 1 \in 1..Len(undo_stack')  BY <1>9
  <2> QED  BY <1>3, <1>11, <1>12, <2>1, UndoneIs
<1> QED  BY <1>9, <1>11, <1>13

\* A paste, taken back by u.
LEMMA PasteBack ==
  ASSUME IInv, IInv', NEW dest \in PasteTargets, Paste(dest),
         Len(Pasted(dest).items) \in 1..UndoMax,
         H!IsGroup(undo_stack', Len(Pasted(dest).items)),
         NEW k \in 1..Len(undo_stack'), H!IsGroup(undo_stack', k)
  PROVE  Undone(fs', undo_stack', k) = fs
<1> DEFINE items == Pasted(dest).items
           l == Len(items)
           b == move_batch_id + 1
           ops == H!Ops("MOVE", b, items)
           n == Len(undo_stack')
<1>1. /\ FsOK(fs') /\ undo_stack \in Seq(NamedOp) /\ undo_stack' \in Seq(NamedOp)
      /\ b \in Nat
  BY DEF IInv, FilesOK, StacksNamed
<1>2. items \in Seq(Items) /\ fs' = Pasted(dest).fs
  BY TargetsWritten, PastedOK DEF Paste
<1>3. PICK r : Unwinds(r, fs', b, items, fs)  BY <1>2, PasteUnwinds
<1> HIDE DEF items
<1>4. l \in 1..UndoMax /\ UndoMax \in Nat /\ H!IsGroup(undo_stack', l)
  BY FileOpsAssumption DEF items
<1>5. undo_stack' = H!Pushed(undo_stack, ops)
  <2>1. items # <<>>
    <3>1. Len(<<>>) = 0  BY EmptySeq
    <3> QED  BY <1>4, <3>1
  <2>2. H!Paste(items)  BY <2>1 DEF Paste, items
  <2> QED  BY <2>2 DEF H!Paste, H!Push
<1> HIDE DEF b
<1>6. ops \in Seq(H!Op) /\ Len(ops) = l /\ \A i \in 1..l : ops[i] = H!OpOf("MOVE", b, items[i])
  <2>1. \A i \in 1..l : items[i] \in Items  BY <1>2, ElementOfSeq
  <2>2. \A i \in 1..l : H!OpOf("MOVE", b, items[i]) \in H!Op
    BY <1>1, <2>1 DEF H!OpOf, H!Op, H!OpTypes
  <2>3. ops = [i \in 1..l |-> H!OpOf("MOVE", b, items[i])]  BY DEF H!Ops
  <2>4. ops \in [1..l -> H!Op]  BY <2>2, <2>3
  <2>5. l \in Nat  BY <1>4
  <2> HIDE DEF ops, l
  <2>6. ops \in Seq(H!Op) /\ Len(ops) = l  BY <2>4, <2>5, IsASeq, LenProperties
  <2> QED  BY <2>3, <2>6
<1>7. undo_stack \in Seq(H!Op)
  <2>1. NamedOp \subseteq H!Op  BY DEF NamedOp
  <2> QED  BY <1>1, <2>1, SeqMonotonic
<1> HIDE DEF ops, l
<1>8. /\ undo_stack' \in Seq(H!Op) /\ l \in 1..n
      /\ \A i \in 1..l : undo_stack'[n - l + i] = ops[i]
  <2> DEFINE new == H!Pushed(undo_stack, ops)
  <2>1. /\ new \in Seq(H!Op) /\ Len(ops) \in 1..Len(new)
        /\ \A i \in 1..Len(ops) : new[Len(new) - Len(ops) + i] = ops[i]
    BY <1>4, <1>6, <1>7, TopIsPushed
  <2> HIDE DEF new
  <2> QED  BY <1>5, <1>6, <2>1 DEF new
<1>9. k = l  BY <1>4, <1>8, OneGroup
<1>10. n \in Nat  BY <1>1, LenProperties
<1>11. /\ r[0] = fs' /\ r[l] = fs
       /\ \A i \in 1..l : r[i] = Revert(r[i - 1], H!OpOf("MOVE", b, items[l - i + 1]))
  BY <1>3 DEF Unwinds, l
<1>12. \A i \in 1..l : r[i] = Revert(r[i - 1], undo_stack'[n - i + 1])
  <2> TAKE i \in 1..l
  <2> HIDE DEF n
  <2>1. l - i + 1 \in 1..l /\ n - l + (l - i + 1) = n - i + 1  BY <1>4, <1>10
  <2>2. undo_stack'[n - i + 1] = H!OpOf("MOVE", b, items[l - i + 1])
    <3>1. undo_stack'[n - l + (l - i + 1)] = ops[l - i + 1]  BY <1>8, <2>1
    <3> QED  BY <1>6, <2>1, <3>1
  <2> QED  BY <1>11, <2>2
<1>13. Undone(fs', undo_stack', l) = r[l]
  BY <1>1, <1>8, <1>11, <1>12, UndoneIs
<1> QED  BY <1>9, <1>11, <1>13

\* What u takes back right after a rename to a free name or after a paste that
\* fits the stack leaves the files exactly as they were (files_undo,
\* file.c:1012-1080), whatever other processes had done to them before.
THEOREM UndoAlwaysRestores == Spec => UndoRestores
<1> DEFINE Fresh ==
             \/ \E e \in ToSet(entries), name \in NewNames :
                  RenameEntry(e, name) /\ ~Exists(fs, Append(cwd, name))
             \/ \E dest \in PasteTargets :
                  Paste(dest) /\ Len(Pasted(dest).items) \in 1..UndoMax
           Back == \A k \in 1..Len(undo_stack') :
                     /\ Fresh
                     /\ H!IsGroup(undo_stack', k)
                     => Undone(fs', undo_stack', k) = fs
           Whole == \A items \in H!SomeItems :
                      H!Paste(items) =>
                        \E k \in 1..Len(undo_stack') :
                          /\ H!IsGroup(undo_stack', k)
                          /\ k = IF Len(items) <= UndoMax THEN Len(items) ELSE UndoMax
<1>1. ASSUME IInv, IInv', [Whole]_(H!vars), NEW k \in 1..Len(undo_stack'),
             H!IsGroup(undo_stack', k),
             NEW dest \in PasteTargets, Paste(dest), Len(Pasted(dest).items) \in 1..UndoMax
      PROVE  Undone(fs', undo_stack', k) = fs
  <2> DEFINE items == Pasted(dest).items
  <2>1. items \in Seq(Items) /\ Len(items) <= Len(move_reg)
    BY <1>1, TargetsWritten, PastedOK
  <2>2. Len(move_reg) \in Nat /\ Len(move_reg) <= MaxFiles
    BY <1>1, LenProperties, FileOpsAssumption DEF IInv, Register
  <2>3. items # <<>>
    <3>1. Len(<<>>) = 0  BY EmptySeq
    <3> QED  BY <1>1, <3>1
  <2>4. H!Paste(items)  BY <1>1, <2>3 DEF Paste
  <2> HIDE DEF items
  <2>5. items \in H!SomeItems
    <3>1. Len(items) <= MaxFiles  BY <2>1, <2>2, LenProperties, FileOpsAssumption
    <3> QED  BY <2>1, <2>3, <3>1, SomeItemsHere
  <2>6. Whole
    <3>1. move_batch_id' = move_batch_id + 1 /\ move_batch_id \in Nat
      BY <1>1, <2>4 DEF H!Paste, IInv, StacksNamed
    <3>2. move_batch_id' # move_batch_id  BY <3>1
    <3> HIDE DEF Whole
    <3> QED  BY <1>1, <3>2 DEF H!vars
  <2>7. Len(items) \in 1..UndoMax /\ UndoMax \in Nat  BY <1>1, FileOpsAssumption DEF items
  <2>8. H!IsGroup(undo_stack', Len(items))  BY <2>4, <2>5, <2>6, <2>7
  <2> QED  BY <1>1, <2>8, PasteBack DEF items
<1>2. ASSUME IInv, IInv', [Whole]_(H!vars) PROVE Back
  <2> HIDE DEF Whole
  <2> SUFFICES ASSUME NEW k \in 1..Len(undo_stack'), Fresh, H!IsGroup(undo_stack', k)
               PROVE  Undone(fs', undo_stack', k) = fs
    OBVIOUS
  <2>1. CASE \E e \in ToSet(entries), name \in NewNames :
               RenameEntry(e, name) /\ ~Exists(fs, Append(cwd, name))
    BY <1>2, <2>1, RenameBack
  <2>2. CASE \E dest \in PasteTargets :
               Paste(dest) /\ Len(Pasted(dest).items) \in 1..UndoMax
    BY <1>1, <1>2, <2>2
  <2> QED  BY <2>1, <2>2
<1>3. UndoRestores <=> [][Back]_vars  BY PTL DEF UndoRestores
<1>4. Spec => [][Whole]_(H!vars)  BY FileOpsHistoryKept, PTL DEF H!PasteIsOneGroup
<1>5. IInv /\ IInv' /\ [Whole]_(H!vars) => [Back]_vars  BY <1>2
<1> HIDE DEF Whole, Back
<1> QED  BY <1>3, <1>4, <1>5, AlwaysIInv, PTL

============================================================================
