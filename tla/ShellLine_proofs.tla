-------------------------- MODULE ShellLine_proofs --------------------------
(***************************************************************************)
(* For every set of characters and directories, every length of the line   *)
(* and of the history: the line stays in step with the history, the        *)
(* history is the end of what ran, completion keeps what was typed and     *)
(* every candidate, and the grey text is what Tab would add.               *)
(***************************************************************************)
EXTENDS ShellLine, FiniteSetTheorems, SequenceTheorems, WellFoundedInduction, TLAPS

----------------------------------------------------------------------------
(* Numbers.                                                                *)

\* A set of natural numbers that is not empty has a smallest element.
LEMMA MinOf ==
  ASSUME NEW T \in SUBSET Nat, T # {}
  PROVE  Min(T) \in T /\ \A m \in T : Min(T) <= m
<1> DEFINE R == {p \in Nat \X Nat : p[1] < p[2]}
<1>1. OpToRel(<, Nat) = R  BY Zenon DEF OpToRel
<1>2. \E n \in T : \A m \in T : <<m, n>> \notin R
  BY <1>1, NatLessThanWellFounded, WFMin, Zenon
<1>3. PICK n \in T : \A m \in T : <<m, n>> \notin R  BY <1>2
<1>4. ASSUME NEW m \in T PROVE n <= m
  <2>1. <<m, n>> \in Nat \X Nat /\ <<m, n>>[1] = m /\ <<m, n>>[2] = n  OBVIOUS
  <2> QED  BY <1>3, <2>1
<1> QED  BY <1>4 DEF Min

\* One that has a bound has a greatest element.
LEMMA MaxOf ==
  ASSUME NEW T \in SUBSET Nat, T # {}, NEW b \in Nat, \A m \in T : m <= b
  PROVE  Max(T) \in T /\ \A m \in T : m <= Max(T)
<1> DEFINE U == {u \in Nat : \A m \in T : m <= u}
           u == Min(U)
<1>1. U \in SUBSET Nat /\ U # {}  OBVIOUS
<1>2. u \in U /\ \A v \in U : u <= v  BY <1>1, MinOf
<1> HIDE DEF u
<1>3. u \in T
  <2>1. SUFFICES ASSUME u \notin T PROVE FALSE  OBVIOUS
  <2>2. \A m \in T : m <= u - 1  BY <1>2, <2>1
  <2>3. PICK m \in T : m <= u - 1  BY <2>2
  <2>4. u - 1 \in U  BY <1>2, <2>2, <2>3
  <2> QED  BY <1>2, <2>4
<1> QED  BY <1>2, <1>3 DEF Max

LEMMA MinOfTwo ==
  ASSUME NEW a \in Nat, NEW b \in Nat
  PROVE  Min({a, b}) = IF a <= b THEN a ELSE b
BY MinOf, {a, b} \in SUBSET Nat, {a, b} # {}

----------------------------------------------------------------------------
(* Pieces of texts.                                                        *)

Texts == Seq(Chars)

LEMMA PieceOf ==
  ASSUME NEW s \in Texts, NEW m \in Nat \ {0}, NEW n \in 0..Len(s)
  PROVE  /\ SubSeq(s, m, n) \in Texts
         /\ Len(SubSeq(s, m, n)) = IF m <= n THEN n - m + 1 ELSE 0
         /\ \A i \in 1..(n - m + 1) : SubSeq(s, m, n)[i] = s[m + i - 1]
<1>1. \A i \in m..n : s[i] \in Chars  BY ElementOfSeq DEF Texts
<1> QED  BY <1>1, SubSeqProperties DEF Texts

LEMMA HeadOf ==
  ASSUME NEW s \in Texts, NEW n \in 0..Len(s)
  PROVE  /\ SubSeq(s, 1, n) \in Texts /\ Len(SubSeq(s, 1, n)) = n
         /\ \A i \in 1..n : SubSeq(s, 1, n)[i] = s[i]
<1>1. Len(SubSeq(s, 1, n)) = IF 1 <= n THEN n - 1 + 1 ELSE 0  BY PieceOf
<1>2. \A i \in 1..(n - 1 + 1) : SubSeq(s, 1, n)[i] = s[1 + i - 1]  BY PieceOf
<1>3. SubSeq(s, 1, n) \in Texts  BY PieceOf
<1> QED  BY <1>1, <1>2, <1>3

LEMMA TokenStartFacts ==
  ASSUME NEW s \in Texts
  PROVE  TokenStart(s) \in 1..(Len(s) + 1)
<1> DEFINE T == {0} \cup {i \in DOMAIN s : s[i] = Blank}
<1>1. Len(s) \in Nat /\ DOMAIN s = 1..Len(s)  BY LenProperties DEF Texts
<1>2. T \in SUBSET Nat /\ T # {} /\ \A m \in T : m <= Len(s)  BY <1>1
<1>3. Max(T) \in T  BY <1>1, <1>2, MaxOf
<1>4. Max(T) \in 0..Len(s)  BY <1>1, <1>3
<1> QED  BY <1>1, <1>4 DEF TokenStart

LEMMA LastSlashFacts ==
  ASSUME NEW s \in Texts
  PROVE  /\ LastSlash(s) \in 0..Len(s)
         /\ LastSlash(s) > 0 => s[LastSlash(s)] = Slash
         /\ \A i \in 1..Len(s) : s[i] = Slash => i <= LastSlash(s)
<1> DEFINE T == {0} \cup {i \in DOMAIN s : s[i] = Slash}
<1>1. Len(s) \in Nat /\ DOMAIN s = 1..Len(s)  BY LenProperties DEF Texts
<1>2. T \in SUBSET Nat /\ T # {} /\ \A m \in T : m <= Len(s)  BY <1>1
<1>3. Max(T) \in T /\ \A m \in T : m <= Max(T)  BY <1>1, <1>2, MaxOf
<1>4. LastSlash(s) = Max(T)  BY DEF LastSlash
<1> QED  BY <1>1, <1>3, <1>4

\* What is known of the last slash tells it.
LEMMA LastSlashIs ==
  ASSUME NEW s \in Texts, NEW p \in 0..Len(s), p > 0 => s[p] = Slash,
         \A i \in (p + 1)..Len(s) : s[i] # Slash
  PROVE  LastSlash(s) = p
<1>1. Len(s) \in Nat  BY LenProperties DEF Texts
<1>2. LastSlash(s) <= p  BY <1>1, LastSlashFacts
<1>3. p <= LastSlash(s)  BY <1>1, LastSlashFacts
<1> QED  BY <1>1, <1>2, <1>3, LastSlashFacts

LEMMA Parts ==
  ASSUME NEW s \in Texts
  PROVE  /\ DirPart(s) \in Texts /\ NamePart(s) \in Texts
         /\ Len(DirPart(s)) = IF LastSlash(s) > 0 THEN LastSlash(s) - 1 ELSE 0
         /\ \A i \in 1..(LastSlash(s) - 1) : DirPart(s)[i] = s[i]
         /\ Len(NamePart(s)) = Len(s) - LastSlash(s)
         /\ \A i \in 1..(Len(s) - LastSlash(s)) : NamePart(s)[i] = s[LastSlash(s) + i]
<1> DEFINE p == LastSlash(s)
<1>1. Len(s) \in Nat /\ p \in 0..Len(s)  BY LastSlashFacts, LenProperties DEF Texts
<1> HIDE DEF p
<1>2. CASE p = 0
  <2>1. DirPart(s) = <<>>  BY <1>2, SubSeqEmpty DEF DirPart, p
  <2>2. NamePart(s) = SubSeq(s, 1, Len(s))  BY <1>2 DEF NamePart, p
  <2>3. DirPart(s) \in Texts /\ Len(DirPart(s)) = 0  BY <2>1, EmptySeq DEF Texts
  <2>4. /\ NamePart(s) \in Texts /\ Len(NamePart(s)) = Len(s)
        /\ \A i \in 1..Len(s) : NamePart(s)[i] = s[i]
    BY <1>1, <2>2, HeadOf
  <2> QED  BY <1>1, <1>2, <2>3, <2>4 DEF p
<1>3. CASE p > 0
  <2>1. p - 1 \in 0..Len(s) /\ p + 1 \in Nat \ {0} /\ Len(s) \in 0..Len(s)  BY <1>1, <1>3
  <2>2. /\ DirPart(s) \in Texts /\ Len(DirPart(s)) = p - 1
        /\ \A i \in 1..(p - 1) : DirPart(s)[i] = s[i]
    BY <2>1, HeadOf DEF DirPart, p
  <2>3. /\ NamePart(s) \in Texts
        /\ Len(NamePart(s)) = IF p + 1 <= Len(s) THEN Len(s) - (p + 1) + 1 ELSE 0
        /\ \A i \in 1..(Len(s) - (p + 1) + 1) : NamePart(s)[i] = s[p + 1 + i - 1]
    BY <2>1, PieceOf DEF NamePart, p
  <2>4. Len(NamePart(s)) = Len(s) - p  BY <1>1, <2>3
  <2>5. ASSUME NEW i \in 1..(Len(s) - p) PROVE NamePart(s)[i] = s[p + i]
    <3>1. i \in 1..(Len(s) - (p + 1) + 1) /\ p + 1 + i - 1 = p + i  BY <1>1
    <3>2. NamePart(s)[i] = s[p + 1 + i - 1]  BY <2>3, <3>1
    <3> QED  BY <3>1, <3>2
  <2> QED  BY <1>3, <2>2, <2>3, <2>4, <2>5 DEF p
<1> QED  BY <1>1, <1>2, <1>3

LEMMA CutFacts ==
  ASSUME NEW s \in Texts
  PROVE  /\ Cut(s) \in Texts
         /\ Len(Cut(s)) = IF Len(s) <= InputMax THEN Len(s) ELSE InputMax
         /\ \A i \in 1..Len(Cut(s)) : Cut(s)[i] = s[i]
<1> DEFINE k == IF Len(s) <= InputMax THEN Len(s) ELSE InputMax
<1>1. Len(s) \in Nat /\ InputMax \in Nat  BY ShellLineAssumption, LenProperties DEF Texts
<1>2. Cut(s) = SubSeq(s, 1, k) /\ k \in 0..Len(s)  BY <1>1, MinOfTwo DEF Cut
<1> HIDE DEF k
<1>3. /\ Cut(s) \in Texts /\ Len(Cut(s)) = k
      /\ \A i \in 1..k : Cut(s)[i] = s[i]
  BY <1>2, HeadOf
<1> QED  BY <1>3 DEF k

----------------------------------------------------------------------------
(* Completion.                                                             *)

LEMMA AgreeMeans ==
  ASSUME NEW s \in Texts, NEW t \in Texts
  PROVE  Agree(s, t) <=> Len(s) = Len(t) /\ \A i \in 1..Len(s) : Lower(s[i]) = Lower(t[i])
BY LenProperties DEF Agree, Texts

LEMMA HeadsAgreeMeans ==
  ASSUME NEW s \in Texts, NEW t \in Texts, NEW k \in Nat, k <= Len(s), k <= Len(t)
  PROVE  Agree(SubSeq(s, 1, k), SubSeq(t, 1, k)) <=> \A i \in 1..k : Lower(s[i]) = Lower(t[i])
<1>1. k \in 0..Len(s) /\ k \in 0..Len(t)  BY LenProperties DEF Texts
<1> DEFINE a == SubSeq(s, 1, k)
           b == SubSeq(t, 1, k)
<1>2. a \in Texts /\ Len(a) = k /\ \A i \in 1..k : a[i] = s[i]  BY <1>1, HeadOf
<1>3. b \in Texts /\ Len(b) = k /\ \A i \in 1..k : b[i] = t[i]  BY <1>1, HeadOf
<1> HIDE DEF a, b
<1>4. Agree(a, b) <=> \A i \in 1..k : Lower(a[i]) = Lower(b[i])  BY <1>2, <1>3, AgreeMeans
<1>5. Agree(a, b) <=> \A i \in 1..k : Lower(s[i]) = Lower(t[i])  BY <1>2, <1>3, <1>4
<1> QED  BY <1>5 DEF a, b

LEMMA BeginsMeans ==
  ASSUME NEW p \in Texts, NEW s \in Texts
  PROVE  Begins(p, s) <=> Len(p) <= Len(s) /\ \A i \in 1..Len(p) : Lower(p[i]) = Lower(s[i])
<1>1. Len(p) \in Nat /\ Len(s) \in Nat  BY LenProperties DEF Texts
<1>2. CASE Len(p) <= Len(s)
  <2>1. Len(p) \in 0..Len(s)  BY <1>1, <1>2
  <2> DEFINE b == SubSeq(s, 1, Len(p))
  <2>2. b \in Texts /\ Len(b) = Len(p) /\ \A i \in 1..Len(p) : b[i] = s[i]  BY <2>1, HeadOf
  <2> HIDE DEF b
  <2>3. Agree(p, b) <=> \A i \in 1..Len(p) : Lower(p[i]) = Lower(b[i])  BY <2>2, AgreeMeans
  <2>4. Agree(p, b) <=> \A i \in 1..Len(p) : Lower(p[i]) = Lower(s[i])  BY <2>2, <2>3
  <2>5. Begins(p, s) <=> Agree(p, b)  BY <1>2 DEF Begins, b
  <2> QED  BY <1>2, <2>4, <2>5
<1>3. CASE ~(Len(p) <= Len(s))  BY <1>3 DEF Begins
<1> QED  BY <1>2, <1>3

NamesOK(names) == \A n \in names : n \in Texts /\ n # <<>> /\ \A i \in 1..Len(n) : n[i] # Slash

LEMMA MatchesFacts ==
  ASSUME NEW dir, NEW prefix
  PROVE  /\ NamesOK(Matches(dir, prefix))
         /\ \A n \in Matches(dir, prefix) : Begins(prefix, n)
<1>1. ASSUME NEW n \in Matches(dir, prefix)
      PROVE  dir \in DOMAIN Inside /\ n \in Inside[dir] /\ Begins(prefix, n)
  BY DEF Matches
<1>2. ASSUME NEW n \in Matches(dir, prefix)
      PROVE  n \in Texts /\ n # <<>> /\ \A i \in 1..Len(n) : n[i] # Slash
  <2>1. n \in Seq(Chars) /\ n # <<>> /\ \A i \in DOMAIN n : n[i] # Slash
    BY <1>1, ShellLineAssumption
  <2> QED  BY <2>1, LenProperties DEF Texts
<1> QED  BY <1>1, <1>2 DEF NamesOK

\* All names agree as far as Common says, and no further.
LEMMA CommonFacts ==
  ASSUME NEW names, names # {}, NamesOK(names)
  PROVE  /\ Common(names) \in Nat
         /\ \A n \in names : Common(names) <= Len(n)
         /\ \A m, n \in names : \A i \in 1..Common(names) : Lower(m[i]) = Lower(n[i])
         /\ \A k \in Nat :
              /\ \A n \in names : k <= Len(n)
              /\ \A m, n \in names : \A i \in 1..k : Lower(m[i]) = Lower(n[i])
              => k <= Common(names)
<1> DEFINE L == {Len(n) : n \in names}
           T == {k \in 0..Min(L) :
                   \A m, n \in names : Agree(SubSeq(m, 1, k), SubSeq(n, 1, k))}
<1>1. \A n \in names : n \in Texts /\ Len(n) \in Nat  BY LenProperties DEF NamesOK, Texts
<1>2. L \in SUBSET Nat /\ L # {}  BY <1>1
<1>3. Min(L) \in Nat /\ \A n \in names : Min(L) <= Len(n)
  <2>1. Min(L) \in L /\ \A l \in L : Min(L) <= l  BY <1>2, MinOf
  <2> QED  BY <1>2, <2>1
<1>4. \E n \in names : Min(L) = Len(n)
  <2>1. Min(L) \in L  BY <1>2, MinOf
  <2> QED  BY <2>1
<1>5. Common(names) = Max(T)  BY DEF Common
<1>6. ASSUME NEW k \in 0..Min(L)
      PROVE  k \in T <=> \A m, n \in names : \A i \in 1..k : Lower(m[i]) = Lower(n[i])
  <2>1. \A n \in names : k <= Len(n) /\ n \in Texts  BY <1>1, <1>3
  <2>2. k \in Nat  BY <1>3
  <2>3. \A m, n \in names : Agree(SubSeq(m, 1, k), SubSeq(n, 1, k))
                              <=> \A i \in 1..k : Lower(m[i]) = Lower(n[i])
    BY <2>1, <2>2, HeadsAgreeMeans
  <2> QED  BY <2>3
<1> HIDE DEF L
<1>7. T \in SUBSET Nat /\ \A m \in T : m <= Min(L)  BY <1>3
<1>8. 0 \in T  BY <1>3, <1>6
<1>9. Max(T) \in T /\ \A m \in T : m <= Max(T)  BY <1>3, <1>7, <1>8, MaxOf
<1>10. Max(T) \in 0..Min(L)  BY <1>9
<1> HIDE DEF T
<1>11. Common(names) \in Nat /\ \A n \in names : Common(names) <= Len(n)
  BY <1>1, <1>3, <1>5, <1>10
<1>12. \A m, n \in names : \A i \in 1..Common(names) : Lower(m[i]) = Lower(n[i])
  BY <1>5, <1>6, <1>9, <1>10
<1>13. ASSUME NEW k \in Nat, \A n \in names : k <= Len(n),
              \A m, n \in names : \A i \in 1..k : Lower(m[i]) = Lower(n[i])
       PROVE  k <= Common(names)
  <2>1. k \in 0..Min(L)  BY <1>3, <1>4, <1>13
  <2>2. k \in T  BY <1>6, <1>13, <2>1
  <2> QED  BY <1>5, <1>9, <2>2
<1> QED  BY <1>11, <1>12, <1>13

\* What a directory is completed to: as far as the names that match agree, and
\* any piece of it that is not shorter than what was typed matches the same.
LEMMA CompletionsFacts ==
  ASSUME NEW dir, NEW prefix \in Texts, NEW c \in Completions(dir, prefix)
  PROVE  /\ c \in Texts /\ c # <<>> /\ \A i \in 1..Len(c) : c[i] # Slash
         /\ Begins(prefix, c)
         /\ \A d \in Completions(dir, prefix) : Agree(c, d)
         /\ \A k \in Len(prefix)..Len(c) :
              Matches(dir, SubSeq(c, 1, k)) = Matches(dir, prefix)
<1> DEFINE names == Matches(dir, prefix)
           most == Common(names)
<1>1. /\ names # {} /\ NamesOK(names)
      /\ \A n \in names : n \in Texts /\ Len(n) \in Nat /\ Begins(prefix, n)
  <2>1. names # {}  BY DEF Completions
  <2> QED  BY <2>1, MatchesFacts, LenProperties DEF NamesOK, Texts
<1>2. Len(prefix) \in Nat  BY LenProperties DEF Texts
<1>3. \A n \in names : Len(prefix) <= Len(n)
                        /\ \A i \in 1..Len(prefix) : Lower(prefix[i]) = Lower(n[i])
  BY <1>1, BeginsMeans
<1>4. /\ most \in Nat /\ \A n \in names : most <= Len(n)
      /\ \A m, n \in names : \A i \in 1..most : Lower(m[i]) = Lower(n[i])
      /\ Len(prefix) <= most
  <2>1. \A m, n \in names : \A i \in 1..Len(prefix) : Lower(m[i]) = Lower(n[i])
    BY <1>3
  <2>2. Len(prefix) <= most  BY <1>1, <1>2, <1>3, <2>1, CommonFacts
  <2> QED  BY <1>1, <2>2, CommonFacts
<1>5. Completions(dir, prefix) = {SubSeq(n, 1, most) : n \in names} \ {<<>>}
  BY DEF Completions
<1> HIDE DEF most
<1>6. ASSUME NEW d \in Completions(dir, prefix)
      PROVE  \E n \in names : /\ d \in Texts /\ Len(d) = most
                               /\ \A i \in 1..most : d[i] = n[i]
  <2>1. PICK n \in names : d = SubSeq(n, 1, most)  BY <1>5
  <2>2. n \in Texts /\ most \in 0..Len(n)  BY <1>1, <1>4
  <2> QED  BY <2>1, <2>2, HeadOf
<1>7. PICK n \in names : c \in Texts /\ Len(c) = most /\ \A i \in 1..most : c[i] = n[i]
  BY <1>6
<1>8. \A i \in 1..Len(c) : c[i] # Slash  BY <1>1, <1>4, <1>7 DEF NamesOK
<1>9. Begins(prefix, c)
  <2>1. \A i \in 1..Len(prefix) : i \in 1..most  BY <1>2, <1>4
  <2> QED  BY <1>3, <1>4, <1>7, <2>1, BeginsMeans
<1>10. ASSUME NEW d \in Completions(dir, prefix) PROVE Agree(c, d)
  <2>1. PICK m \in names : d \in Texts /\ Len(d) = most /\ \A i \in 1..most : d[i] = m[i]
    BY <1>6
  <2>2. \A i \in 1..most : Lower(c[i]) = Lower(d[i])  BY <1>4, <1>7, <2>1
  <2> QED  BY <1>7, <2>1, <2>2, AgreeMeans
<1>11. ASSUME NEW k \in Len(prefix)..Len(c)
       PROVE  Matches(dir, SubSeq(c, 1, k)) = Matches(dir, prefix)
  <2> DEFINE p == SubSeq(c, 1, k)
  <2>1. k \in 0..Len(c) /\ k \in Nat /\ k <= most  BY <1>2, <1>7, <1>4
  <2>2. p \in Texts /\ Len(p) = k /\ \A i \in 1..k : p[i] = c[i]  BY <1>7, <2>1, HeadOf
  <2> HIDE DEF p
  <2>3. ASSUME NEW m \in names PROVE Begins(p, m)
    <3>1. \A i \in 1..k : Lower(p[i]) = Lower(m[i])  BY <1>4, <1>7, <2>1, <2>2
    <3> QED  BY <1>1, <1>4, <2>1, <2>2, <3>1, BeginsMeans
  <2>4. ASSUME NEW m \in Texts, Begins(p, m) PROVE Begins(prefix, m)
    <3>1. k <= Len(m) /\ \A i \in 1..k : Lower(p[i]) = Lower(m[i])
      BY <2>2, <2>4, BeginsMeans
    <3>2. \A i \in 1..Len(prefix) : i \in 1..k /\ i \in 1..most  BY <1>2, <1>4, <2>1
    <3>3. \A i \in 1..Len(prefix) : Lower(prefix[i]) = Lower(m[i])
      BY <1>3, <1>7, <2>2, <3>1, <3>2
    <3>4. Len(m) \in Nat  BY LenProperties DEF Texts
    <3>5. Len(prefix) <= Len(m)  BY <1>2, <2>1, <3>1, <3>4
    <3> QED  BY <3>3, <3>5, BeginsMeans
  <2>5. Matches(dir, p) \subseteq names
    <3>1. ASSUME NEW m \in Matches(dir, p) PROVE m \in names
      <4>1. m \in Texts /\ Begins(p, m)  BY MatchesFacts DEF NamesOK
      <4>2. Begins(prefix, m)  BY <2>4, <4>1
      <4> QED  BY <4>2 DEF Matches
    <3> QED  BY <3>1
  <2>6. names \subseteq Matches(dir, p)  BY <2>3 DEF Matches
  <2> QED  BY <2>5, <2>6 DEF p
<1> QED  BY <1>5, <1>7, <1>8, <1>9, <1>10, <1>11

\* A token is completed in its name; its directory stays, but for a slash in
\* front and no other.
LEMMA CompletedFacts ==
  ASSUME NEW token \in Texts, NEW t \in Completed(token)
  PROVE  /\ t \in Texts /\ t # <<>>
         /\ ~InRoot(token) =>
              \E c \in Completions(DirPart(token), NamePart(token)) :
                /\ c \in Texts /\ Len(t) = LastSlash(token) + Len(c)
                /\ \A i \in 1..LastSlash(token) : t[i] = token[i]
                /\ \A i \in 1..Len(c) : t[LastSlash(token) + i] = c[i]
<1> DEFINE p == LastSlash(token)
           dir == DirPart(token)
           name == NamePart(token)
<1>1. /\ p \in 0..Len(token) /\ Len(token) \in Nat
      /\ p > 0 => token[p] = Slash
  BY LastSlashFacts, LenProperties DEF Texts
<1>2. /\ dir \in Texts /\ name \in Texts
      /\ Len(dir) = IF p > 0 THEN p - 1 ELSE 0
      /\ \A i \in 1..(p - 1) : dir[i] = token[i]
  BY Parts
<1>3. PICK c \in Completions(dir, name) :
        t = IF dir = <<>> THEN c ELSE dir \o <<Slash>> \o c
  BY DEF Completed
<1>4. c \in Texts /\ c # <<>>  BY <1>2, CompletionsFacts
<1>5. Len(c) \in Nat /\ Len(c) # 0 /\ Len(dir) \in Nat /\ Slash \in Chars
  BY <1>2, <1>4, EmptySeq, LenProperties, ShellLineAssumption DEF Texts
<1>6. InRoot(token) <=> p = 1  BY DEF InRoot
<1>7. dir = <<>> <=> Len(dir) = 0  BY <1>2, EmptySeq DEF Texts
<1> HIDE DEF p, dir, name
<1>8. CASE dir = <<>>
  <2>1. t = c /\ (p = 0 \/ p = 1)  BY <1>1, <1>2, <1>3, <1>7, <1>8
  <2>2. p = 0 => Len(t) = p + Len(c) /\ \A i \in 1..Len(c) : t[p + i] = c[i]
    BY <1>5, <2>1
  <2> QED  BY <1>3, <1>4, <1>6, <2>1, <2>2 DEF p, dir, name
<1>9. CASE dir # <<>>
  <2> DEFINE slash == <<Slash>>
             u == dir \o slash
  <2>1. slash \in Texts /\ Len(slash) = 1 /\ slash[1] = Slash  BY <1>5 DEF Texts
  <2> HIDE DEF slash
  <2>2. p > 1 /\ Len(dir) = p - 1  BY <1>1, <1>2, <1>5, <1>7, <1>9
  <2>3. /\ u \in Texts /\ Len(u) = p - 1 + 1
        /\ \A i \in 1..(p - 1 + 1) : u[i] = IF i <= p - 1 THEN dir[i] ELSE slash[i - (p - 1)]
    <3>1. /\ u \in Texts /\ Len(u) = Len(dir) + Len(slash)
          /\ \A i \in 1..(Len(dir) + Len(slash)) :
               u[i] = IF i <= Len(dir) THEN dir[i] ELSE slash[i - Len(dir)]
      BY <1>2, <2>1, ConcatProperties DEF Texts
    <3> HIDE DEF u
    <3> QED  BY <2>1, <2>2, <3>1
  <2>4. t = u \o c  BY <1>3, <1>9 DEF slash
  <2> HIDE DEF u
  <2>5. /\ t \in Texts /\ Len(t) = Len(u) + Len(c)
        /\ \A i \in 1..(Len(u) + Len(c)) : t[i] = IF i <= Len(u) THEN u[i] ELSE c[i - Len(u)]
    BY <1>4, <2>3, <2>4, ConcatProperties DEF Texts
  <2>6. Len(u) = p  BY <1>1, <2>3
  <2>7. ASSUME NEW i \in 1..p PROVE t[i] = token[i]
    <3>1. t[i] = u[i]  BY <1>1, <1>5, <2>5, <2>6
    <3>2. CASE i <= p - 1
      <4>1. i \in 1..(p - 1) /\ i \in 1..(p - 1 + 1)  BY <1>1, <3>2
      <4>2. u[i] = dir[i]  BY <2>3, <3>2, <4>1
      <4> QED  BY <1>2, <3>1, <4>1, <4>2
    <3>3. CASE ~(i <= p - 1)
      <4>1. i = p /\ i \in 1..(p - 1 + 1) /\ i - (p - 1) = 1  BY <1>1, <3>3
      <4>2. u[i] = slash[1]  BY <2>3, <3>3, <4>1
      <4>3. token[p] = Slash  BY <1>1, <2>2
      <4> QED  BY Zenon, <2>1, <3>1, <4>1, <4>2, <4>3
    <3> QED  BY <3>2, <3>3
  <2>8. ASSUME NEW i \in 1..Len(c) PROVE t[p + i] = c[i]
    <3>1. p + i \in 1..(p + Len(c)) /\ ~(p + i <= p) /\ (p + i) - p = i  BY <1>1, <1>5
    <3> QED  BY <2>5, <2>6, <3>1
  <2>9. t # <<>>
    <3>1. Len(t) # 0  BY <1>1, <1>5, <2>5, <2>6
    <3> QED  BY <3>1, EmptySeq
  <2> QED  BY <1>3, <1>4, <2>5, <2>6, <2>7, <2>8, <2>9 DEF p, dir, name
<1> QED  BY <1>8, <1>9

\* A piece of what a token is completed to, if it is not shorter than the
\* token, keeps the token and its candidates.
LEMMA CompletedExtends ==
  ASSUME NEW token \in Texts, NEW t \in Completed(token), ~InRoot(token),
         NEW new \in Texts, Len(token) <= Len(new), Len(new) <= Len(t),
         \A i \in 1..Len(new) : new[i] = t[i]
  PROVE  Extends(token, new)
<1> DEFINE p == LastSlash(token)
           dir == DirPart(token)
           name == NamePart(token)
<1>1. PICK c \in Completions(dir, name) :
        /\ c \in Texts /\ Len(t) = p + Len(c)
        /\ \A i \in 1..p : t[i] = token[i]
        /\ \A i \in 1..Len(c) : t[p + i] = c[i]
  BY CompletedFacts
<1>2. /\ p \in 0..Len(token)
      /\ p > 0 => token[p] = Slash
      /\ Len(token) \in Nat /\ Len(new) \in Nat /\ Len(c) \in Nat
  BY <1>1, LastSlashFacts, LenProperties DEF Texts
<1>3. /\ dir \in Texts /\ name \in Texts
      /\ Len(dir) = IF p > 0 THEN p - 1 ELSE 0
      /\ \A i \in 1..(p - 1) : dir[i] = token[i]
      /\ Len(name) = Len(token) - p
      /\ \A i \in 1..(Len(token) - p) : name[i] = token[p + i]
  BY Parts
<1>4. /\ \A i \in 1..Len(c) : c[i] # Slash
      /\ Begins(name, c)
      /\ \A k \in Len(name)..Len(c) : Matches(dir, SubSeq(c, 1, k)) = Matches(dir, name)
  BY <1>3, CompletionsFacts
<1> HIDE DEF p, dir, name
<1> DEFINE k == Len(new) - p
<1>5. k \in Nat /\ k \in Len(name)..Len(c) /\ k \in 0..Len(c) /\ p \in 0..Len(new)
  BY <1>1, <1>2, <1>3
<1>6. \A i \in 1..p : new[i] = token[i]  BY <1>1, <1>2
<1>7. ASSUME NEW i \in 1..k PROVE new[p + i] = c[i]
  <2>1. p + i \in 1..Len(new) /\ i \in 1..Len(c)  BY <1>2, <1>5
  <2> QED  BY <1>1, <2>1
<1>8. LastSlash(new) = p
  <2>1. p > 0 => new[p] = Slash  BY <1>2, <1>6
  <2>2. ASSUME NEW i \in (p + 1)..Len(new) PROVE new[i] # Slash
    <3>1. i - p \in 1..k /\ i - p \in 1..Len(c) /\ p + (i - p) = i  BY <1>2, <1>5
    <3> QED  BY <1>4, <1>7, <3>1
  <2> QED  BY <1>5, <2>1, <2>2, LastSlashIs
<1>9. /\ DirPart(new) \in Texts /\ NamePart(new) \in Texts
      /\ Len(DirPart(new)) = IF p > 0 THEN p - 1 ELSE 0
      /\ \A i \in 1..(p - 1) : DirPart(new)[i] = new[i]
      /\ Len(NamePart(new)) = k
      /\ \A i \in 1..k : NamePart(new)[i] = new[p + i]
  BY <1>8, Parts
<1>10. DirPart(new) = dir
  <2>1. Len(DirPart(new)) = Len(dir)  BY <1>3, <1>9
  <2>2. ASSUME NEW i \in 1..Len(dir) PROVE i \in 1..(p - 1) /\ i \in 1..p
    BY <1>2, <1>3
  <2>3. \A i \in 1..Len(dir) : DirPart(new)[i] = dir[i]  BY <1>3, <1>6, <1>9, <2>2
  <2> QED  BY <1>3, <1>9, <2>1, <2>3, SeqEqual DEF Texts
<1>11. NamePart(new) = SubSeq(c, 1, k)
  <2> DEFINE h == SubSeq(c, 1, k)
  <2>1. h \in Texts /\ Len(h) = k /\ \A i \in 1..k : h[i] = c[i]  BY <1>1, <1>5, HeadOf
  <2> HIDE DEF h
  <2>2. \A i \in 1..k : NamePart(new)[i] = h[i]  BY <1>7, <1>9, <2>1
  <2>3. NamePart(new) = h  BY <1>9, <2>1, <2>2, SeqEqual DEF Texts
  <2> QED  BY <2>3 DEF h
<1>12. Matches(DirPart(new), NamePart(new)) = Matches(dir, name)
  BY <1>4, <1>5, <1>10, <1>11
<1>13. Begins(token, new)
  <2>1. ASSUME NEW i \in 1..Len(token) PROVE Lower(token[i]) = Lower(new[i])
    <3>1. CASE i <= p
      <4>1. i \in 1..p  BY <1>2, <3>1
      <4> QED  BY <1>6, <4>1
    <3>2. CASE ~(i <= p)
      <4>1. i - p \in 1..Len(name) /\ i - p \in 1..k /\ p + (i - p) = i
            /\ i - p \in 1..(Len(token) - p)
        BY <1>2, <1>3, <1>5, <3>2
      <4>2. Lower(name[i - p]) = Lower(c[i - p])  BY <1>1, <1>3, <1>4, <4>1, BeginsMeans
      <4>3. name[i - p] = token[p + (i - p)] /\ c[i - p] = new[p + (i - p)]
        BY <1>3, <1>7, <4>1
      <4> QED  BY <4>1, <4>2, <4>3
    <3> QED  BY <3>1, <3>2
  <2> QED  BY <2>1, BeginsMeans
<1> QED  BY <1>12, <1>13 DEF Extends, dir, name

LEMMA CompletedNotShorter ==
  ASSUME NEW token \in Texts, NEW t \in Completed(token), ~InRoot(token)
  PROVE  Len(token) <= Len(t)
<1> DEFINE p == LastSlash(token)
<1>1. PICK c \in Completions(DirPart(token), NamePart(token)) :
        c \in Texts /\ Len(t) = p + Len(c)
  BY CompletedFacts
<1>2. NamePart(token) \in Texts /\ Len(NamePart(token)) = Len(token) - p  BY Parts
<1>3. Begins(NamePart(token), c)  BY <1>2, CompletionsFacts
<1>4. Len(NamePart(token)) <= Len(c)  BY <1>1, <1>2, <1>3, BeginsMeans
<1>5. p \in 0..Len(token) /\ Len(token) \in Nat /\ Len(c) \in Nat
  BY <1>1, LastSlashFacts, LenProperties DEF Texts
<1> HIDE DEF p
<1> QED  BY <1>1, <1>2, <1>4, <1>5

\* What Tab makes of a line: the text before the token stays, and the token is
\* completed as far as the line holds it.
LEMMA TabLinesFacts ==
  ASSUME NEW text \in Texts, Len(text) <= InputMax, NEW new \in TabLines(text),
         NEW from, from = TokenStart(text)
  PROVE  /\ new \in Texts /\ Len(new) <= InputMax
         /\ SubSeq(new, 1, from - 1) = SubSeq(text, 1, from - 1)
         /\ \E t \in Completed(SubSeq(text, from, Len(text))) :
              /\ t \in Texts
              /\ Len(new) = IF from - 1 + Len(t) <= InputMax THEN from - 1 + Len(t)
                           ELSE InputMax
              /\ \A i \in from..Len(new) : new[i] = t[i - from + 1]
<1> DEFINE head == SubSeq(text, 1, from - 1)
           token == SubSeq(text, from, Len(text))
<1>1. from \in 1..(Len(text) + 1) /\ Len(text) \in Nat /\ InputMax \in Nat
  BY TokenStartFacts, LenProperties, ShellLineAssumption DEF Texts
<1>2. /\ head \in Texts /\ Len(head) = from - 1
      /\ \A i \in 1..(from - 1) : head[i] = text[i]
  <2>1. from - 1 \in 0..Len(text)  BY <1>1
  <2> QED  BY <2>1, HeadOf
<1>3. token \in Texts  BY <1>1, PieceOf
<1>4. PICK t \in Completed(token) : new = Cut(head \o t)  BY DEF TabLines
<1>5. t \in Texts /\ Len(t) \in Nat  BY <1>3, CompletedFacts, LenProperties DEF Texts
<1> DEFINE u == head \o t
<1> HIDE DEF head, token
<1>6. /\ u \in Texts /\ Len(u) = from - 1 + Len(t)
      /\ \A i \in 1..(from - 1 + Len(t)) :
           u[i] = IF i <= from - 1 THEN head[i] ELSE t[i - (from - 1)]
  BY <1>2, <1>5, ConcatProperties DEF Texts
<1>7. new = Cut(u)  BY <1>4
<1> HIDE DEF u
<1>8. /\ new \in Texts /\ Len(new) = IF Len(u) <= InputMax THEN Len(u) ELSE InputMax
      /\ \A i \in 1..Len(new) : new[i] = u[i]
  BY <1>6, <1>7, CutFacts
<1>9. Len(new) \in Nat /\ from - 1 \in 0..Len(new) /\ Len(new) <= from - 1 + Len(t)
  BY <1>1, <1>5, <1>6, <1>8
<1>10. SubSeq(new, 1, from - 1) = head
  <2> DEFINE h == SubSeq(new, 1, from - 1)
  <2>1. h \in Texts /\ Len(h) = from - 1 /\ \A i \in 1..(from - 1) : h[i] = new[i]
    BY <1>8, <1>9, HeadOf
  <2> HIDE DEF h
  <2>2. ASSUME NEW i \in 1..(from - 1) PROVE h[i] = head[i]
    <3>1. i \in 1..Len(new) /\ i \in 1..(from - 1 + Len(t)) /\ i <= from - 1
      BY <1>1, <1>5, <1>9
    <3> QED  BY <1>6, <1>8, <2>1, <3>1
  <2>3. h = head  BY <1>2, <2>1, <2>2, SeqEqual DEF Texts
  <2> QED  BY <2>3 DEF h
<1>11. ASSUME NEW i \in from..Len(new) PROVE new[i] = t[i - from + 1]
  <2>1. /\ i \in 1..Len(new) /\ i \in 1..(from - 1 + Len(t)) /\ ~(i <= from - 1)
        /\ i - (from - 1) = i - from + 1
    BY <1>1, <1>5, <1>9
  <2>2. u[i] = t[i - (from - 1)]  BY <1>6, <2>1
  <2> QED  BY <1>8, <2>1, <2>2
<1>12. /\ Len(new) = IF from - 1 + Len(t) <= InputMax THEN from - 1 + Len(t) ELSE InputMax
       /\ Len(new) <= InputMax
  BY <1>1, <1>5, <1>6, <1>8
<1>13. \E v \in Completed(token) :
         /\ v \in Texts
         /\ Len(new) = IF from - 1 + Len(v) <= InputMax THEN from - 1 + Len(v) ELSE InputMax
         /\ \A i \in from..Len(new) : new[i] = v[i - from + 1]
  BY <1>4, <1>5, <1>11, <1>12, Zenon
<1> QED  BY <1>8, <1>10, <1>12, <1>13, Zenon DEF head, token

LEMMA TabExtends ==
  ASSUME NEW text \in Texts, Len(text) <= InputMax, NEW new \in TabLines(text),
         ~InRoot(SubSeq(text, TokenStart(text), Len(text)))
  PROVE  Extends(SubSeq(text, TokenStart(text), Len(text)),
                 SubSeq(new, TokenStart(text), Len(new)))
<1> DEFINE from == TokenStart(text)
           token == SubSeq(text, from, Len(text))
<1>1. from \in 1..(Len(text) + 1) /\ Len(text) \in Nat /\ InputMax \in Nat
  BY TokenStartFacts, LenProperties, ShellLineAssumption DEF Texts
<1>2. new \in Texts /\ Len(new) \in Nat  BY TabLinesFacts, LenProperties DEF Texts
<1>3. PICK t \in Completed(token) :
        /\ t \in Texts
        /\ Len(new) = IF from - 1 + Len(t) <= InputMax THEN from - 1 + Len(t) ELSE InputMax
        /\ \A i \in from..Len(new) : new[i] = t[i - from + 1]
  BY TabLinesFacts
<1>4. token \in Texts /\ Len(token) = Len(text) - (from - 1)
  <2>1. /\ token \in Texts
        /\ Len(token) = IF from <= Len(text) THEN Len(text) - from + 1 ELSE 0
    BY <1>1, PieceOf
  <2> HIDE DEF token, from
  <2> QED  BY <1>1, <2>1
<1>5. Len(token) <= Len(t) /\ Len(t) \in Nat
  BY <1>3, <1>4, CompletedNotShorter, LenProperties DEF Texts
<1> DEFINE tail == SubSeq(new, from, Len(new))
<1>6. /\ tail \in Texts
      /\ Len(tail) = IF from <= Len(new) THEN Len(new) - from + 1 ELSE 0
      /\ \A i \in 1..(Len(new) - from + 1) : tail[i] = new[from + i - 1]
  BY <1>1, <1>2, PieceOf
<1> HIDE DEF tail, token, from
<1>7. Len(token) <= Len(tail) /\ Len(tail) <= Len(t)
  <2>1. CASE from - 1 + Len(t) <= InputMax
    <3>1. Len(new) = from - 1 + Len(t)  BY <1>3, <2>1
    <3>2. Len(tail) = IF from <= Len(new) THEN Len(new) - from + 1 ELSE 0
      BY <1>6
    <3>3. Len(tail) = Len(t)  BY <1>1, <1>5, <3>1, <3>2
    <3> QED  BY <1>5, <3>3
  <2>2. CASE ~(from - 1 + Len(t) <= InputMax)
    <3>1. Len(new) = InputMax  BY <1>3, <2>2
    <3>2. Len(tail) = IF from <= InputMax THEN InputMax - from + 1 ELSE 0
      BY <1>6, <3>1, Zenon
    <3>3. Len(tail) <= Len(t)  BY <1>1, <1>5, <2>2, <3>2
    <3>4. Len(token) <= Len(tail)  BY <1>1, <1>4, <3>2
    <3> QED  BY <3>3, <3>4
  <2> QED  BY <2>1, <2>2
<1>8. ASSUME NEW i \in 1..Len(tail) PROVE tail[i] = t[i]
  <2> DEFINE j == from + i - 1
  <2>1. i \in 1..(Len(new) - from + 1) /\ j \in from..Len(new) /\ j - from + 1 = i
    BY <1>1, <1>2, <1>6
  <2>2. tail[i] = new[j]  BY <1>6, <2>1
  <2> HIDE DEF j
  <2>3. new[j] = t[j - from + 1]  BY <1>3, <2>1
  <2> QED  BY <2>1, <2>2, <2>3
<1>9. Extends(token, tail)
  BY <1>3, <1>4, <1>6, <1>7, <1>8, CompletedExtends DEF token, from
<1> QED  BY <1>9 DEF tail, token, from

\* The grey text and Tab take the line apart to the same end.
LEMMA GhostAgrees ==
  ASSUME NEW text \in Texts, Len(text) <= InputMax, NEW new \in TabLines(text),
         TokenStart(text) = 1, LastSlash(text) > 1, NamePart(text) # <<>>
  PROVE  IF Ghosts(text) = {} THEN Agree(new, text)
         ELSE \A ghost \in Ghosts(text) : Agree(new, Cut(text \o ghost))
<1> DEFINE p == LastSlash(text)
           dir == DirPart(text)
           name == NamePart(text)
           big == {d \in Completions(dir, name) : Len(d) > Len(name)}
<1>1. /\ Len(text) \in Nat /\ InputMax \in Nat /\ p \in 1..Len(text)
      /\ SubSeq(text, 1, Len(text)) = text /\ ~InRoot(text)
  BY LastSlashFacts, LenProperties, SubSeqFull, ShellLineAssumption DEF Texts, InRoot
<1>2. PICK t \in Completed(text) :
        /\ t \in Texts
        /\ Len(new) = IF Len(t) <= InputMax THEN Len(t) ELSE InputMax
        /\ \A i \in 1..Len(new) : new[i] = t[i]
  <2>1. PICK t \in Completed(text) :
          /\ t \in Texts
          /\ Len(new) = IF 1 - 1 + Len(t) <= InputMax THEN 1 - 1 + Len(t) ELSE InputMax
          /\ \A i \in 1..Len(new) : new[i] = t[i - 1 + 1]
    <3> DEFINE whole == SubSeq(text, 1, Len(text))
    <3>1. \E t \in Completed(whole) :
            /\ t \in Texts
            /\ Len(new) = IF 1 - 1 + Len(t) <= InputMax THEN 1 - 1 + Len(t) ELSE InputMax
            /\ \A i \in 1..Len(new) : new[i] = t[i - 1 + 1]
      BY TabLinesFacts
    <3>2. whole = text  BY <1>1
    <3> HIDE DEF whole
    <3> QED  BY <3>1, <3>2
  <2>2. Len(t) \in Nat  BY <2>1, LenProperties DEF Texts
  <2>3. new \in Texts  BY TabLinesFacts
  <2>4. Len(new) \in Nat  BY <2>3, LenProperties DEF Texts
  <2>5. \A i \in 1..Len(new) : i - 1 + 1 = i  BY <2>4
  <2> QED  BY <2>1, <2>2, <2>5
<1>3. PICK c \in Completions(dir, name) :
        /\ c \in Texts /\ Len(t) = p + Len(c)
        /\ \A i \in 1..p : t[i] = text[i]
        /\ \A i \in 1..Len(c) : t[p + i] = c[i]
  BY <1>1, <1>2, CompletedFacts
<1>4. /\ name \in Texts /\ Len(name) = Len(text) - p
      /\ \A i \in 1..(Len(text) - p) : name[i] = text[p + i]
  BY Parts
<1>5. /\ Begins(name, c)
      /\ \A d \in Completions(dir, name) : d \in Texts /\ Agree(c, d)
  BY <1>4, CompletionsFacts
<1>6. /\ new \in Texts /\ Len(new) \in Nat /\ Len(t) \in Nat /\ Len(c) \in Nat
      /\ Len(name) \in Nat
  BY <1>2, <1>3, <1>4, TabLinesFacts, LenProperties DEF Texts
<1>7. Ghosts(text) = {SubSeq(d, Len(name) + 1, Len(d)) : d \in big}
  BY <1>1 DEF Ghosts
<1>8. Len(name) <= Len(c) /\ \A i \in 1..Len(name) : Lower(name[i]) = Lower(c[i])
  BY <1>3, <1>4, <1>5, BeginsMeans
<1> HIDE DEF p, dir, name
<1>9. ASSUME NEW i \in 1..Len(text) PROVE Lower(t[i]) = Lower(text[i])
  <2>1. CASE i <= p
    <3>1. i \in 1..p  BY <1>1, <2>1
    <3> QED  BY <1>3, <3>1
  <2>2. CASE ~(i <= p)
    <3>1. /\ i - p \in 1..(Len(text) - p) /\ i - p \in 1..Len(name)
          /\ i - p \in 1..Len(c) /\ p + (i - p) = i
      BY <1>1, <1>4, <1>6, <1>8, <2>2
    <3>2. name[i - p] = text[p + (i - p)]  BY <1>4, <3>1
    <3>3. t[p + (i - p)] = c[i - p]  BY <1>3, <3>1
    <3>4. Lower(name[i - p]) = Lower(c[i - p])  BY <1>8, <3>1
    <3> QED  BY <3>1, <3>2, <3>3, <3>4
  <2> QED  BY <2>1, <2>2
<1>10. CASE Ghosts(text) = {}
  <2>1. c \notin big  BY <1>7, <1>10
  <2>2. Len(c) = Len(name)  BY <1>3, <1>6, <1>8, <2>1
  <2>3. Len(new) = Len(text)  BY <1>1, <1>2, <1>3, <1>4, <2>2
  <2>4. \A i \in 1..Len(new) : Lower(new[i]) = Lower(text[i])  BY <1>2, <1>9, <2>3
  <2> QED  BY <1>6, <1>10, <2>3, <2>4, AgreeMeans
<1>11. ASSUME NEW ghost \in Ghosts(text) PROVE Agree(new, Cut(text \o ghost))
  <2>1. PICK d \in big : ghost = SubSeq(d, Len(name) + 1, Len(d))  BY <1>7
  <2>2. d \in Texts /\ Len(d) \in Nat /\ Len(d) > Len(name) /\ Agree(c, d)
    BY <1>5, LenProperties DEF Texts
  <2> HIDE DEF big
  <2>3. Len(c) = Len(d) /\ \A i \in 1..Len(c) : Lower(c[i]) = Lower(d[i])
    BY <1>3, <2>2, AgreeMeans
  <2>4. /\ ghost \in Texts /\ Len(ghost) = Len(d) - Len(name)
        /\ \A i \in 1..(Len(d) - Len(name)) : ghost[i] = d[Len(name) + i]
    <3>1. Len(name) + 1 \in Nat \ {0} /\ Len(d) \in 0..Len(d)  BY <1>6, <2>2
    <3>2. /\ ghost \in Texts
          /\ Len(ghost) = IF Len(name) + 1 <= Len(d) THEN Len(d) - (Len(name) + 1) + 1 ELSE 0
          /\ \A i \in 1..(Len(d) - (Len(name) + 1) + 1) : ghost[i] = d[Len(name) + 1 + i - 1]
      BY <2>1, <2>2, <3>1, PieceOf
    <3>3. Len(ghost) = Len(d) - Len(name)  BY <1>6, <2>2, <3>2
    <3>4. ASSUME NEW i \in 1..(Len(d) - Len(name)) PROVE ghost[i] = d[Len(name) + i]
      <4>1. /\ i \in 1..(Len(d) - (Len(name) + 1) + 1)
            /\ Len(name) + 1 + i - 1 = Len(name) + i
        BY <1>6, <2>2
      <4>2. ghost[i] = d[Len(name) + 1 + i - 1]  BY <3>2, <4>1
      <4> QED  BY <4>1, <4>2
    <3> QED  BY <3>2, <3>3, <3>4
  <2> DEFINE w == text \o ghost
  <2>5. /\ w \in Texts /\ Len(w) = Len(text) + Len(ghost)
        /\ \A i \in 1..(Len(text) + Len(ghost)) :
             w[i] = IF i <= Len(text) THEN text[i] ELSE ghost[i - Len(text)]
    BY <2>4, ConcatProperties DEF Texts
  <2> HIDE DEF w
  <2>6. Len(w) = Len(t)  BY <1>1, <1>3, <1>4, <1>6, <2>2, <2>3, <2>4, <2>5
  <2>7. ASSUME NEW i \in 1..Len(t) PROVE Lower(t[i]) = Lower(w[i])
    <3>1. i \in 1..(Len(text) + Len(ghost))  BY <2>5, <2>6
    <3>2. CASE i <= Len(text)
      <4>1. i \in 1..Len(text)  BY <1>1, <3>2
      <4>2. w[i] = text[i]  BY <2>5, <3>1, <3>2
      <4> QED  BY <1>9, <4>1, <4>2
    <3>3. CASE ~(i <= Len(text))
      <4>1. /\ i - Len(text) \in 1..(Len(d) - Len(name)) /\ i - p \in 1..Len(c)
            /\ p + (i - p) = i /\ Len(name) + (i - Len(text)) = i - p
        BY <1>1, <1>3, <1>4, <1>6, <2>2, <2>3, <2>4, <3>1, <3>3
      <4>2. w[i] = ghost[i - Len(text)]  BY <2>5, <3>1, <3>3
      <4>3. ghost[i - Len(text)] = d[Len(name) + (i - Len(text))]  BY <2>4, <4>1
      <4>4. t[p + (i - p)] = c[i - p]  BY <1>3, <4>1
      <4>5. Lower(c[i - p]) = Lower(d[i - p])  BY <2>3, <4>1
      <4> QED  BY <4>1, <4>2, <4>3, <4>4, <4>5
    <3> QED  BY <3>2, <3>3
  <2> DEFINE v == Cut(w)
  <2>8. /\ v \in Texts /\ Len(v) = Len(new)
        /\ \A i \in 1..Len(new) : v[i] = w[i]
    BY <1>2, <2>5, <2>6, CutFacts
  <2> HIDE DEF v
  <2>9. \A i \in 1..Len(new) : Lower(new[i]) = Lower(v[i])
    <3>1. \A i \in 1..Len(new) : i \in 1..Len(t)  BY <1>1, <1>2, <1>6
    <3> QED  BY <1>2, <2>7, <2>8, <3>1
  <2>10. Agree(new, v)  BY <1>6, <2>8, <2>9, AgreeMeans
  <2> QED  BY <2>10 DEF v, w
<1> QED  BY <1>10, <1>11

----------------------------------------------------------------------------
(* The line and the history.                                               *)

Fitting == {t \in Texts : Len(t) <= InputMax}

LineType ==
  /\ current_input \in Fitting /\ input_pos \in 0..Len(current_input)
  /\ history \in Seq(Fitting) /\ history_index \in -1..(Len(history) - 1)
  /\ rm_confirm_mode \in BOOLEAN /\ rm_pending_cmd \in Fitting
  /\ goto_buf \in Fitting
  /\ ran \in Seq(Fitting) /\ touched \in BOOLEAN

\* What was recalled and not changed is the entry the index stands for.
Recalled ==
  history_index >= 0 /\ ~touched
    => current_input = history[Len(history) - history_index]

\* The newest entry is the command run last: what shell_add_history compares
\* with is what the history property speaks of.
NewestIsLastRun == ran # <<>> => history # <<>> /\ Last(history) = Last(ran)

IInv == LineType /\ Recalled /\ NewestIsLastRun /\ HistoryIsWhatRan

LEMMA FreshFacts ==
  ASSUME NEW runs \in Seq(Fitting)
  PROVE  /\ Fresh(runs) \subseteq 1..Len(runs) /\ IsFiniteSet(Fresh(runs))
         /\ Cardinality(Fresh(runs)) \in Nat
         /\ \A i \in Fresh(runs) : Age(runs, i) \in 1..Cardinality(Fresh(runs))
<1>1. Len(runs) \in Nat /\ DOMAIN runs = 1..Len(runs)  BY LenProperties
<1>2. Fresh(runs) \subseteq 1..Len(runs)  BY <1>1 DEF Fresh
<1>3. IsFiniteSet(Fresh(runs))
  <2>1. IsFiniteSet(1..Len(runs))  BY <1>1, FS_Interval
  <2> QED  BY <1>2, <2>1, FS_Subset
<1>4. Cardinality(Fresh(runs)) \in Nat  BY <1>3, FS_CardinalityType
<1>5. ASSUME NEW i \in Fresh(runs)
      PROVE  Age(runs, i) \in 1..Cardinality(Fresh(runs))
  <2> DEFINE S == {k \in Fresh(runs) : k >= i}
  <2>1. S \in SUBSET Fresh(runs) /\ i \in S  BY <1>2
  <2>2. IsFiniteSet(S) /\ Cardinality(S) <= Cardinality(Fresh(runs))
    BY <1>3, <2>1, FS_Subset
  <2>3. Cardinality(S) \in Nat /\ Cardinality(S) # 0
    BY <2>1, <2>2, FS_CardinalityType, FS_EmptySet
  <2>4. Age(runs, i) = Cardinality(S)  BY DEF Age
  <2> HIDE DEF S
  <2> QED  BY <1>4, <2>2, <2>3, <2>4
<1> QED  BY <1>2, <1>3, <1>4, <1>5

\* One more run: a repeated one leaves all as it was, another one is one run
\* newer than all before.
LEMMA FreshAppend ==
  ASSUME NEW runs \in Seq(Fitting), NEW cmd \in Fitting
  PROVE  /\ runs # <<>> /\ Last(runs) = cmd =>
              /\ Fresh(Append(runs, cmd)) = Fresh(runs)
              /\ \A i \in Fresh(runs) : Age(Append(runs, cmd), i) = Age(runs, i)
         /\ runs = <<>> \/ Last(runs) # cmd =>
              /\ Fresh(Append(runs, cmd)) = Fresh(runs) \cup {Len(runs) + 1}
              /\ Cardinality(Fresh(Append(runs, cmd))) = Cardinality(Fresh(runs)) + 1
              /\ \A i \in Fresh(runs) : Age(Append(runs, cmd), i) = Age(runs, i) + 1
              /\ Age(Append(runs, cmd), Len(runs) + 1) = 1
<1> DEFINE n == Len(runs) + 1
           more == Append(runs, cmd)
<1>1. Len(runs) \in Nat /\ DOMAIN runs = 1..Len(runs) /\ (runs = <<>> <=> Len(runs) = 0)
  BY LenProperties, EmptySeq
<1>2. /\ DOMAIN more = 1..n /\ more[n] = cmd
      /\ \A i \in 1..Len(runs) : more[i] = runs[i]
  BY AppendProperties, LenProperties
<1>3. /\ Fresh(runs) \subseteq 1..Len(runs) /\ IsFiniteSet(Fresh(runs))
      /\ n \notin Fresh(runs)
  BY <1>1, FreshFacts
<1> HIDE DEF more
<1>4. \A i \in 1..Len(runs) : i \in Fresh(more) <=> i \in Fresh(runs)
  <2> TAKE i \in 1..Len(runs)
  <2>1. i \in DOMAIN more /\ i \in DOMAIN runs /\ more[i] = runs[i]  BY <1>1, <1>2
  <2>2. i # 1 => more[i - 1] = runs[i - 1]
    <3>1. i # 1 => i - 1 \in 1..Len(runs)  BY <1>1
    <3> QED  BY <1>2, <3>1
  <2> QED  BY <2>1, <2>2 DEF Fresh
<1>5. n \in Fresh(more) <=> runs = <<>> \/ Last(runs) # cmd
  <2>1. n \in DOMAIN more /\ n - 1 = Len(runs)  BY <1>1, <1>2
  <2>2. n \in Fresh(more) <=> n = 1 \/ more[n] # more[n - 1]  BY <2>1 DEF Fresh
  <2>3. CASE n = 1  BY <1>1, <2>2, <2>3
  <2>4. CASE n # 1
    <3>1. n - 1 \in 1..Len(runs)  BY <1>1, <2>4
    <3>2. more[n - 1] = Last(runs)  BY <1>2, <2>1, <3>1 DEF Last
    <3> QED  BY <1>1, <1>2, <2>2, <2>4, <3>2
  <2> QED  BY <2>3, <2>4
<1>6. Fresh(more) \subseteq 1..n  BY <1>2 DEF Fresh
<1>7. \A i \in 1..n : i = n \/ i \in 1..Len(runs)  BY <1>1
<1>8. CASE runs # <<>> /\ Last(runs) = cmd
  <2>1. Fresh(more) = Fresh(runs)  BY <1>3, <1>4, <1>5, <1>6, <1>7, <1>8
  <2> QED  BY <1>8, <2>1 DEF Age, more
<1>9. CASE runs = <<>> \/ Last(runs) # cmd
  <2>1. Fresh(more) = Fresh(runs) \cup {n}  BY <1>3, <1>4, <1>5, <1>6, <1>7, <1>9
  <2>2. Cardinality(Fresh(more)) = Cardinality(Fresh(runs)) + 1
    BY <1>3, <2>1, FS_AddElement
  <2>3. ASSUME NEW i \in Fresh(runs) PROVE Age(more, i) = Age(runs, i) + 1
    <3> DEFINE S == {k \in Fresh(runs) : k >= i}
    <3>1. {k \in Fresh(more) : k >= i} = S \cup {n}  BY <1>1, <1>3, <2>1
    <3>2. S \in SUBSET Fresh(runs) /\ n \notin S  BY <1>3
    <3>3. Age(runs, i) = Cardinality(S) /\ Age(more, i) = Cardinality(S \cup {n})
      BY <3>1 DEF Age
    <3> HIDE DEF S
    <3>4. IsFiniteSet(S)  BY <1>3, <3>2, FS_Subset
    <3> QED  BY <3>2, <3>3, <3>4, FS_AddElement
  <2>4. Age(more, n) = 1
    <3>1. {k \in Fresh(more) : k >= n} = {n}  BY <1>1, <1>3, <2>1
    <3> QED  BY <3>1, FS_Singleton DEF Age
  <2> QED  BY <1>9, <2>1, <2>2, <2>3, <2>4 DEF more
<1> QED  BY <1>8, <1>9 DEF more

LEMMA AddedFacts ==
  ASSUME NEW cmd \in Fitting, history \in Seq(Fitting)
  PROVE  /\ Added(cmd) \in Seq(Fitting) /\ Added(cmd) # <<>> /\ Last(Added(cmd)) = cmd
         /\ history # <<>> /\ Last(history) = cmd => Added(cmd) = history
         /\ ~(history # <<>> /\ Last(history) = cmd) /\ Len(history) < HistMax =>
              /\ Len(Added(cmd)) = Len(history) + 1
              /\ \A i \in 1..Len(history) : Added(cmd)[i] = history[i]
         /\ ~(history # <<>> /\ Last(history) = cmd) /\ ~(Len(history) < HistMax) =>
              /\ Len(Added(cmd)) = Len(history)
              /\ \A i \in 1..(Len(history) - 1) : Added(cmd)[i] = history[i + 1]
<1>1. Len(history) \in Nat /\ HistMax \in Nat \ {0} /\ (history = <<>> <=> Len(history) = 0)
  BY LenProperties, EmptySeq, ShellLineAssumption
<1>2. CASE history # <<>> /\ Last(history) = cmd  BY <1>2 DEF Added
<1>3. CASE ~(history # <<>> /\ Last(history) = cmd)
  <2> DEFINE old == IF Len(history) < HistMax THEN history ELSE Tail(history)
  <2>1. Added(cmd) = Append(old, cmd)  BY <1>3 DEF Added
  <2>2. CASE Len(history) < HistMax
    <3>1. Added(cmd) = Append(history, cmd)  BY <2>1, <2>2
    <3>2. Last(Added(cmd)) = cmd  BY <3>1, AppendProperties DEF Last
    <3> QED  BY <1>3, <2>2, <3>1, <3>2, AppendProperties
  <2>3. CASE ~(Len(history) < HistMax)
    <3>1. Added(cmd) = Append(Tail(history), cmd) /\ history # <<>>  BY <1>1, <2>1, <2>3
    <3>2. /\ Tail(history) \in Seq(Fitting) /\ Len(Tail(history)) = Len(history) - 1
          /\ \A i \in 1..Len(Tail(history)) : Tail(history)[i] = history[i + 1]
      BY <3>1, HeadTailProperties
    <3>3. /\ Added(cmd) \in Seq(Fitting) /\ Added(cmd) # <<>>
          /\ Len(Added(cmd)) = Len(Tail(history)) + 1
          /\ \A i \in 1..Len(Tail(history)) : Added(cmd)[i] = Tail(history)[i]
          /\ Added(cmd)[Len(Tail(history)) + 1] = cmd
      BY <3>1, <3>2, AppendProperties
    <3>4. Len(Added(cmd)) = Len(history)  BY <1>1, <3>2, <3>3
    <3>5. \A i \in 1..(Len(history) - 1) : Added(cmd)[i] = history[i + 1]
      BY <3>2, <3>3
    <3>6. Last(Added(cmd)) = cmd  BY <3>3 DEF Last
    <3> QED  BY <1>3, <2>3, <3>3, <3>4, <3>5, <3>6
  <2> QED  BY <2>2, <2>3
<1> QED  BY <1>2, <1>3

\* Running one more command adds it to the end of what ran and of the history.
LEMMA AddedKeepsHistory ==
  ASSUME IInv, NEW cmd \in Fitting, history' = Added(cmd), ran' = Append(ran, cmd)
  PROVE  /\ history' \in Seq(Fitting) /\ ran' \in Seq(Fitting)
         /\ NewestIsLastRun' /\ HistoryIsWhatRan'
<1> DEFINE F == Fresh(ran)
           c == Cardinality(F)
           F2 == Fresh(ran')
           c2 == Cardinality(F2)
<1>1. /\ history \in Seq(Fitting) /\ ran \in Seq(Fitting)
      /\ ran # <<>> => history # <<>> /\ Last(history) = Last(ran)
  BY DEF IInv, LineType, NewestIsLastRun
<1>2. /\ Len(history) \in Nat /\ Len(ran) \in Nat /\ HistMax \in Nat \ {0}
      /\ (history = <<>> <=> Len(history) = 0)
  BY <1>1, LenProperties, EmptySeq, ShellLineAssumption
<1>3. /\ F \subseteq 1..Len(ran) /\ c \in Nat
      /\ \A i \in F : Age(ran, i) \in 1..c
  BY <1>1, FreshFacts
<1>4. /\ Len(history) = IF c <= HistMax THEN c ELSE HistMax
      /\ \A i \in F : Age(ran, i) <= HistMax => history[Len(history) + 1 - Age(ran, i)] = ran[i]
  BY <1>2, <1>3, MinOfTwo DEF IInv, HistoryIsWhatRan
<1>5. /\ ran' \in Seq(Fitting) /\ ran' # <<>> /\ ran'[Len(ran) + 1] = cmd
      /\ Len(ran') = Len(ran) + 1 /\ \A i \in 1..Len(ran) : ran'[i] = ran[i]
  BY <1>1, AppendProperties
<1>6. history' \in Seq(Fitting) /\ history' # <<>> /\ Last(history') = cmd
  BY <1>1, AddedFacts
<1>7. NewestIsLastRun'
  <2>1. Last(ran') = cmd  BY <1>5 DEF Last
  <2> QED  BY <1>6, <2>1 DEF NewestIsLastRun
<1>8. ran = <<>> => history = <<>>
  <2>1. SUFFICES ASSUME ran = <<>> PROVE history = <<>>  OBVIOUS
  <2>2. F = {}
    <3>1. Len(ran) = 0  BY <2>1
    <3> QED  BY <1>3, <3>1
  <2>3. c = 0  BY <2>2, FS_EmptySet
  <2> HIDE DEF c
  <2> QED  BY <1>2, <1>4, <2>3
<1>9. c2 \in Nat  BY <1>5, FreshFacts
<1>10. CASE history # <<>> /\ Last(history) = cmd
  <2>1. ran # <<>> /\ Last(ran) = cmd  BY <1>1, <1>8, <1>10
  <2>2. F2 = F /\ \A i \in F : Age(ran', i) = Age(ran, i)  BY <1>1, <2>1, FreshAppend
  <2>3. history' = history  BY <1>1, <1>10, AddedFacts
  <2>4. HistoryIsWhatRan
    BY DEF IInv
  <2>5. \A i \in F : ran'[i] = ran[i]  BY <1>3, <1>5
  <2>6. \A i \in F2 : Age(ran', i) <= HistMax
                        => history'[Len(history') + 1 - Age(ran', i)] = ran'[i]
    BY <1>4, <2>2, <2>3, <2>5
  <2>7. Len(history') = Min({c2, HistMax})  BY <2>2, <2>3, <2>4 DEF HistoryIsWhatRan
  <2> QED  BY <1>5, <1>6, <1>7, <2>6, <2>7 DEF HistoryIsWhatRan
<1>11. CASE ~(history # <<>> /\ Last(history) = cmd)
  <2>1. ran = <<>> \/ Last(ran) # cmd  BY <1>1, <1>11
  <2> DEFINE n == Len(ran) + 1
  <2>2. /\ F2 = F \cup {n} /\ c2 = c + 1
        /\ \A i \in F : Age(ran', i) = Age(ran, i) + 1
        /\ Age(ran', n) = 1
    BY <1>1, <2>1, FreshAppend
  <2>3. Len(history') = IF Len(history) < HistMax THEN Len(history) + 1 ELSE Len(history)
    BY <1>1, <1>11, AddedFacts
  <2>4. Len(history') = Min({c2, HistMax})
    <3>1. Min({c2, HistMax}) = IF c2 <= HistMax THEN c2 ELSE HistMax
      BY <1>2, <1>9, MinOfTwo
    <3> HIDE DEF c, c2
    <3> QED  BY <1>2, <1>3, <1>4, <2>2, <2>3, <3>1
  <2>5. history'[Len(history') + 1 - Age(ran', n)] = ran'[n]
    <3>1. Len(history') + 1 - Age(ran', n) = Len(history')  BY <1>2, <2>2, <2>3
    <3> QED  BY <1>5, <1>6, <3>1 DEF Last
  <2>6. ASSUME NEW i \in F, Age(ran', i) <= HistMax
        PROVE  history'[Len(history') + 1 - Age(ran', i)] = ran'[i]
    <3> DEFINE a == Age(ran, i)
               j == Len(history) + 1 - a
    <3>1. a \in 1..c /\ Age(ran', i) = a + 1  BY <1>3, <2>2
    <3>2. ran'[i] = ran[i]  BY <1>3, <1>5
    <3> HIDE DEF a, c
    <3>3. a <= HistMax /\ a + 1 <= HistMax  BY <1>2, <1>3, <2>6, <3>1
    <3>4. history[j] = ran[i]  BY <1>4, <3>3 DEF a
    <3>5. CASE Len(history) < HistMax
      <4>1. Len(history) = c  BY <1>2, <1>4, <3>5
      <4>2. j \in 1..Len(history)  BY <1>2, <1>3, <3>1, <4>1
      <4>3. history'[j] = history[j]  BY <1>1, <1>11, <3>5, <4>2, AddedFacts
      <4>4. Len(history') + 1 - Age(ran', i) = j  BY <1>2, <1>3, <2>3, <3>1, <3>5
      <4> QED  BY <3>2, <3>4, <4>3, <4>4, Zenon
    <3>6. CASE ~(Len(history) < HistMax)
      <4>1. Len(history) = HistMax  BY <1>2, <1>3, <1>4, <3>6
      <4>2. j - 1 \in 1..(Len(history) - 1) /\ j - 1 + 1 = j
        BY <1>2, <1>3, <3>1, <3>3, <4>1
      <4>3. history'[j - 1] = history[j]  BY <1>1, <1>11, <3>6, <4>2, AddedFacts
      <4>4. Len(history') + 1 - Age(ran', i) = j - 1  BY <1>2, <1>3, <2>3, <3>1, <3>6
      <4> QED  BY <3>2, <3>4, <4>3, <4>4, Zenon
    <3> QED  BY <3>5, <3>6
  <2>7. \A i \in F2 : Age(ran', i) <= HistMax
                        => history'[Len(history') + 1 - Age(ran', i)] = ran'[i]
    BY <2>2, <2>5, <2>6
  <2> QED  BY <1>5, <1>6, <1>7, <2>4, <2>7 DEF HistoryIsWhatRan
<1> QED  BY <1>10, <1>11

LEMMA EmptyFits == <<>> \in Fitting /\ Len(<<>>) = 0
BY EmptySeq, ShellLineAssumption DEF Fitting, Texts

LEMMA BeforeFits ==
  ASSUME LineType
  PROVE  /\ Len(current_input) \in Nat /\ input_pos \in 0..Len(current_input)
         /\ Before \in Texts /\ Len(Before) = input_pos /\ Len(Before) <= InputMax
         /\ After \in Texts /\ Len(After) = Len(current_input) - input_pos
<1> DEFINE len == Len(current_input)
<1>1. /\ current_input \in Texts /\ len \in Nat /\ len <= InputMax /\ InputMax \in Nat
      /\ input_pos \in 0..len
  BY LenProperties, ShellLineAssumption DEF LineType, Fitting, Texts
<1>2. Before \in Texts /\ Len(Before) = input_pos  BY <1>1, HeadOf DEF Before
<1>3. /\ After \in Texts
      /\ Len(After) = IF input_pos + 1 <= len THEN len - (input_pos + 1) + 1 ELSE 0
  <2>1. input_pos + 1 \in Nat \ {0} /\ len \in 0..len  BY <1>1
  <2> QED  BY <1>1, <2>1, PieceOf DEF After
<1> HIDE DEF len
<1>4. Len(After) = len - input_pos  BY <1>1, <1>3
<1> QED  BY <1>1, <1>2, <1>3, <1>4 DEF len

LEMMA TrimmedFits ==
  ASSUME NEW text \in Fitting
  PROVE  Trimmed(text) \in Fitting
<1> DEFINE T == {0} \cup {i \in DOMAIN text : text[i] # Blank}
<1>1. /\ text \in Texts /\ Len(text) <= InputMax /\ Len(text) \in Nat
      /\ DOMAIN text = 1..Len(text) /\ InputMax \in Nat
  BY LenProperties, ShellLineAssumption DEF Fitting, Texts
<1>2. T \in SUBSET Nat /\ T # {} /\ \A m \in T : m <= Len(text)  BY <1>1
<1>3. Max(T) \in 0..Len(text)
  <2>1. Max(T) \in T  BY <1>1, <1>2, MaxOf
  <2> QED  BY <1>1, <2>1
<1>4. Trimmed(text) = SubSeq(text, 1, Max(T))  BY DEF Trimmed
<1> HIDE DEF T
<1>5. Trimmed(text) \in Texts /\ Len(Trimmed(text)) = Max(T)  BY <1>1, <1>3, <1>4, HeadOf
<1> QED  BY <1>1, <1>3, <1>5 DEF Fitting

\* An editing key gives a text that fits and a cursor in it.
LEMMA EditInv ==
  ASSUME IInv, NEW text \in Fitting, NEW pos \in 0..Len(text), Edit(text, pos)
  PROVE  IInv'
<1>1. LineType'  BY DEF IInv, LineType, Edit, Key, recall, question
<1>2. Recalled'  BY DEF Edit, Recalled
<1>3. NewestIsLastRun' /\ HistoryIsWhatRan'
  BY DEF IInv, NewestIsLastRun, HistoryIsWhatRan, Edit, recall
<1> QED  BY <1>1, <1>2, <1>3 DEF IInv

LEMMA InsertInv ==
  ASSUME IInv, NEW ch \in Typed, Insert(ch)
  PROVE  IInv'
<1> DEFINE one == <<ch>>
           b == Before \o one
<1>1. /\ Len(current_input) \in Nat /\ input_pos \in 0..Len(current_input)
      /\ Before \in Texts /\ Len(Before) = input_pos
      /\ After \in Texts /\ Len(After) = Len(current_input) - input_pos
  BY BeforeFits DEF IInv
<1>2. one \in Texts /\ Len(one) = 1  BY ShellLineAssumption DEF Texts
<1>3. /\ Len(current_input) < InputMax /\ InputMax \in Nat
      /\ Edit(b \o After, input_pos + 1)
  BY ShellLineAssumption DEF Insert
<1> HIDE DEF one
<1>4. b \in Texts /\ Len(b) = Len(Before) + Len(one)  BY <1>1, <1>2, ConcatProperties DEF Texts
<1> HIDE DEF b
<1>5. b \o After \in Texts /\ Len(b \o After) = Len(b) + Len(After)
  BY <1>1, <1>4, ConcatProperties DEF Texts
<1>6. Len(b \o After) = Len(current_input) + 1  BY <1>1, <1>2, <1>4, <1>5
<1>7. b \o After \in Fitting  BY <1>1, <1>3, <1>5, <1>6 DEF Fitting
<1>8. input_pos + 1 \in 0..Len(b \o After)  BY <1>1, <1>6
<1> QED  BY <1>3, <1>7, <1>8, EditInv

LEMMA DeletionInv ==
  ASSUME IInv, Backspace \/ DeleteKey
  PROVE  IInv'
<1> DEFINE len == Len(current_input)
<1>1. /\ current_input \in Texts /\ len \in Nat /\ len <= InputMax /\ InputMax \in Nat
      /\ input_pos \in 0..len /\ len \in 0..len
      /\ Before \in Texts /\ Len(Before) = input_pos
      /\ After \in Texts /\ Len(After) = len - input_pos
  <2>1. current_input \in Texts /\ len <= InputMax  BY DEF IInv, LineType, Fitting
  <2> QED  BY <2>1, BeforeFits, ShellLineAssumption DEF IInv
<1>2. CASE Backspace
  <2> DEFINE b == SubSeq(current_input, 1, input_pos - 1)
  <2>1. input_pos > 0 /\ Edit(b \o After, input_pos - 1)  BY <1>2 DEF Backspace
  <2>2. b \in Texts /\ Len(b) = input_pos - 1
    <3>1. input_pos - 1 \in 0..len  BY <1>1, <2>1
    <3> QED  BY <1>1, <3>1, HeadOf
  <2> HIDE DEF b, len
  <2>3. b \o After \in Texts /\ Len(b \o After) = Len(b) + Len(After)
    BY <1>1, <2>2, ConcatProperties DEF Texts
  <2>4. Len(b \o After) = len - 1  BY <1>1, <2>1, <2>2, <2>3
  <2>5. b \o After \in Fitting /\ input_pos - 1 \in 0..Len(b \o After)
    BY <1>1, <2>1, <2>3, <2>4 DEF Fitting
  <2> QED  BY <2>1, <2>5, EditInv
<1>3. CASE DeleteKey
  <2> DEFINE e == SubSeq(current_input, input_pos + 2, len)
  <2>1. input_pos < len /\ Edit(Before \o e, input_pos)  BY <1>3 DEF DeleteKey
  <2>2. e \in Texts /\ Len(e) = IF input_pos + 2 <= len THEN len - (input_pos + 2) + 1 ELSE 0
    <3>1. input_pos + 2 \in Nat \ {0}  BY <1>1
    <3> QED  BY <1>1, <3>1, PieceOf
  <2> HIDE DEF e, len
  <2>3. Before \o e \in Texts /\ Len(Before \o e) = Len(Before) + Len(e)
    BY <1>1, <2>2, ConcatProperties DEF Texts
  <2>4. Len(Before \o e) = len - 1  BY <1>1, <2>1, <2>2, <2>3
  <2>5. Before \o e \in Fitting /\ input_pos \in 0..Len(Before \o e)
    BY <1>1, <2>1, <2>3, <2>4 DEF Fitting
  <2> QED  BY <2>1, <2>5, EditInv
<1> QED  BY <1>2, <1>3

LEMMA TabInv ==
  ASSUME IInv, Tab
  PROVE  IInv'
<1>1. PICK text \in TabLines(Before) : Edit(text, Len(text))  BY DEF Tab
<1>2. Before \in Texts /\ Len(Before) <= InputMax  BY BeforeFits DEF IInv
<1>3. text \in Texts /\ Len(text) <= InputMax  BY <1>2, TabLinesFacts
<1>4. text \in Fitting /\ Len(text) \in 0..Len(text)
  BY <1>3, LenProperties DEF Fitting, Texts
<1> QED  BY <1>1, <1>4, EditInv

LEMMA MoveCursorInv ==
  ASSUME IInv, MoveCursor
  PROVE  IInv'
<1>1. LineType'  BY DEF IInv, LineType, MoveCursor, Key, recall, question
<1>2. Recalled'  BY DEF IInv, Recalled, MoveCursor, recall
<1>3. NewestIsLastRun' /\ HistoryIsWhatRan'
  BY DEF IInv, NewestIsLastRun, HistoryIsWhatRan, MoveCursor, recall
<1> QED  BY <1>1, <1>2, <1>3 DEF IInv

LEMMA RecallInv ==
  ASSUME IInv, NEW i \in -1..(Len(history) - 1), Recall(i)
  PROVE  IInv'
<1>1. Len(history) \in Nat  BY LenProperties DEF IInv, LineType
<1>2. current_input' = IF i = -1 THEN <<>> ELSE history[Len(history) - i]  BY DEF Recall
<1>3. current_input' \in Fitting
  <2>1. CASE i = -1  BY <1>2, <2>1, EmptyFits
  <2>2. CASE i # -1
    <3>1. Len(history) - i \in 1..Len(history)  BY <1>1, <2>2
    <3>2. history[Len(history) - i] \in Fitting  BY <3>1, ElementOfSeq DEF IInv, LineType
    <3> QED  BY <1>2, <2>2, <3>2
  <2> QED  BY <2>1, <2>2
<1>4. input_pos' \in 0..Len(current_input')
  BY <1>3, LenProperties DEF Recall, Fitting, Texts
<1>5. LineType'
  BY <1>3, <1>4 DEF IInv, LineType, Recall, Key, question
<1>6. Recalled'
  <2>1. history_index' = i /\ history' = history  BY DEF Recall
  <2>2. i >= 0 => i # -1  OBVIOUS
  <2> QED  BY <1>2, <2>1, <2>2 DEF Recalled
<1>7. NewestIsLastRun' /\ HistoryIsWhatRan'
  BY DEF IInv, NewestIsLastRun, HistoryIsWhatRan, Recall
<1> QED  BY <1>5, <1>6, <1>7 DEF IInv

LEMMA ExecuteInv ==
  ASSUME IInv, NEW text \in Fitting, Execute(text)
  PROVE  IInv'
<1> DEFINE cmd == Trimmed(text)
<1>1. cmd \in Fitting  BY TrimmedFits
<1>2. /\ current_input' = <<>> /\ input_pos' = 0 /\ history_index' = -1
      /\ touched' = FALSE /\ goto_buf' = goto_buf
  BY DEF Execute
<1>3. /\ rm_confirm_mode' \in BOOLEAN /\ rm_pending_cmd' \in Fitting
      /\ \/ UNCHANGED <<history, ran>>
         \/ history' = Added(cmd) /\ ran' = Append(ran, cmd)
  <2> HIDE DEF cmd
  <2>1. \/ cmd = <<>> /\ UNCHANGED <<history, ran, question>>
        \/ /\ history' = Added(cmd) /\ ran' = Append(ran, cmd)
           /\ \/ UNCHANGED question
              \/ rm_confirm_mode' = FALSE /\ UNCHANGED rm_pending_cmd
              \/ rm_confirm_mode' = TRUE /\ rm_pending_cmd' = cmd
    BY DEF Execute, cmd
  <2>2. rm_confirm_mode \in BOOLEAN /\ rm_pending_cmd \in Fitting  BY DEF IInv, LineType
  <2> QED  BY <1>1, <2>1, <2>2 DEF question
<1> HIDE DEF cmd
<1>4. /\ history' \in Seq(Fitting) /\ ran' \in Seq(Fitting)
      /\ NewestIsLastRun' /\ HistoryIsWhatRan'
  <2>1. CASE UNCHANGED <<history, ran>>
    BY <2>1 DEF IInv, LineType, NewestIsLastRun, HistoryIsWhatRan
  <2>2. CASE history' = Added(cmd) /\ ran' = Append(ran, cmd)
    BY <1>1, <2>2, AddedKeepsHistory
  <2> QED  BY <1>3, <2>1, <2>2
<1>5. Recalled'  BY <1>2 DEF Recalled
<1>6. LineType'
  <2>1. Len(history') \in Nat  BY <1>4, LenProperties
  <2>2. current_input' \in Fitting /\ input_pos' \in 0..Len(current_input')
    BY <1>2, EmptyFits
  <2>3. goto_buf' \in Fitting /\ touched' \in BOOLEAN  BY <1>2 DEF IInv, LineType
  <2>4. history_index' \in -1..(Len(history') - 1)  BY <1>2, <2>1
  <2> QED  BY <1>3, <1>4, <2>2, <2>3, <2>4 DEF LineType
<1> QED  BY <1>4, <1>5, <1>6 DEF IInv

LEMMA GotoInv ==
  ASSUME IInv, (\E text \in GotoTexts : GotoTyped(text)) \/ GotoTab \/ GotoEnd
  PROVE  IInv'
<1>1. goto_buf' \in Fitting
  <2>1. ASSUME NEW text \in GotoTexts, GotoTyped(text) PROVE goto_buf' \in Fitting
    <3>1. text \in Fitting  BY ShellLineAssumption DEF Fitting, Texts
    <3> QED  BY <2>1, <3>1 DEF GotoTyped
  <2>2. CASE GotoTab
    <3>1. PICK t \in Completed(goto_buf) : goto_buf' = Cut(t)  BY <2>2 DEF GotoTab
    <3>2. goto_buf \in Texts  BY DEF IInv, LineType, Fitting
    <3>3. t \in Texts  BY <3>1, <3>2, CompletedFacts
    <3>4. /\ Cut(t) \in Texts /\ Len(t) \in Nat /\ InputMax \in Nat
          /\ Len(Cut(t)) = IF Len(t) <= InputMax THEN Len(t) ELSE InputMax
      BY <3>3, CutFacts, LenProperties, ShellLineAssumption DEF Texts
    <3> QED  BY <3>1, <3>4 DEF Fitting
  <2>3. CASE GotoEnd  BY <2>3, EmptyFits DEF GotoEnd
  <2> QED  BY <2>1, <2>2, <2>3
<1>2. UNCHANGED <<line, recall, question, touched>>  BY DEF GotoTyped, GotoTab, GotoEnd
<1>3. LineType'  BY <1>1, <1>2 DEF IInv, LineType, line, recall, question
<1>4. Recalled' /\ NewestIsLastRun' /\ HistoryIsWhatRan'
  BY <1>2 DEF IInv, Recalled, NewestIsLastRun, HistoryIsWhatRan, line, recall
<1> QED  BY <1>3, <1>4 DEF IInv

LEMMA AnswerNoInv ==
  ASSUME IInv, AnswerNo
  PROVE  IInv'
<1>1. LineType'
  <2>1. current_input' \in Fitting /\ input_pos' \in 0..Len(current_input')
    BY EmptyFits DEF AnswerNo
  <2> QED  BY <2>1 DEF IInv, LineType, AnswerNo, recall
<1>2. Recalled'  BY DEF Recalled, AnswerNo
<1>3. NewestIsLastRun' /\ HistoryIsWhatRan'
  BY DEF IInv, NewestIsLastRun, HistoryIsWhatRan, AnswerNo, recall
<1> QED  BY <1>1, <1>2, <1>3 DEF IInv

LEMMA InitInv == Init => IInv
<1> SUFFICES ASSUME Init PROVE IInv  OBVIOUS
<1>1. <<>> \in Seq(Fitting) /\ Len(<<>>) = 0  BY EmptySeq
<1>2. LineType
  <2>1. current_input \in Fitting /\ input_pos \in 0..Len(current_input)
    BY EmptyFits DEF Init
  <2>2. history_index \in -1..(Len(history) - 1)  BY <1>1 DEF Init
  <2> QED  BY <1>1, <2>1, <2>2, EmptyFits DEF Init, LineType
<1>3. Recalled /\ NewestIsLastRun  BY DEF Init, Recalled, NewestIsLastRun
<1>4. HistoryIsWhatRan
  <2>1. ran = <<>> /\ history = <<>>  BY DEF Init
  <2>2. Fresh(<<>>) = {}
    <3>1. Fresh(<<>>) \subseteq 1..Len(<<>>)  BY <1>1, FreshFacts
    <3> QED  BY <1>1, <3>1
  <2>3. Cardinality({}) = 0  BY FS_EmptySet
  <2>4. Min({0, HistMax}) = 0  BY MinOfTwo, ShellLineAssumption
  <2> QED  BY <1>1, <2>1, <2>2, <2>3, <2>4 DEF HistoryIsWhatRan
<1> QED  BY <1>2, <1>3, <1>4 DEF IInv

LEMMA StepInv == IInv /\ [Next]_vars => IInv'
<1> SUFFICES ASSUME IInv, [Next]_vars PROVE IInv'  OBVIOUS
<1>1. ASSUME NEW ch \in Typed, Insert(ch) PROVE IInv'  BY <1>1, InsertInv
<1>2. CASE Backspace \/ DeleteKey  BY <1>2, DeletionInv
<1>3. CASE MoveCursor  BY <1>3, MoveCursorInv
<1>4. CASE Tab  BY <1>4, TabInv
<1>5. CASE HistoryUp \/ HistoryDown
  <2>1. history_index \in -1..(Len(history) - 1) /\ Len(history) \in Nat
    BY LenProperties DEF IInv, LineType
  <2>2. CASE HistoryUp
    <3>1. history_index + 1 \in -1..(Len(history) - 1) /\ Recall(history_index + 1)
      BY <2>1, <2>2 DEF HistoryUp
    <3> QED  BY <3>1, RecallInv
  <2>3. CASE HistoryDown
    <3>1. history_index - 1 \in -1..(Len(history) - 1) /\ Recall(history_index - 1)
      BY <2>1, <2>3 DEF HistoryDown
    <3> QED  BY <3>1, RecallInv
  <2> QED  BY <1>5, <2>2, <2>3
<1>6. CASE Enter
  <2>1. current_input \in Fitting  BY DEF IInv, LineType
  <2> QED  BY <1>6, <2>1, ExecuteInv DEF Enter
<1>7. CASE AnswerYes
  <2>1. rm_pending_cmd \in Fitting  BY DEF IInv, LineType
  <2> QED  BY <1>7, <2>1, ExecuteInv DEF AnswerYes
<1>8. CASE AnswerNo  BY <1>8, AnswerNoInv
<1>9. ASSUME NEW text \in Commands \cup {<<Blank>>}, Quickshell(text) PROVE IInv'
  <2>1. text \in Fitting
    <3>1. CASE text \in Commands  BY <3>1, ShellLineAssumption DEF Fitting, Texts
    <3>2. CASE text = <<Blank>>
      <4>1. <<Blank>> \in Seq(Chars) /\ Len(<<Blank>>) = 1 /\ InputMax >= 1
        BY ShellLineAssumption
      <4> QED  BY <3>2, <4>1 DEF Fitting, Texts
    <3> QED  BY <1>9, <3>1, <3>2
  <2> QED  BY <1>9, <2>1, ExecuteInv DEF Quickshell
<1>10. CASE (\E text \in GotoTexts : GotoTyped(text)) \/ GotoTab \/ GotoEnd
  BY <1>10, GotoInv
<1>11. CASE UNCHANGED vars
  BY <1>11 DEF IInv, LineType, Recalled, NewestIsLastRun, HistoryIsWhatRan,
               vars, line, recall, question
<1> QED
  BY <1>1, <1>2, <1>3, <1>4, <1>5, <1>6, <1>7, <1>8, <1>9, <1>10, <1>11 DEF Next

LEMMA AlwaysInv == Spec => []IInv
BY InitInv, StepInv, PTL DEF Spec

----------------------------------------------------------------------------
(* The theorems.                                                           *)

\* The cursor and the index stay in range, and an entry recalled and not
\* changed stays the one the index stands for.
THEOREM LineAlwaysInStep == Spec => []LineInStep
<1>1. IInv => LineInStep
  BY DEF IInv, LineType, Recalled, LineInStep, Fitting
<1> QED  BY <1>1, AlwaysInv, PTL

\* The history is the end of what ran, whatever its length and the number of
\* runs.
THEOREM HistoryAlwaysWhatRan == Spec => []HistoryIsWhatRan
<1>1. IInv => HistoryIsWhatRan  BY DEF IInv
<1> QED  BY <1>1, AlwaysInv, PTL

\* The grey text is what Tab would add, for any names.
THEOREM GhostAlwaysWhatTabAdds == Spec => []GhostIsWhatTabAdds
<1>1. ASSUME IInv PROVE GhostIsWhatTabAdds
  <2>1. Before \in Texts /\ Len(Before) <= InputMax  BY <1>1, BeforeFits DEF IInv
  <2>2. SUFFICES ASSUME TokenStart(Before) = 1, LastSlash(Before) > 1,
                        NamePart(Before) # <<>>, NEW new \in TabLines(Before)
                 PROVE  IF Ghosts(Before) = {} THEN Agree(new, Before)
                        ELSE \A ghost \in Ghosts(Before) : Agree(new, Cut(Before \o ghost))
    BY DEF GhostIsWhatTabAdds
  <2> QED  BY <2>1, <2>2, GhostAgrees
<1> QED  BY <1>1, AlwaysInv, PTL

\* Tab only adds, and it excludes no candidate.
THEOREM TabAlwaysKeepsCandidates == Spec => TabKeepsCandidates
<1> DEFINE from == TokenStart(Before)
           token == SubSeq(Before, from, input_pos)
           tail == SubSeq(current_input', from, Len(current_input'))
<1>1. ASSUME IInv, Tab
      PROVE  /\ SubSeq(current_input', 1, from - 1) = SubSeq(Before, 1, from - 1)
             /\ InRoot(token) \/ Extends(token, tail)
  <2>1. Before \in Texts /\ Len(Before) <= InputMax /\ Len(Before) = input_pos
    BY <1>1, BeforeFits DEF IInv
  <2>2. current_input' \in TabLines(Before)  BY <1>1 DEF Tab, Edit
  <2>3. SubSeq(current_input', 1, from - 1) = SubSeq(Before, 1, from - 1)
    BY <2>1, <2>2, TabLinesFacts
  <2>4. token = SubSeq(Before, from, Len(Before))  BY <2>1
  <2>5. ~InRoot(token) => Extends(token, tail)  BY <2>1, <2>2, <2>4, TabExtends
  <2> QED  BY <2>3, <2>5
<1>2. ASSUME IInv, GotoTab
      PROVE  InRoot(goto_buf) \/ Extends(goto_buf, goto_buf')
  <2>1. PICK t \in Completed(goto_buf) : goto_buf' = Cut(t)  BY <1>2 DEF GotoTab
  <2>2. SUFFICES ASSUME ~InRoot(goto_buf) PROVE Extends(goto_buf, goto_buf')  OBVIOUS
  <2>3. /\ goto_buf \in Texts /\ Len(goto_buf) <= InputMax /\ InputMax \in Nat
        /\ Len(goto_buf) \in Nat
    BY <1>2, LenProperties, ShellLineAssumption DEF IInv, LineType, Fitting, Texts
  <2>4. t \in Texts /\ Len(t) \in Nat /\ Len(goto_buf) <= Len(t)
    BY <2>2, <2>3, CompletedFacts, CompletedNotShorter, LenProperties DEF Texts
  <2> DEFINE new == Cut(t)
  <2>5. /\ new \in Texts /\ Len(new) = IF Len(t) <= InputMax THEN Len(t) ELSE InputMax
        /\ \A i \in 1..Len(new) : new[i] = t[i]
    BY <2>4, CutFacts
  <2> HIDE DEF new
  <2>6. Len(goto_buf) <= Len(new) /\ Len(new) <= Len(t)  BY <2>3, <2>4, <2>5
  <2>7. Extends(goto_buf, new)  BY <2>2, <2>3, <2>5, <2>6, CompletedExtends
  <2> QED  BY <2>1, <2>7 DEF new
<1>3. IInv /\ [Next]_vars
        => [/\ Tab => /\ SubSeq(current_input', 1, from - 1) = SubSeq(Before, 1, from - 1)
                      /\ InRoot(token) \/ Extends(token, tail)
            /\ GotoTab => InRoot(goto_buf) \/ Extends(goto_buf, goto_buf')]_vars
  BY <1>1, <1>2
<1> QED  BY <1>3, AlwaysInv, PTL DEF Spec, TabKeepsCandidates

=============================================================================
