------------------------- MODULE FilesBuffer_proofs -------------------------
(***************************************************************************)
(* For every set of names, every start, half page and register: the        *)
(* cursor, the selection, its count and the move flags stay in step with   *)
(* the listing, whatever is changed under it.                              *)
(*                                                                         *)
(* Facts about all numbers or all finite sets are proved by their smallest *)
(* counterexample (Least): a set that is not empty has a smallest element. *)
(***************************************************************************)
EXTENDS FilesBuffer, FunctionTheorems, FiniteSetTheorems, SequenceTheorems,
        WellFoundedInduction, TLAPS

----------------------------------------------------------------------------
(* Numbers and finite sets of numbers.                                     *)

\* A set of natural numbers that is not empty has a smallest element.
LEMMA Least ==
  ASSUME NEW T \in SUBSET Nat, T # {}
  PROVE  \E n \in T : \A m \in T : n <= m
<1> DEFINE R == {p \in Nat \X Nat : p[1] < p[2]}
<1>1. OpToRel(<, Nat) = R  BY Zenon DEF OpToRel
<1>2. \E n \in T : \A m \in T : <<m, n>> \notin R
  BY <1>1, NatLessThanWellFounded, WFMin, Zenon
<1>3. PICK n \in T : \A m \in T : <<m, n>> \notin R  BY <1>2
<1>4. ASSUME NEW m \in T PROVE ~(m < n)
  <2>1. <<m, n>> \in Nat \X Nat /\ <<m, n>>[1] = m /\ <<m, n>>[2] = n  OBVIOUS
  <2> QED  BY <1>3, <2>1
<1> QED  BY <1>4

\* So has a set of naturals below a bound a greatest one.
LEMMA Greatest ==
  ASSUME NEW T \in SUBSET Nat, T # {}, NEW b \in Nat, \A m \in T : m <= b
  PROVE  \E n \in T : \A m \in T : m <= n
<1> DEFINE U == {u \in Nat : \A m \in T : m <= u}
<1>1. U \in SUBSET Nat /\ U # {}  OBVIOUS
<1>2. PICK u \in U : \A v \in U : u <= v  BY <1>1, Least
<1>3. u \in T
  <2>1. SUFFICES ASSUME u \notin T PROVE FALSE  OBVIOUS
  <2>2. \A m \in T : m <= u - 1  BY <2>1
  <2>3. PICK m \in T : m <= u - 1  BY <2>2
  <2>4. u - 1 \in U  BY <2>2, <2>3
  <2> QED  BY <1>2, <2>4
<1> QED  BY <1>3

\* s lists S in ascending order.
Ascends(s, S) ==
  /\ s \in [1..Cardinality(S) -> S]
  /\ \A i, j \in DOMAIN s : i < j => s[i] < s[j]

\* The smallest element of a set goes before the others in order.
LEMMA AscendsWith ==
  ASSUME NEW S \in SUBSET Nat, IsFiniteSet(S), NEW m \in S, \A k \in S : m <= k,
         NEW s, Ascends(s, S \ {m})
  PROVE  \E t : Ascends(t, S)
<1> DEFINE c == Cardinality(S)
           t == [i \in 1..c |-> IF i = 1 THEN m ELSE s[i - 1]]
<1>1. Cardinality(S \ {m}) = c - 1 /\ c \in Nat  BY FS_RemoveElement, FS_CardinalityType
<1> HIDE DEF c
<1>2. s \in [1..(c - 1) -> S \ {m}]  BY <1>1 DEF Ascends
<1>3. ASSUME NEW i \in 1..(c - 1) PROVE s[i] \in S /\ m < s[i]
  <2>1. s[i] \in S \ {m}  BY <1>2
  <2>2. \A k \in S \ {m} : m < k
    <3>1. \A k \in S : k \in Nat  OBVIOUS
    <3> QED  BY <3>1
  <2> QED  BY <2>1, <2>2
<1>4. t \in [1..c -> S]  BY <1>1, <1>3
<1>5. ASSUME NEW i \in 1..c, NEW j \in 1..c, i < j PROVE t[i] < t[j]
  <2>1. j - 1 \in 1..(c - 1) /\ t[j] = s[j - 1]  BY <1>1, <1>5
  <2>2. CASE i = 1  BY <1>3, <2>1, <2>2
  <2>3. CASE i # 1
    <3>1. i - 1 \in 1..(c - 1) /\ t[i] = s[i - 1] /\ i - 1 < j - 1  BY <1>1, <1>5, <2>3
    <3> QED  BY <1>2, <2>1, <3>1 DEF Ascends
  <2> QED  BY <2>2, <2>3
<1>6. DOMAIN t = 1..c  OBVIOUS
<1> HIDE DEF t
<1> QED  BY <1>4, <1>5, <1>6 DEF Ascends, c

\* Every finite set of numbers can be sorted.
LEMMA Sortable ==
  ASSUME NEW S \in SUBSET Nat, IsFiniteSet(S)
  PROVE  \E s : Ascends(s, S)
<1> DEFINE Unsorted(n) == \E U \in SUBSET Nat : /\ IsFiniteSet(U) /\ Cardinality(U) = n
                                                /\ \A s : ~Ascends(s, U)
           T == {n \in Nat : Unsorted(n)}
<1>1. SUFFICES T = {}  BY FS_CardinalityType
<1>2. SUFFICES ASSUME T # {} PROVE FALSE  OBVIOUS
<1>3. PICK n \in T : \A k \in T : n <= k  BY <1>2, Least
<1>4. PICK U \in SUBSET Nat : /\ IsFiniteSet(U) /\ Cardinality(U) = n
                              /\ \A s : ~Ascends(s, U)
  BY <1>3
<1>5. U # {}
  <2>1. SUFFICES ASSUME U = {} PROVE FALSE  OBVIOUS
  <2>2. Cardinality(U) = 0  BY <2>1, FS_EmptySet
  <2>3. <<>> \in [1..Cardinality(U) -> U] /\ DOMAIN <<>> = {}  BY <2>2
  <2> QED  BY <1>4, <2>3 DEF Ascends
<1>6. PICK m \in U : \A k \in U : m <= k  BY <1>5, Least
<1>7. IsFiniteSet(U \ {m}) /\ Cardinality(U \ {m}) = n - 1  BY <1>4, FS_RemoveElement
<1>8. n \in Nat /\ n # 0  BY <1>3, <1>4, <1>5, FS_EmptySet
<1>9. n - 1 \notin T /\ n - 1 \in Nat  BY <1>3, <1>8
<1>10. PICK s : Ascends(s, U \ {m})  BY <1>7, <1>9
<1> QED  BY <1>4, <1>6, <1>10, AscendsWith

----------------------------------------------------------------------------
(* The listing.                                                            *)

\* A listing has each name of the directory once.
LEMMA SortedFacts ==
  ASSUME NEW S \in SUBSET Names
  PROVE  /\ Sorted(S) \in Seq(Names) /\ DOMAIN Sorted(S) = 1..Len(Sorted(S))
         /\ Len(Sorted(S)) = Cardinality(S)
         /\ \A i, j \in DOMAIN Sorted(S) : Sorted(S)[i] = Sorted(S)[j] => i = j
<1> DEFINE c == Cardinality(S)
           s == Sorted(S)
<1>1. S \in SUBSET Nat /\ IsFiniteSet(S) /\ c \in Nat
  BY FilesBufferAssumption, FS_Subset, FS_CardinalityType
<1>2. PICK t : Ascends(t, S)  BY <1>1, Sortable
<1>3. Ascends(s, S)  BY <1>2 DEF Ascends, Sorted
<1> HIDE DEF c, s
<1>4. s \in [1..c -> S] /\ \A i, j \in 1..c : i < j => s[i] < s[j]
  BY <1>3 DEF Ascends, c
<1>5. s \in [1..c -> Names]  BY <1>4
<1>6. s \in Seq(Names) /\ Len(s) = c /\ DOMAIN s = 1..c  BY <1>1, <1>5
<1>7. ASSUME NEW i \in 1..c, NEW j \in 1..c, s[i] = s[j] PROVE i = j
  <2>1. s[i] \in Nat /\ s[j] \in Nat  BY <1>1, <1>4
  <2>2. ~(i < j) /\ ~(j < i)  BY <1>4, <1>7, <2>1
  <2> QED  BY <1>1, <2>2
<1> QED  BY <1>6, <1>7 DEF s, c

DiskOK(dk) == dk \in [Dirs -> (SUBSET Names) \cup {NoDir}]

LEMMA HeldType ==
  ASSUME NEW dk, DiskOK(dk), NEW d \in Dirs
  PROVE  Held(dk, d) \in SUBSET Names
BY DEF DiskOK, Held

LEMMA SettledType ==
  ASSUME NEW dk, DiskOK(dk)
  PROVE  DiskOK(Settled(dk))
BY DEF DiskOK, Settled

----------------------------------------------------------------------------
(* The count.                                                              *)

\* n is a count of the marks ms, as SelectionCounted has it.
Counts(ms, n) ==
  /\ ms \ {-1} \subseteq Indices
  /\ LET marked == Cardinality(ms \cap Indices)
     IN  IF -1 \in ms THEN n \in {marked, marked + 1} ELSE n = marked

LEMMA IndicesFinite ==
  ASSUME entries \in Seq(Names), NEW ms
  PROVE  /\ entry_count \in Nat /\ Indices \in SUBSET Nat
         /\ IsFiniteSet(ms \cap Indices) /\ Cardinality(ms \cap Indices) \in Nat
<1>1. entry_count \in Nat  BY LenProperties DEF entry_count
<1>2. IsFiniteSet(Indices)  BY <1>1, FS_Interval DEF Indices
<1>3. IsFiniteSet(ms \cap Indices)  BY <1>2, FS_Intersection
<1> QED  BY <1>1, <1>3, FS_CardinalityType DEF Indices

\* One more mark, on an entry or on the word before the array, is one more.
LEMMA MarkCounts ==
  ASSUME entries \in Seq(Names), NEW ms, NEW n \in Int, Counts(ms, n),
         NEW i \in Indices \cup {-1}, i \notin ms
  PROVE  Counts(ms \cup {i}, n + 1)
<1>1. Cardinality(ms \cap Indices) \in Nat /\ IsFiniteSet(ms \cap Indices)
  BY IndicesFinite
<1>2. -1 \notin Indices  BY DEF Indices
<1>3. CASE i = -1
  <2>1. (ms \cup {i}) \cap Indices = ms \cap Indices  BY <1>2, <1>3
  <2> QED  BY <1>1, <1>3, <2>1 DEF Counts
<1>4. CASE i \in Indices
  <2>1. (ms \cup {i}) \cap Indices = (ms \cap Indices) \cup {i}  BY <1>4
  <2>2. Cardinality((ms \cap Indices) \cup {i}) = Cardinality(ms \cap Indices) + 1
    BY <1>1, FS_AddElement
  <2>3. i # -1  BY <1>2, <1>4
  <2> QED  BY <1>1, <1>4, <2>1, <2>2, <2>3 DEF Counts
<1> QED  BY <1>3, <1>4

\* One mark taken off an entry is one less.
LEMMA UnmarkCounts ==
  ASSUME entries \in Seq(Names), NEW ms, NEW n \in Int, Counts(ms, n),
         NEW i \in Indices, i \in ms
  PROVE  Counts(ms \ {i}, n - 1)
<1>1. Cardinality(ms \cap Indices) \in Nat /\ IsFiniteSet(ms \cap Indices)
  BY IndicesFinite
<1>2. i # -1  BY DEF Indices
<1>3. (ms \ {i}) \cap Indices = (ms \cap Indices) \ {i}  OBVIOUS
<1>4. Cardinality((ms \cap Indices) \ {i}) = Cardinality(ms \cap Indices) - 1
  BY <1>1, FS_RemoveElement
<1>5. (-1 \in ms \ {i} <=> -1 \in ms) /\ (ms \ {i}) \ {-1} \subseteq Indices
  BY <1>2 DEF Counts
<1>6. IF -1 \in ms THEN n \in {Cardinality(ms \cap Indices), Cardinality(ms \cap Indices) + 1}
      ELSE n = Cardinality(ms \cap Indices)
  BY DEF Counts
<1> DEFINE marked == Cardinality(ms \cap Indices)
           left == Cardinality((ms \ {i}) \cap Indices)
<1>7. left = marked - 1 /\ marked \in Nat  BY <1>1, <1>3, <1>4
<1>8. IF -1 \in ms \ {i} THEN n - 1 \in {left, left + 1} ELSE n - 1 = left
  <2> HIDE DEF left
  <2> QED  BY <1>5, <1>6, <1>7
<1> QED  BY <1>5, <1>8 DEF Counts

----------------------------------------------------------------------------
(* The inductive invariant.                                                *)

\* No name is listed twice.
Distinct == \A i, j \in DOMAIN entries : entries[i] = entries[j] => i = j

IInv == TypeOK /\ Distinct /\ CursorInRange /\ SelectionCounted /\ FlagsMatchRegister

RegisterOK(reg) == reg \subseteq Dirs \X Names /\ Cardinality(reg) <= RegisterMax

LEMMA SelectionIsCount == SelectionCounted <=> Counts(multi_sel, sel_count)
BY DEF SelectionCounted, Counts

\* After a load everything is in step, whatever there was before.
LEMMA LoadInv ==
  ASSUME NEW dir \in Dirs, Load(dir), DiskOK(disk'), RegisterOK(move_reg'),
         selected' \in {-1, 0} \cup Indices'
  PROVE  IInv'
<1> DEFINE names == Held(disk', dir)
<1>1. names \in SUBSET Names /\ entries' = Sorted(names)  BY HeldType DEF Load
<1>2. /\ entries' \in Seq(Names) /\ DOMAIN entries' = 1..Len(entries')
      /\ Len(entries') = Cardinality(names)
      /\ Distinct'
  BY <1>1, SortedFacts DEF Distinct
<1>3. multi_sel' \subseteq {-1} /\ sel_count' = 0 /\ cwd' = dir  BY DEF Load
<1>4. Indices' \subseteq Nat /\ -1 \notin Indices'
  BY <1>2, LenProperties DEF Indices, entry_count
<1>5. TypeOK'  BY <1>2, <1>3, <1>4 DEF TypeOK, DiskOK, RegisterOK
<1>6. SelectionCounted'
  <2>1. multi_sel' \cap Indices' = {}  BY <1>3, <1>4
  <2>2. Cardinality(multi_sel' \cap Indices') = 0  BY <2>1, FS_EmptySet
  <2>3. multi_sel' \ {-1} \subseteq Indices'  BY <1>3
  <2> QED  BY <1>3, <2>2, <2>3 DEF SelectionCounted
<1>7. FlagsMatchRegister'
  <2>1. CASE disk'[dir] = NoDir
    <3>1. Len(entries') = 0  BY <1>2, <2>1, FS_EmptySet DEF Held
    <3>2. Indices' = {} /\ Flags(cwd', entries', move_reg') = {}
      BY <3>1 DEF Indices, entry_count, Flags
    <3> QED  BY <3>2 DEF FlagsMatchRegister
  <2>2. CASE disk'[dir] # NoDir
    <3>1. in_move_reg' = Flags(cwd', entries', move_reg')  BY <1>3, <2>2 DEF Load
    <3>2. in_move_reg' \subseteq Indices'  BY <3>1 DEF Flags, Indices, entry_count
    <3> QED  BY <3>1, <3>2 DEF FlagsMatchRegister
  <2> QED  BY <2>1, <2>2
<1>8. CursorInRange'  BY DEF CursorInRange
<1> QED  BY <1>2, <1>5, <1>6, <1>7, <1>8 DEF IInv

\* A refresh leaves the cursor where it is when there is an entry.
LEMMA ReloadInv ==
  ASSUME IInv, Reload, DiskOK(disk'), RegisterOK(move_reg')
  PROVE  IInv'
<1>1. cwd \in Dirs /\ selected \in {-1, 0} \cup Indices
  BY DEF IInv, TypeOK, CursorInRange
<1>2. Load(cwd) /\ selected' = IF selected < Len(entries') THEN selected ELSE 0
  BY DEF Reload
<1>3. entries' = Sorted(Held(disk', cwd))  BY <1>2 DEF Load
<1>4. entries' \in Seq(Names)  BY <1>1, <1>3, HeldType, SortedFacts
<1>5. Len(entries') \in Nat /\ entry_count \in Nat
  BY <1>4, LenProperties DEF entry_count, IInv, TypeOK
<1>6. selected' \in {-1, 0} \cup Indices'
  BY <1>1, <1>2, <1>5 DEF Indices, entry_count
<1> QED  BY <1>1, <1>2, <1>6, LoadInv

\* What has to be shown of a step that keeps the listing.
LEMMA SameListing ==
  ASSUME IInv, UNCHANGED <<cwd, entries>>, DiskOK(disk'), RegisterOK(move_reg'),
         selected' \in {-1, 0} \cup Indices,
         sel_count' \in Int, Counts(multi_sel', sel_count'),
         in_move_reg' \cap Indices = Flags(cwd, entries, move_reg')
  PROVE  IInv'
<1>1. Indices' = Indices /\ entry_count' = entry_count  BY DEF Indices, entry_count
<1>2. Indices \subseteq Int  BY DEF Indices
<1>3. TypeOK'
  <2>1. multi_sel' \ {-1} \subseteq Indices  BY DEF Counts
  <2>2. multi_sel' \subseteq Int
    <3>1. ASSUME NEW i \in multi_sel' PROVE i \in Int
      <4>1. CASE i = -1  BY <4>1
      <4>2. CASE i # -1  BY <1>2, <2>1, <4>2
      <4> QED  BY <4>1, <4>2
    <3> QED  BY <3>1
  <2> QED  BY <1>2, <2>2 DEF IInv, TypeOK, DiskOK, RegisterOK
<1>4. SelectionCounted'  BY <1>1 DEF SelectionCounted, Counts
<1>5. CursorInRange' /\ FlagsMatchRegister' /\ Distinct'
  BY <1>1 DEF CursorInRange, FlagsMatchRegister, Distinct, IInv
<1> QED  BY <1>3, <1>4, <1>5 DEF IInv

----------------------------------------------------------------------------
(* The register.                                                           *)

LEMMA RegisterFinite ==
  ASSUME NEW reg, reg \subseteq Dirs \X Names
  PROVE  IsFiniteSet(reg) /\ Cardinality(reg) \in Nat
<1>1. IsFiniteSet(Names) /\ IsFiniteSet(DirNames)  BY FilesBufferAssumption, FS_Subset
<1>2. IsFiniteSet(Dirs)  BY <1>1, FS_AddElement DEF Dirs
<1>3. IsFiniteSet(Dirs \X Names)  BY <1>1, <1>2, FS_Product
<1> QED  BY <1>3, FS_Subset, FS_CardinalityType

\* The first of the numbers in N that have less than r before them are at
\* most r.
LEMMA FirstFew ==
  ASSUME NEW N \in SUBSET Nat, IsFiniteSet(N), NEW b \in Nat, \A i \in N : i <= b,
         NEW r \in Nat, NEW first, first = {i \in N : Cardinality({j \in N : j < i}) < r}
  PROVE  IsFiniteSet(first) /\ Cardinality(first) <= r
<1> DEFINE Before(i) == {j \in N : j < i}
<1>1. first \subseteq N /\ IsFiniteSet(first) /\ Cardinality(first) \in Nat
  BY FS_Subset, FS_CardinalityType
<1>2. CASE first = {}
  <2>1. Cardinality(first) = 0  BY <1>2, FS_EmptySet, Zenon
  <2> QED  BY <1>1, <2>1
<1>3. CASE first # {}
  <2>1. PICK n \in first : \A i \in first : i <= n
    <3>1. first \in SUBSET Nat /\ \A i \in first : i <= b  BY <1>1
    <3> QED  BY <1>3, <3>1, Greatest
  <2>2. IsFiniteSet(Before(n)) /\ Cardinality(Before(n)) \in Nat
    <3>1. Before(n) \in SUBSET N  OBVIOUS
    <3> QED  BY <3>1, FS_Subset, FS_CardinalityType
  <2>3. Cardinality(Before(n)) < r  OBVIOUS
  <2>4. n \notin Before(n)  OBVIOUS
  <2>5. first \subseteq Before(n) \cup {n}
    <3>1. ASSUME NEW i \in first, i # n PROVE i \in Before(n)
      <4>1. i \in N /\ n \in N /\ i <= n  BY <2>1
      <4> QED  BY <3>1, <4>1
    <3> QED  BY <3>1
  <2> HIDE DEF Before
  <2>6. /\ IsFiniteSet(Before(n) \cup {n})
        /\ Cardinality(Before(n) \cup {n}) = Cardinality(Before(n)) + 1
    BY <2>2, <2>4, FS_AddElement
  <2>7. Cardinality(first) <= Cardinality(Before(n)) + 1  BY <2>5, <2>6, FS_Subset
  <2> QED  BY <1>1, <2>2, <2>3, <2>7
<1> QED  BY <1>2, <1>3

\* Marking some of the entries adds at most as many paths.
LEMMA PathsOfEntries ==
  ASSUME NEW I, IsFiniteSet(I)
  PROVE  LET paths == {<<cwd, NameAt(i)>> : i \in I}
         IN  IsFiniteSet(paths) /\ Cardinality(paths) <= Cardinality(I)
<1> DEFINE paths == {<<cwd, NameAt(i)>> : i \in I}
           f == [i \in I |-> <<cwd, NameAt(i)>>]
<1>1. f \in Surjection(I, paths)  BY DEF Surjection
<1> QED  BY <1>1, FS_Surjection

\* Marking all never takes more than there is room for.
LEMMA MarkAllFits ==
  ASSUME IInv, MarkAll
  PROVE  RegisterOK(move_reg')
<1> DEFINE wanted == IF sel_count > 0 THEN multi_sel \cap Indices ELSE Indices
           new == {i \in wanted : <<cwd, NameAt(i)>> \notin move_reg}
           room == RegisterMax - Cardinality(move_reg)
           taken == {i \in new : Cardinality({j \in new : j < i}) < room}
           paths == {<<cwd, NameAt(i)>> : i \in taken}
<1>1. move_reg' = move_reg \cup paths  BY DEF MarkAll
<1>2. entries \in Seq(Names) /\ cwd \in Dirs /\ RegisterOK(move_reg)
  BY DEF IInv, TypeOK, RegisterOK
<1>3. entry_count \in Nat /\ IsFiniteSet(Indices)
  <2>1. Indices \cap Indices = Indices  OBVIOUS
  <2> QED  BY <1>2, <2>1, IndicesFinite
<1>4. new \subseteq Indices  OBVIOUS
<1>5. Cardinality(move_reg) \in Nat /\ RegisterMax \in Nat /\ IsFiniteSet(move_reg)
  BY <1>2, RegisterFinite, FilesBufferAssumption DEF RegisterOK
<1>6. room \in Nat /\ room = RegisterMax - Cardinality(move_reg)
  BY <1>2, <1>5 DEF RegisterOK
<1>7. /\ new \in SUBSET Nat /\ IsFiniteSet(new)
      /\ \A i \in new : i <= entry_count
  <2>1. Indices \in SUBSET Nat /\ \A i \in Indices : i <= entry_count
    BY <1>3 DEF Indices
  <2> HIDE DEF new
  <2>2. IsFiniteSet(new)  BY <1>3, <1>4, FS_Subset
  <2> QED  BY <1>4, <2>1, <2>2
<1>8. IsFiniteSet(taken) /\ Cardinality(taken) <= room
  <2>1. taken = {i \in new : Cardinality({j \in new : j < i}) < room}  OBVIOUS
  <2> HIDE DEF new, room, taken
  <2> QED  BY <1>3, <1>6, <1>7, <2>1, FirstFew
<1>9. taken \subseteq Indices  OBVIOUS
<1> HIDE DEF taken, room, new
<1>10. IsFiniteSet(paths) /\ Cardinality(paths) <= Cardinality(taken)
  BY <1>8, PathsOfEntries
<1>11. paths \subseteq Dirs \X Names
  <2>1. ASSUME NEW i \in taken PROVE NameAt(i) \in Names
    <3>1. i + 1 \in 1..Len(entries)  BY <1>3, <1>9 DEF Indices, entry_count
    <3> QED  BY <1>2, <3>1, ElementOfSeq DEF NameAt
  <2> QED  BY <1>2, <2>1
<1> HIDE DEF paths
<1>12. Cardinality(move_reg \cup paths) <= RegisterMax
  <2>1. /\ Cardinality(move_reg \cup paths)
             = Cardinality(move_reg) + Cardinality(paths) - Cardinality(move_reg \cap paths)
        /\ Cardinality(paths) \in Nat /\ Cardinality(taken) \in Nat
        /\ Cardinality(move_reg \cap paths) \in Nat
    BY <1>5, <1>8, <1>10, FS_Union, FS_CardinalityType, FS_Intersection
  <2> QED  BY <1>5, <1>6, <1>8, <1>10, <2>1
<1> QED  BY <1>1, <1>2, <1>11, <1>12 DEF RegisterOK

----------------------------------------------------------------------------
(* The steps.                                                              *)

LEMMA InitInv == Init => IInv
<1> SUFFICES ASSUME Init PROVE IInv  OBVIOUS
<1>1. /\ cwd \in Dirs /\ InitDisk[cwd] # NoDir /\ disk = InitDisk
      /\ entries = Sorted(InitDisk[cwd]) /\ selected = 0
      /\ multi_sel = {} /\ sel_count = 0 /\ in_move_reg = {} /\ move_reg = {}
  BY DEF Init
<1>2. DiskOK(InitDisk) /\ RegisterMax \in Nat  BY FilesBufferAssumption DEF DiskOK
<1>3. InitDisk[cwd] \in SUBSET Names  BY <1>1, <1>2 DEF DiskOK
<1>4. entries \in Seq(Names) /\ Distinct  BY <1>1, <1>3, SortedFacts DEF Distinct
<1>5. TypeOK  BY <1>1, <1>2, <1>4, FS_EmptySet DEF TypeOK, DiskOK
<1>6. CursorInRange /\ FlagsMatchRegister
  BY <1>1 DEF CursorInRange, FlagsMatchRegister, Flags
<1>7. SelectionCounted
  <2>1. multi_sel \cap Indices = {}  BY <1>1
  <2> QED  BY <1>1, <2>1, FS_EmptySet DEF SelectionCounted
<1> QED  BY <1>4, <1>5, <1>6, <1>7 DEF IInv

\* What IInv says of the variables, for the steps below.
LEMMA Known ==
  ASSUME IInv
  PROVE  /\ DiskOK(disk) /\ RegisterOK(move_reg) /\ cwd \in Dirs
         /\ entries \in Seq(Names) /\ entry_count \in Nat
         /\ selected \in {-1, 0} \cup Indices /\ selected \in Int
         /\ sel_count \in Int /\ Counts(multi_sel, sel_count)
         /\ in_move_reg \cap Indices = Flags(cwd, entries, move_reg)
<1>1. entries \in Seq(Names)  BY DEF IInv, TypeOK
<1>2. entry_count \in Nat  BY <1>1, LenProperties DEF entry_count
<1>3. Counts(multi_sel, sel_count)  BY SelectionIsCount DEF IInv
<1>4. selected \in Int /\ selected \in {-1, 0} \cup Indices
  BY DEF IInv, TypeOK, CursorInRange
<1> QED  BY <1>1, <1>2, <1>3, <1>4 DEF IInv, TypeOK, DiskOK, RegisterOK, FlagsMatchRegister

\* A cursor key, with what visual mode sweeps.
LEMMA MoveToInv ==
  ASSUME IInv, NEW i \in {-1, 0} \cup Indices, MoveTo(i)
  PROVE  IInv'
<1>1. /\ selected' = i /\ Sweep(i)
      /\ UNCHANGED <<disk, cwd, entries, in_move_reg, move_reg>>
  BY DEF MoveTo
<1>2. sel_count' \in Int /\ Counts(multi_sel', sel_count')
  <2>1. CASE visual_mode /\ entry_count > 0 /\ i \notin multi_sel
    <3>1. multi_sel' = multi_sel \cup {i} /\ sel_count' = sel_count + 1
      BY <1>1, <2>1 DEF Sweep
    <3>2. i \in Indices \cup {-1}  BY <2>1, Known DEF Indices
    <3> QED  BY <2>1, <3>1, <3>2, Known, MarkCounts
  <2>2. CASE ~(visual_mode /\ entry_count > 0 /\ i \notin multi_sel)
    BY <1>1, <2>2, Known DEF Sweep
  <2> QED  BY <2>1, <2>2
<1>3. DiskOK(disk') /\ RegisterOK(move_reg')  BY <1>1, Known DEF DiskOK, RegisterOK
<1> QED  BY <1>1, <1>2, <1>3, Known, SameListing

\* Where the cursor keys lead.
LEMMA CursorKeys ==
  ASSUME IInv, SelectNext \/ SelectPrev \/ PageDown \/ PageUp
  PROVE  \E i \in {-1, 0} \cup Indices :
           /\ MoveTo(i)
           /\ selected # -1 /\ i = -1 => PageDown /\ entry_count = 0
<1> DEFINE Next1 == IF selected < entry_count - 1 THEN selected + 1 ELSE selected
           Prev1 == IF selected > 0 THEN selected - 1 ELSE selected
           NextN == IF selected + HalfPage >= entry_count THEN entry_count - 1
                    ELSE selected + HalfPage
           PrevN == IF selected - HalfPage < 0 THEN 0 ELSE selected - HalfPage
<1>1. HalfPage \in Nat \ {0}  BY FilesBufferAssumption
<1>2. /\ entry_count \in Nat /\ selected \in Int
      /\ selected = -1 \/ selected = 0 \/ (0 <= selected /\ selected < entry_count)
  BY Known DEF Indices
<1>3. CASE SelectNext
  <2>1. MoveTo(Next1)  BY <1>3 DEF SelectNext
  <2>2. Next1 \in {-1, 0} \cup Indices /\ (selected # -1 => Next1 # -1)
    BY <1>2 DEF Indices
  <2> QED  BY <2>1, <2>2
<1>4. CASE SelectPrev
  <2>1. MoveTo(Prev1)  BY <1>4 DEF SelectPrev
  <2>2. Prev1 \in {-1, 0} \cup Indices /\ (selected # -1 => Prev1 # -1)
    BY <1>2 DEF Indices
  <2> QED  BY <2>1, <2>2
<1>5. CASE PageDown
  <2>1. MoveTo(NextN)  BY <1>5 DEF PageDown, SelectNextN
  <2>2. NextN \in {-1, 0} \cup Indices /\ (selected # -1 /\ NextN = -1 => entry_count = 0)
    BY <1>1, <1>2 DEF Indices
  <2> QED  BY <1>5, <2>1, <2>2
<1>6. CASE PageUp
  <2>1. MoveTo(PrevN)  BY <1>6 DEF PageUp, SelectPrevN
  <2>2. PrevN \in {-1, 0} \cup Indices /\ PrevN # -1
    BY <1>1, <1>2 DEF Indices
  <2> QED  BY <2>1, <2>2
<1> QED  BY <1>3, <1>4, <1>5, <1>6

\* s, and v where it marks: one entry more or less is selected.
LEMMA SelectKeysInv ==
  ASSUME IInv, ToggleSelect \/ ToggleVisual \/ LeaveVisual
  PROVE  IInv'
<1>1. /\ UNCHANGED <<disk, cwd, entries, selected, in_move_reg, move_reg>>
      /\ \/ UNCHANGED <<multi_sel, sel_count>>
         \/ /\ selected \in Indices \cup {-1} /\ selected \notin multi_sel
            /\ multi_sel' = multi_sel \cup {selected} /\ sel_count' = sel_count + 1
         \/ /\ selected \in Indices /\ selected \in multi_sel
            /\ multi_sel' = multi_sel \ {selected} /\ sel_count' = sel_count - 1
  <2>1. CASE ToggleSelect  BY <2>1 DEF ToggleSelect
  <2>2. CASE ToggleVisual
    <3>1. selected \in Indices \cup {-1}
      BY <2>2, Known DEF ToggleVisual, Indices
    <3> QED  BY <2>2, <3>1 DEF ToggleVisual
  <2>3. CASE LeaveVisual  BY <2>3 DEF LeaveVisual, listing
  <2> QED  BY <2>1, <2>2, <2>3
<1>2. sel_count' \in Int /\ Counts(multi_sel', sel_count')
  <2>1. CASE UNCHANGED <<multi_sel, sel_count>>  BY <2>1, Known
  <2>2. CASE /\ selected \in Indices \cup {-1} /\ selected \notin multi_sel
             /\ multi_sel' = multi_sel \cup {selected} /\ sel_count' = sel_count + 1
    BY <2>2, Known, MarkCounts
  <2>3. CASE /\ selected \in Indices /\ selected \in multi_sel
             /\ multi_sel' = multi_sel \ {selected} /\ sel_count' = sel_count - 1
    BY <2>3, Known, UnmarkCounts
  <2> QED  BY <1>1, <2>1, <2>2, <2>3
<1>3. DiskOK(disk') /\ RegisterOK(move_reg')  BY <1>1, Known DEF DiskOK, RegisterOK
<1> QED  BY <1>1, <1>2, <1>3, Known, SameListing

\* What an operation leaves of the files is files again.
LEMMA ChangeType ==
  ASSUME NEW d \in Dirs, NEW names \in (SUBSET Names) \cup {NoDir}, IInv
  PROVE  DiskOK([disk EXCEPT ![d] = names])
BY Known DEF DiskOK

LEMMA EntryName ==
  ASSUME IInv, NEW i \in Indices
  PROVE  NameAt(i) \in Names
<1>1. i + 1 \in 1..Len(entries)  BY Known DEF Indices, entry_count
<1> QED  BY <1>1, Known, ElementOfSeq DEF NameAt

\* h, l, goto and the jumps load another directory, with the cursor on an
\* entry if there is one.
LEMMA MovesLoad ==
  ASSUME IInv, GoUp \/ GoInto \/ \E dir \in Dirs : Visit(dir)
  PROVE  /\ \E dir \in Dirs : Load(dir)
         /\ DiskOK(disk') /\ RegisterOK(move_reg')
         /\ selected' \in {0} \cup Indices'
<1>1. \E dir \in Dirs : Unmoved /\ Load(dir) /\ (GoUp \/ selected' = 0)
  <2>1. CASE GoUp
    <3>1. Unmoved /\ Load(Top) /\ Top \in Dirs  BY <2>1 DEF GoUp, Dirs
    <3> QED  BY <2>1, <3>1
  <2>2. CASE GoInto
    <3>1. /\ Unmoved /\ Load(NameAt(selected)) /\ selected' = 0
          /\ NameAt(selected) \in Dirs
      BY <2>2 DEF GoInto, Dirs
    <3> QED  BY <3>1
  <2>3. CASE \E dir \in Dirs : Visit(dir)  BY <2>3 DEF Visit
  <2> QED  BY <2>1, <2>2, <2>3
<1>2. PICK dir \in Dirs : /\ Unmoved /\ Load(dir) /\ (GoUp \/ selected' = 0)
  BY <1>1
<1>3. DiskOK(disk') /\ RegisterOK(move_reg')  BY <1>2, Known DEF Unmoved, DiskOK, RegisterOK
<1>4. Held(disk', dir) \in SUBSET Names /\ entries' = Sorted(Held(disk', dir))
  BY <1>2, <1>3, HeldType DEF Load
<1>5. /\ DOMAIN entries' = 1..Len(entries') /\ Len(entries') \in Nat
  BY <1>4, SortedFacts, LenProperties
<1>6. selected' \in {0} \cup Indices'
  <2>1. CASE GoUp
    <3> DEFINE at == {i \in DOMAIN entries' : entries'[i] = cwd}
    <3>1. selected' \in IF at = {} THEN {0} ELSE {i - 1 : i \in at}  BY <2>1 DEF GoUp
    <3>2. at \subseteq 1..Len(entries')  BY <1>5
    <3> HIDE DEF at
    <3>3. CASE at = {}  BY <3>1, <3>3
    <3>4. CASE at # {}
      <4>1. PICK i \in at : selected' = i - 1  BY <3>1, <3>4
      <4>2. i \in 1..Len(entries')  BY <3>2
      <4> QED  BY <1>5, <4>1, <4>2 DEF Indices, entry_count
    <3> QED  BY <3>3, <3>4
  <2> QED  BY <1>2, <2>1
<1> QED  BY <1>2, <1>3, <1>6

\* d and D, a rename, a paste and a refresh load the directory again.
LEMMA OperationsInv ==
  ASSUME IInv,
         \/ Refresh
         \/ \E name \in Names \ DirNames : RenameEntry(name)
         \/ \E gone \in SUBSET Targets : DeleteTargets(gone)
         \/ \E dest \in PasteTargets : Paste(dest)
  PROVE  IInv'
<1>1. CASE Refresh
  <2>1. DiskOK(disk') /\ RegisterOK(move_reg') /\ Reload
    BY <1>1, Known DEF Refresh, Unmoved, DiskOK, RegisterOK
  <2> QED  BY <2>1, ReloadInv
<1>2. ASSUME NEW name \in Names \ DirNames, RenameEntry(name) PROVE IInv'
  <2> DEFINE old == IF selected \in Indices THEN {NameAt(selected)} \cap Held(disk, cwd) ELSE {}
  <2>1. /\ disk' = IF old = {} THEN disk ELSE [disk EXCEPT ![cwd] = (@ \ old) \cup {name}]
        /\ move_reg' = move_reg /\ Load(cwd) /\ selected' = 0
    BY <1>2 DEF RenameEntry
  <2>2. DiskOK(disk')
    <3>1. CASE old = {}  BY <2>1, <3>1, Known
    <3>2. CASE old # {}
      <4>1. disk[cwd] \in SUBSET Names  BY <3>2, Known DEF Held, DiskOK
      <4>2. (disk[cwd] \ old) \cup {name} \in SUBSET Names  BY <4>1
      <4>3. disk' = [disk EXCEPT ![cwd] = (disk[cwd] \ old) \cup {name}]  BY <2>1, <3>2
      <4> HIDE DEF old
      <4> QED  BY <4>2, <4>3, ChangeType, Known
    <3> QED  BY <3>1, <3>2
  <2> QED  BY <2>1, <2>2, Known, LoadInv
<1>3. ASSUME NEW gone \in SUBSET Targets, DeleteTargets(gone) PROVE IInv'
  <2>1. /\ disk' = IF disk[cwd] = NoDir THEN disk
                   ELSE Settled([disk EXCEPT ![cwd] = @ \ gone])
        /\ move_reg' = move_reg /\ Reload
    BY <1>3 DEF DeleteTargets
  <2>2. DiskOK(disk')
    <3>1. CASE disk[cwd] = NoDir  BY <2>1, <3>1, Known
    <3>2. CASE disk[cwd] # NoDir
      <4>1. disk[cwd] \ gone \in SUBSET Names  BY <3>2, Known DEF DiskOK
      <4>2. disk' = Settled([disk EXCEPT ![cwd] = disk[cwd] \ gone])  BY <2>1, <3>2
      <4> QED  BY <4>1, <4>2, ChangeType, SettledType, Known
    <3> QED  BY <3>1, <3>2
  <2> QED  BY <2>1, <2>2, Known, ReloadInv
<1>4. ASSUME NEW dest \in PasteTargets, Paste(dest) PROVE IInv'
  <2> DEFINE moved == {p \in move_reg \ Kept(dest) : p[1] # dest}
             left(d) == disk[d] \ {p[2] : p \in {q \in moved : q[1] = d}}
  <2>1. /\ disk' = [d \in Dirs |->
                      IF disk[d] = NoDir THEN NoDir
                      ELSE IF d = dest THEN disk[d] \cup {p[2] : p \in moved} ELSE left(d)]
        /\ move_reg' = Kept(dest) /\ Reload
    BY <1>4 DEF Paste
  <2>2. move_reg \subseteq Dirs \X Names  BY Known DEF RegisterOK
  <2>3. {p[2] : p \in moved} \subseteq Names  BY <2>2
  <2>4. ASSUME NEW d \in Dirs
        PROVE  (IF disk[d] = NoDir THEN NoDir
                ELSE IF d = dest THEN disk[d] \cup {p[2] : p \in moved} ELSE left(d))
                 \in (SUBSET Names) \cup {NoDir}
    <3>1. CASE disk[d] = NoDir  BY <3>1
    <3>2. CASE disk[d] # NoDir
      <4>1. disk[d] \in SUBSET Names  BY <3>2, Known DEF DiskOK
      <4> HIDE DEF moved
      <4>2. disk[d] \cup {p[2] : p \in moved} \in SUBSET Names  BY <2>3, <4>1
      <4>3. left(d) \in SUBSET Names  BY <4>1
      <4> HIDE DEF left
      <4> QED  BY <3>2, <4>2, <4>3
    <3> QED  BY <3>1, <3>2
  <2>5. DiskOK(disk')
    <3> HIDE DEF moved, left
    <3> QED  BY <2>1, <2>4 DEF DiskOK
  <2>6. RegisterOK(move_reg')
    <3>1. Kept(dest) \subseteq move_reg  BY DEF Kept
    <3>2. IsFiniteSet(move_reg) /\ Cardinality(move_reg) \in Nat  BY <2>2, RegisterFinite
    <3>3. Cardinality(Kept(dest)) <= Cardinality(move_reg) /\ Cardinality(Kept(dest)) \in Nat
      BY <3>1, <3>2, FS_Subset, FS_CardinalityType
    <3>4. RegisterMax \in Nat /\ Cardinality(move_reg) <= RegisterMax
      BY Known, FilesBufferAssumption DEF RegisterOK
    <3> QED  BY <2>1, <2>2, <3>1, <3>2, <3>3, <3>4 DEF RegisterOK
  <2> QED  BY <2>1, <2>5, <2>6, ReloadInv
<1> QED  BY <1>1, <1>2, <1>3, <1>4

\* The register marked, unmarked, filled or emptied, with the flags after it.
LEMMA RegisterInv ==
  ASSUME IInv, Mark \/ MarkAll \/ MoveClear
  PROVE  IInv'
<1>1. /\ UNCHANGED <<disk, cwd, entries, selected, multi_sel, sel_count>>
      /\ RegisterOK(move_reg')
      /\ in_move_reg' \cap Indices = Flags(cwd, entries, move_reg')
  <2>1. Flags(cwd, entries, move_reg') \subseteq Indices
    BY DEF Flags, Indices, entry_count
  <2>2. CASE Mark
    <3> DEFINE p == <<cwd, NameAt(selected)>>
    <3>1. /\ selected \in Indices
          /\ move_reg' = IF p \in move_reg THEN move_reg \ {p}
                         ELSE IF Cardinality(move_reg) < RegisterMax THEN move_reg \cup {p}
                         ELSE move_reg
          /\ in_move_reg' = IF move_reg' = move_reg THEN in_move_reg
                            ELSE Flags(cwd, entries, move_reg')
          /\ UNCHANGED <<disk, cwd, entries, selected, multi_sel, sel_count>>
      BY <2>2 DEF Mark
    <3>2. p \in Dirs \X Names  BY <3>1, EntryName, Known
    <3> HIDE DEF p
    <3>3. move_reg \subseteq Dirs \X Names /\ Cardinality(move_reg) <= RegisterMax
      BY Known DEF RegisterOK
    <3>4. IsFiniteSet(move_reg) /\ Cardinality(move_reg) \in Nat /\ RegisterMax \in Nat
      BY <3>3, RegisterFinite, FilesBufferAssumption
    <3>5. /\ p \in move_reg => Cardinality(move_reg \ {p}) = Cardinality(move_reg) - 1
          /\ p \notin move_reg => Cardinality(move_reg \cup {p}) = Cardinality(move_reg) + 1
      BY <3>4, FS_AddElement, FS_RemoveElement
    <3>6. RegisterOK(move_reg')
      <4>1. CASE p \in move_reg  BY <3>1, <3>3, <3>4, <3>5, <4>1 DEF RegisterOK
      <4>2. CASE p \notin move_reg /\ Cardinality(move_reg) < RegisterMax
        BY <3>1, <3>2, <3>3, <3>4, <3>5, <4>2 DEF RegisterOK
      <4>3. CASE p \notin move_reg /\ ~(Cardinality(move_reg) < RegisterMax)
        BY <3>1, <3>3, <4>3 DEF RegisterOK
      <4> QED  BY <4>1, <4>2, <4>3
    <3>7. in_move_reg' \cap Indices = Flags(cwd, entries, move_reg')
      <4>1. CASE move_reg' = move_reg  BY <3>1, <4>1, Known
      <4>2. CASE move_reg' # move_reg  BY <2>1, <3>1, <4>2
      <4> QED  BY <4>1, <4>2
    <3> QED  BY <3>1, <3>6, <3>7
  <2>3. CASE MarkAll
    <3>1. /\ in_move_reg' = Flags(cwd, entries, move_reg')
          /\ UNCHANGED <<disk, cwd, entries, selected, multi_sel, sel_count>>
      BY <2>3 DEF MarkAll
    <3> QED  BY <2>1, <2>3, <3>1, MarkAllFits
  <2>4. CASE MoveClear
    <3>1. /\ move_reg' = {} /\ in_move_reg' = {}
          /\ UNCHANGED <<disk, cwd, entries, selected, multi_sel, sel_count>>
      BY <2>4 DEF MoveClear
    <3>2. RegisterOK({})  BY FS_EmptySet, FilesBufferAssumption DEF RegisterOK
    <3>3. Flags(cwd, entries, move_reg') = {}  BY <3>1 DEF Flags
    <3> QED  BY <3>1, <3>2, <3>3
  <2> QED  BY <2>2, <2>3, <2>4
<1>2. DiskOK(disk')  BY <1>1, Known DEF DiskOK
<1> QED  BY <1>1, <1>2, Known, SameListing

\* What else changes the files changes nothing that is kept of them.
LEMMA ForeignInv ==
  ASSUME IInv, NEW d \in Dirs, NEW names \in (SUBSET Names) \cup {NoDir},
         FilesChange(d, names)
  PROVE  IInv'
<1>1. /\ disk' = Settled([disk EXCEPT ![d] = names])
      /\ UNCHANGED <<cwd, entries, multi_sel, sel_count, in_move_reg, selected, move_reg>>
  BY DEF FilesChange, listing
<1>2. DiskOK(disk')  BY <1>1, ChangeType, SettledType
<1>3. RegisterOK(move_reg')  BY <1>1, Known DEF RegisterOK
<1> QED  BY <1>1, <1>2, <1>3, Known, SameListing

LEMMA NextInv == IInv /\ [Next]_vars => IInv'
<1> SUFFICES ASSUME IInv, [Next]_vars PROVE IInv'  OBVIOUS
<1>1. CASE SelectNext \/ SelectPrev \/ PageDown \/ PageUp  BY <1>1, CursorKeys, MoveToInv
<1>2. ASSUME NEW i \in Indices, JumpTo(i) PROVE IInv'
  <2>1. /\ selected' = i
        /\ UNCHANGED <<disk, cwd, entries, multi_sel, sel_count, in_move_reg, move_reg>>
    BY <1>2 DEF JumpTo, listing
  <2>2. DiskOK(disk') /\ RegisterOK(move_reg')  BY <2>1, Known DEF DiskOK, RegisterOK
  <2> QED  BY <2>1, <2>2, Known, SameListing
<1>3. CASE ToggleSelect \/ ToggleVisual \/ LeaveVisual  BY <1>3, SelectKeysInv
<1>4. CASE GoUp \/ GoInto \/ \E dir \in Dirs : Visit(dir)  BY <1>4, MovesLoad, LoadInv
<1>5. CASE \/ Refresh
           \/ \E name \in Names \ DirNames : RenameEntry(name)
           \/ \E gone \in SUBSET Targets : DeleteTargets(gone)
           \/ \E dest \in PasteTargets : Paste(dest)
  BY <1>5, OperationsInv
<1>6. CASE Mark \/ MarkAll \/ MoveClear  BY <1>6, RegisterInv
<1>7. CASE \/ \E names \in SUBSET Names : FilesChange(Top, names)
           \/ \E dir \in DirNames, names \in (SUBSET (Names \ DirNames)) \cup {NoDir} :
                FilesChange(dir, names)
  <2>1. Top \in Dirs /\ DirNames \subseteq Dirs  BY DEF Dirs
  <2>2. SUBSET (Names \ DirNames) \subseteq SUBSET Names  OBVIOUS
  <2> QED  BY <1>7, <2>1, <2>2, ForeignInv
<1>8. CASE UNCHANGED vars
  <2>1. UNCHANGED <<disk, cwd, entries, multi_sel, sel_count, in_move_reg, selected, move_reg>>
    BY <1>8 DEF vars, listing
  <2>2. DiskOK(disk') /\ RegisterOK(move_reg')  BY <2>1, Known DEF DiskOK, RegisterOK
  <2> QED  BY <2>1, <2>2, Known, SameListing
<1> QED  BY <1>1, <1>2, <1>3, <1>4, <1>5, <1>6, <1>7, <1>8 DEF Next

LEMMA AlwaysInv == Spec => []IInv
<1>1. Init => IInv  BY InitInv
<1>2. IInv /\ [Next]_vars => IInv'  BY NextInv
<1> QED  BY <1>1, <1>2, PTL DEF Spec

----------------------------------------------------------------------------
(* What holds always.                                                      *)

\* The variables have their types and the register its bound.
THEOREM FilesTypeCorrect == Spec => []TypeOK
<1>1. IInv => TypeOK  BY DEF IInv
<1> QED  BY <1>1, AlwaysInv, PTL

\* Whatever is removed under it, the cursor is on an entry, at 0 or at -1.
THEOREM CursorAlwaysInRange == Spec => []CursorInRange
<1>1. IInv => CursorInRange  BY DEF IInv
<1> QED  BY <1>1, AlwaysInv, PTL

\* The count that decides what d, D, M and sel work on is the number of marks.
THEOREM SelectionAlwaysCounted == Spec => []SelectionCounted
<1>1. IInv => SelectionCounted  BY DEF IInv
<1> QED  BY <1>1, AlwaysInv, PTL

\* The flags, kept by index, are those of the register, kept by path.
THEOREM FlagsAlwaysMatch == Spec => []FlagsMatchRegister
<1>1. IInv => FlagsMatchRegister  BY DEF IInv
<1> QED  BY <1>1, AlwaysInv, PTL

\* Different entries have different names, so as many go as are marked.
LEMMA NamesOfMarked ==
  ASSUME IInv, NEW I, I \subseteq Indices
  PROVE  Cardinality({NameAt(i) : i \in I}) = Cardinality(I)
<1> DEFINE names == {NameAt(i) : i \in I}
           f == [i \in I |-> NameAt(i)]
<1>1. IsFiniteSet(I)
  <2>1. I \cap Indices = I  OBVIOUS
  <2> QED  BY <2>1, IndicesFinite, Known
<1>2. f \in Surjection(I, names)  BY DEF Surjection
<1>3. ASSUME NEW i \in I, NEW j \in I, f[i] = f[j] PROVE i = j
  <2>1. i \in Int /\ j \in Int  BY DEF Indices
  <2>2. i + 1 \in DOMAIN entries /\ j + 1 \in DOMAIN entries
    <3>1. i + 1 \in 1..Len(entries) /\ j + 1 \in 1..Len(entries)
      BY Known DEF Indices, entry_count
    <3> QED  BY <3>1, Known, LenProperties
  <2>3. i + 1 = j + 1  BY <1>3, <2>2 DEF IInv, Distinct, NameAt
  <2> QED  BY <2>1, <2>3
<1>4. f \in Injection(I, names)
  <2>1. f \in [I -> names]  OBVIOUS
  <2> HIDE DEF f, names
  <2> QED  BY <1>3, <2>1 DEF Injection, IsInjective
<1> QED  BY <1>1, <1>2, <1>4, FS_Surjection

\* The delete dialog says what will go, but for the one entry selected with
\* the cursor on another.
THEOREM DialogAlwaysTells == Spec => []DialogTellsTargets
<1>1. ASSUME IInv PROVE DialogTellsTargets
  <2> SUFFICES ASSUME selected \in Indices, -1 \notin multi_sel
               PROVE  /\ Announced.count = Cardinality(Targets)
                      /\ \/ Announced.named \subseteq Targets
                         \/ sel_count = 1 /\ selected \notin multi_sel
    BY DEF DialogTellsTargets
  <2> DEFINE marked == multi_sel \cap Indices
  <2>1. sel_count = Cardinality(marked) /\ sel_count \in Nat
    BY <1>1, Known, IndicesFinite DEF Counts
  <2>2. Cardinality({NameAt(i) : i \in marked}) = sel_count
    BY <1>1, <2>1, NamesOfMarked
  <2>3. {selected} \cap Indices = {selected}  OBVIOUS
  <2>4. CASE sel_count > 1
    <3>1. Targets = {NameAt(i) : i \in marked}  BY <2>1, <2>4 DEF Targets
    <3>2. Announced.count = sel_count /\ Announced.named = {}  BY <2>4 DEF Announced
    <3> QED  BY <2>2, <3>1, <3>2
  <2>5. CASE ~(sel_count > 1)
    <3>1. Announced = [count |-> 1, named |-> {NameAt(i) : i \in {selected} \cap Indices}]
      BY <2>5 DEF Announced
    <3>2. Announced.count = 1 /\ Announced.named = {NameAt(selected)}  BY <2>3, <3>1
    <3>3. CASE sel_count = 1
      <4>1. Targets = {NameAt(i) : i \in marked}  BY <3>3 DEF Targets
      <4>2. selected \in multi_sel => NameAt(selected) \in Targets  BY <4>1
      <4> QED  BY <2>2, <3>2, <3>3, <4>1, <4>2
    <3>4. CASE sel_count = 0
      <4>1. Targets = {NameAt(selected)}  BY <2>3, <3>4 DEF Targets
      <4> QED  BY <3>2, <4>1, FS_Singleton
    <3> QED  BY <2>1, <2>5, <3>3, <3>4
  <2> QED  BY <2>4, <2>5
<1> QED  BY <1>1, AlwaysInv, PTL

----------------------------------------------------------------------------
(* What no step does.                                                      *)

\* A step loads a listing or keeps the one there is.
LEMMA LoadsOrKeeps ==
  ASSUME IInv, [Next]_vars
  PROVE  (\E dir \in Dirs : Load(dir)) \/ UNCHANGED <<cwd, entries>>
<1>1. cwd \in Dirs  BY Known
<1>2. CASE SelectNext \/ SelectPrev \/ PageDown \/ PageUp
  BY <1>2, CursorKeys DEF MoveTo
<1>3. ASSUME NEW i \in Indices, JumpTo(i) PROVE UNCHANGED <<cwd, entries>>
  BY <1>3 DEF JumpTo, listing
<1>4. CASE ToggleSelect \/ ToggleVisual \/ LeaveVisual
  BY <1>4 DEF ToggleSelect, ToggleVisual, LeaveVisual, listing
<1>5. CASE GoUp \/ GoInto \/ \E dir \in Dirs : Visit(dir)  BY <1>5, MovesLoad
<1>6. CASE Refresh  BY <1>1, <1>6 DEF Refresh, Reload
<1>7. CASE \E name \in Names \ DirNames : RenameEntry(name)
  BY <1>1, <1>7 DEF RenameEntry
<1>8. CASE \E gone \in SUBSET Targets : DeleteTargets(gone)
  BY <1>1, <1>8 DEF DeleteTargets, Reload
<1>9. CASE \E dest \in PasteTargets : Paste(dest)
  BY <1>1, <1>9 DEF Paste, Reload
<1>10. CASE Mark \/ MarkAll \/ MoveClear  BY <1>10 DEF Mark, MarkAll, MoveClear
<1>11. CASE \/ \E names \in SUBSET Names : FilesChange(Top, names)
            \/ \E dir \in DirNames, names \in (SUBSET (Names \ DirNames)) \cup {NoDir} :
                 FilesChange(dir, names)
  BY <1>11 DEF FilesChange, listing
<1>12. CASE UNCHANGED vars  BY <1>12 DEF vars, listing
<1> QED
  BY <1>2, <1>3, <1>4, <1>5, <1>6, <1>7, <1>8, <1>9, <1>10, <1>11, <1>12 DEF Next

\* No mark made in one listing is there in another.
THEOREM SelectionAlwaysDies == Spec => SelectionDiesWithListing
<1>1. ASSUME IInv, [Next]_vars, entries' # entries \/ cwd' # cwd
      PROVE  multi_sel' \cap Nat = {} /\ sel_count' = 0
  <2>1. PICK dir \in Dirs : Load(dir)  BY <1>1, LoadsOrKeeps
  <2> QED  BY <2>1 DEF Load
<1>2. IInv /\ [Next]_vars
        => [entries' # entries \/ cwd' # cwd
              => multi_sel' \cap Nat = {} /\ sel_count' = 0]_vars
  BY <1>1
<1> QED  BY <1>2, AlwaysInv, PTL DEF Spec, SelectionDiesWithListing

\* Only half a page down where nothing is listed takes the cursor to -1.
THEOREM CursorOnlyLostByPaging == Spec => CursorLostOnlyByPaging
<1>1. ASSUME IInv, [Next]_vars, selected # -1, selected' = -1
      PROVE  PageDown /\ entry_count = 0
  <2>1. selected \in Int  BY <1>1, Known
  <2>2. CASE SelectNext \/ SelectPrev \/ PageDown \/ PageUp
    BY <1>1, <2>2, CursorKeys DEF MoveTo
  <2>3. ASSUME NEW i \in Indices, JumpTo(i) PROVE FALSE
    BY <1>1, <2>3 DEF JumpTo, Indices
  <2>4. CASE ToggleSelect \/ ToggleVisual \/ LeaveVisual
    BY <1>1, <2>4 DEF ToggleSelect, ToggleVisual, LeaveVisual
  <2>5. CASE GoUp \/ GoInto \/ \E dir \in Dirs : Visit(dir)
    <3>1. selected' \in {0} \cup Indices'  BY <1>1, <2>5, MovesLoad
    <3> QED  BY <1>1, <3>1 DEF Indices
  <2>6. CASE Refresh  BY <1>1, <2>6 DEF Refresh, Reload
  <2>7. CASE \E name \in Names \ DirNames : RenameEntry(name)
    BY <1>1, <2>7 DEF RenameEntry
  <2>8. CASE \E gone \in SUBSET Targets : DeleteTargets(gone)
    BY <1>1, <2>8 DEF DeleteTargets, Reload
  <2>9. CASE \E dest \in PasteTargets : Paste(dest)  BY <1>1, <2>9 DEF Paste, Reload
  <2>10. CASE Mark \/ MarkAll \/ MoveClear
    BY <1>1, <2>10 DEF Mark, MarkAll, MoveClear
  <2>11. CASE \/ \E names \in SUBSET Names : FilesChange(Top, names)
              \/ \E dir \in DirNames, names \in (SUBSET (Names \ DirNames)) \cup {NoDir} :
                   FilesChange(dir, names)
    BY <1>1, <2>11 DEF FilesChange
  <2>12. CASE UNCHANGED vars  BY <1>1, <2>12 DEF vars
  <2> QED
    BY <1>1, <2>2, <2>3, <2>4, <2>5, <2>6, <2>7, <2>8, <2>9, <2>10, <2>11, <2>12 DEF Next
<1>2. IInv /\ [Next]_vars
        => [selected # -1 /\ selected' = -1 => PageDown /\ entry_count = 0]_vars
  BY <1>1
<1> QED  BY <1>2, AlwaysInv, PTL DEF Spec, CursorLostOnlyByPaging
=============================================================================
