------------------------- MODULE UndoHistory_proofs -------------------------
(***************************************************************************)
(* What TLAPS proves of UndoHistory, for every UNDO_MAX, every number of   *)
(* entries a call can touch and every payload.                             *)
(***************************************************************************)
EXTENDS UndoHistory, TLAPS

----------------------------------------------------------------------------
(* Lemmas about the operators on stacks.                                   *)

\* The operations a call records are operations, one for each entry.
LEMMA OpsType ==
  ASSUME NEW type \in OpTypes, NEW batch \in Nat, NEW items \in Seq(Items)
  PROVE  /\ Ops(type, batch, items) \in Seq(Op)
         /\ Len(Ops(type, batch, items)) = Len(items)
         /\ \A i \in 1..Len(items) :
              /\ Ops(type, batch, items)[i].type = type
              /\ Ops(type, batch, items)[i].batch_id = batch
BY DEF Ops, OpOf, Op

\* The inputs the specification enumerates are non-empty sequences.
LEMMA SomeItemsType ==
  ASSUME NEW items \in SomeItems
  PROVE  items \in Seq(Items) /\ Len(items) \in Nat \ {0} /\ Len(items) <= MaxItems
<1>1. PICK n \in 0..MaxItems : items \in [1..n -> Items]
  BY BoundsAssumption DEF SomeItems, BoundedSeq, SeqOf
<1>2. items \in Seq(Items) /\ Len(items) = n
  BY <1>1, BoundsAssumption
<1>3. n # 0
  BY <1>2 DEF SomeItems
<1> QED BY <1>1, <1>2, <1>3, BoundsAssumption

\* What is more than the stack holds is a number, and nothing while it fits.
LEMMA OverflowFacts ==
  ASSUME NEW n \in Nat
  PROVE  /\ Overflow(n) \in 0..n
         /\ n - Overflow(n) <= UndoMax
         /\ n <= UndoMax => Overflow(n) = 0
BY BoundsAssumption DEF Overflow

\* A sequence of pushes fits the stack and keeps the newest operations.
LEMMA PushedFacts ==
  ASSUME NEW stack \in Seq(Op), NEW ops \in Seq(Op)
  PROVE  /\ Pushed(stack, ops) \in Seq(Op)
         /\ Len(Pushed(stack, ops))
              = Len(stack) + Len(ops) - Overflow(Len(stack) + Len(ops))
         /\ \A i \in 1..Len(Pushed(stack, ops)) :
              Pushed(stack, ops)[i]
                = (stack \o ops)[i + Overflow(Len(stack) + Len(ops))]
<1> DEFINE all == stack \o ops
           n   == Len(stack) + Len(ops)
           d   == Overflow(n)
<1>1. all \in Seq(Op) /\ Len(all) = n /\ n \in Nat
  OBVIOUS
<1>2. d \in 0..n
  BY <1>1, OverflowFacts
<1>3. Pushed(stack, ops) = SubSeq(all, d + 1, n)
  BY DEF Pushed
<1> HIDE DEF all, n, d
<1>4. /\ SubSeq(all, d + 1, n) \in Seq(Op)
      /\ Len(SubSeq(all, d + 1, n)) = n - d
      /\ \A i \in 1..(n - d) : SubSeq(all, d + 1, n)[i] = all[i + d]
  BY <1>1, <1>2
<1> QED BY <1>1, <1>2, <1>3, <1>4 DEF all, n, d

\* A group is not empty when the stack is not, and pops and pushes move it
\* from the end of one stack to the end of the other, reversed.
LEMMA SplitFacts ==
  ASSUME NEW stack \in Seq(Op), NEW k \in 1..Len(stack)
  PROVE  /\ Without(stack, k) \in Seq(Op)
         /\ Len(Without(stack, k)) = Len(stack) - k
         /\ \A i \in 1..(Len(stack) - k) : Without(stack, k)[i] = stack[i]
         /\ Top(stack, k) \in Seq(Op)
         /\ Len(Top(stack, k)) = k
         /\ \A i \in 1..k : Top(stack, k)[i] = stack[Len(stack) - k + i]
BY DEF Without, Top

\* Reversing a sequence keeps its length and its elements, mirrored.
LEMMA ReverseFacts ==
  ASSUME NEW s \in Seq(Op)
  PROVE  /\ Reverse(s) \in Seq(Op)
         /\ Len(Reverse(s)) = Len(s)
         /\ \A i \in 1..Len(s) : Reverse(s)[i] = s[Len(s) - i + 1]
BY DEF Reverse

\* While there is room for everything, nothing is dropped.
LEMMA CappedFits ==
  ASSUME NEW s \in Seq(Op), Len(s) <= UndoMax
  PROVE  Capped(s) = s
<1>1. Len(s) \in Nat /\ Overflow(Len(s)) = 0
  BY OverflowFacts
<1>2. SubSeq(s, 1, Len(s)) = s
  OBVIOUS
<1> QED BY <1>1, <1>2 DEF Capped

\* What a walk by k from one stack to the other leaves in them.
LEMMA WalkFacts ==
  ASSUME NEW from \in Seq(Op), NEW to \in Seq(Op), NEW k \in 1..Len(from),
         Len(from) + Len(to) <= UndoMax
  PROVE  LET to2 == Capped(to \o Reverse(Top(from, k))) IN
         /\ to2 \in Seq(Op)
         /\ Len(to2) = Len(to) + k
         /\ \A i \in 1..Len(to) : to2[i] = to[i]
         /\ \A i \in 1..k : to2[Len(to) + i] = from[Len(from) - i + 1]
<1> DEFINE r == Reverse(Top(from, k))
           c == to \o r
<1>1. /\ Top(from, k) \in Seq(Op)
      /\ Len(Top(from, k)) = k
      /\ \A i \in 1..k : Top(from, k)[i] = from[Len(from) - k + i]
  BY SplitFacts
<1>2. r \in Seq(Op) /\ Len(r) = k /\ \A i \in 1..k : r[i] = Top(from, k)[k - i + 1]
  <2> DEFINE t == Top(from, k)
  <2>1. t \in Seq(Op) /\ Len(t) = k
    BY <1>1
  <2> HIDE DEF t
  <2>2. /\ Reverse(t) \in Seq(Op) /\ Len(Reverse(t)) = Len(t)
        /\ \A i \in 1..Len(t) : Reverse(t)[i] = t[Len(t) - i + 1]
    BY <2>1, ReverseFacts
  <2> QED BY <2>1, <2>2 DEF t
<1>3. \A i \in 1..k : r[i] = from[Len(from) - i + 1]
  <2> TAKE i \in 1..k
  <2>1. k - i + 1 \in 1..k /\ Len(from) - k + (k - i + 1) = Len(from) - i + 1
    OBVIOUS
  <2> QED BY <1>1, <1>2, <2>1
<1> HIDE DEF r
<1>4. /\ c \in Seq(Op) /\ Len(c) = Len(to) + k
      /\ \A i \in 1..Len(to) : c[i] = to[i]
      /\ \A i \in 1..k : c[Len(to) + i] = r[i]
  BY <1>2
<1>5. Capped(c) = c
  <2>1. Len(c) <= UndoMax
    BY <1>4, BoundsAssumption
  <2> HIDE DEF c
  <2> QED BY <1>4, <2>1, CappedFits
<1> QED BY <1>3, <1>4, <1>5 DEF r

----------------------------------------------------------------------------
(* The history as one line.                                                *)

Line(u, r) == u \o Reverse(r)

\* Sequences with the same elements in the same places are the same.
LEMMA SeqExtensionality ==
  ASSUME NEW s \in Seq(Op), NEW t \in Seq(Op), Len(s) = Len(t),
         \A i \in 1..Len(s) : s[i] = t[i]
  PROVE  s = t
OBVIOUS

\* The line has the undo operations first, then the redo ones mirrored.
LEMMA LineFacts ==
  ASSUME NEW u \in Seq(Op), NEW r \in Seq(Op)
  PROVE  /\ Line(u, r) \in Seq(Op)
         /\ Len(Line(u, r)) = Len(u) + Len(r)
         /\ \A i \in 1..Len(u) : Line(u, r)[i] = u[i]
         /\ \A i \in 1..Len(r) : Line(u, r)[Len(u) + i] = r[Len(r) - i + 1]
<1>1. /\ Reverse(r) \in Seq(Op) /\ Len(Reverse(r)) = Len(r)
      /\ \A i \in 1..Len(r) : Reverse(r)[i] = r[Len(r) - i + 1]
  BY ReverseFacts
<1> DEFINE t == Reverse(r)
<1> HIDE DEF t
<1>2. /\ u \o t \in Seq(Op) /\ Len(u \o t) = Len(u) + Len(t)
      /\ \A i \in 1..Len(u) : (u \o t)[i] = u[i]
      /\ \A i \in 1..Len(t) : (u \o t)[Len(u) + i] = t[i]
  <2>1. t \in Seq(Op)
    BY <1>1 DEF t
  <2> QED BY <2>1
<1> QED BY <1>1, <1>2 DEF Line, t

\* Moving a group from undo to redo leaves the line as it was.
LEMMA UndoKeepsLine ==
  ASSUME NEW u \in Seq(Op), NEW r \in Seq(Op), NEW k \in 1..Len(u),
         Len(u) + Len(r) <= UndoMax
  PROVE  Line(Without(u, k), Capped(r \o Reverse(Top(u, k)))) = Line(u, r)
<1> DEFINE u2 == Without(u, k)
           r2 == Capped(r \o Reverse(Top(u, k)))
<1>1. /\ u2 \in Seq(Op) /\ Len(u2) = Len(u) - k
      /\ \A i \in 1..(Len(u) - k) : u2[i] = u[i]
  BY SplitFacts
<1>2. /\ r2 \in Seq(Op) /\ Len(r2) = Len(r) + k
      /\ \A i \in 1..Len(r) : r2[i] = r[i]
      /\ \A i \in 1..k : r2[Len(r) + i] = u[Len(u) - i + 1]
  BY WalkFacts
<1> HIDE DEF u2, r2
<1>3. /\ Line(u2, r2) \in Seq(Op)
      /\ Len(Line(u2, r2)) = Len(u2) + Len(r2)
      /\ \A i \in 1..Len(u2) : Line(u2, r2)[i] = u2[i]
      /\ \A i \in 1..Len(r2) : Line(u2, r2)[Len(u2) + i] = r2[Len(r2) - i + 1]
  BY <1>1, <1>2, LineFacts
<1>4. /\ Line(u, r) \in Seq(Op)
      /\ Len(Line(u, r)) = Len(u) + Len(r)
      /\ \A i \in 1..Len(u) : Line(u, r)[i] = u[i]
      /\ \A i \in 1..Len(r) : Line(u, r)[Len(u) + i] = r[Len(r) - i + 1]
  BY LineFacts
<1>5. ASSUME NEW i \in 1..(Len(u) + Len(r))
      PROVE  Line(u2, r2)[i] = Line(u, r)[i]
  <2>1. CASE i <= Len(u) - k
    <3>1. i \in 1..Len(u2) /\ i \in 1..Len(u) /\ i \in 1..(Len(u) - k)
      BY <1>1, <2>1
    <3> QED BY <1>1, <1>3, <1>4, <3>1
  <2>2. CASE Len(u) - k < i /\ i <= Len(u)
    <3> DEFINE j == i - (Len(u) - k)
               m == Len(u) - i + 1
    <3>1. j \in 1..Len(r2) /\ i = Len(u2) + j /\ Len(r2) - j + 1 = Len(r) + m
          /\ m \in 1..k /\ Len(u) - m + 1 = i
      BY <1>1, <1>2, <2>2
    <3>2. Line(u2, r2)[i] = r2[Len(r) + m]
      BY <1>3, <3>1
    <3>3. r2[Len(r) + m] = u[i]
      BY <1>2, <3>1
    <3> QED BY <1>4, <2>2, <3>2, <3>3
  <2>3. CASE Len(u) < i
    <3> DEFINE j == i - (Len(u) - k)
               m == i - Len(u)
    <3>1. j \in 1..Len(r2) /\ i = Len(u2) + j /\ Len(r2) - j + 1 = Len(r) - m + 1
          /\ m \in 1..Len(r) /\ Len(u) + m = i /\ Len(r) - m + 1 \in 1..Len(r)
      BY <1>1, <1>2, <2>3
    <3>2. Line(u2, r2)[i] = r2[Len(r) - m + 1]
      BY <1>3, <3>1
    <3>3. r2[Len(r) - m + 1] = r[Len(r) - m + 1]
      BY <1>2, <3>1
    <3>4. Line(u, r)[i] = r[Len(r) - m + 1]
      BY <1>4, <3>1
    <3> QED BY <3>2, <3>3, <3>4
  <2> QED BY <2>1, <2>2, <2>3
<1> QED BY <1>1, <1>2, <1>3, <1>4, <1>5, SeqExtensionality DEF u2, r2

\* Moving a group from redo to undo leaves the line as it was.
LEMMA RedoKeepsLine ==
  ASSUME NEW u \in Seq(Op), NEW r \in Seq(Op), NEW k \in 1..Len(r),
         Len(u) + Len(r) <= UndoMax
  PROVE  Line(Capped(u \o Reverse(Top(r, k))), Without(r, k)) = Line(u, r)
<1> DEFINE u2 == Capped(u \o Reverse(Top(r, k)))
           r2 == Without(r, k)
<1>1. /\ u2 \in Seq(Op) /\ Len(u2) = Len(u) + k
      /\ \A i \in 1..Len(u) : u2[i] = u[i]
      /\ \A i \in 1..k : u2[Len(u) + i] = r[Len(r) - i + 1]
  <2>1. Len(r) + Len(u) <= UndoMax
    OBVIOUS
  <2> QED BY <2>1, WalkFacts
<1>2. /\ r2 \in Seq(Op) /\ Len(r2) = Len(r) - k
      /\ \A i \in 1..(Len(r) - k) : r2[i] = r[i]
  BY SplitFacts
<1> HIDE DEF u2, r2
<1>3. /\ Line(u2, r2) \in Seq(Op)
      /\ Len(Line(u2, r2)) = Len(u2) + Len(r2)
      /\ \A i \in 1..Len(u2) : Line(u2, r2)[i] = u2[i]
      /\ \A i \in 1..Len(r2) : Line(u2, r2)[Len(u2) + i] = r2[Len(r2) - i + 1]
  BY <1>1, <1>2, LineFacts
<1>4. /\ Line(u, r) \in Seq(Op)
      /\ Len(Line(u, r)) = Len(u) + Len(r)
      /\ \A i \in 1..Len(u) : Line(u, r)[i] = u[i]
      /\ \A i \in 1..Len(r) : Line(u, r)[Len(u) + i] = r[Len(r) - i + 1]
  BY LineFacts
<1>5. ASSUME NEW i \in 1..(Len(u) + Len(r))
      PROVE  Line(u2, r2)[i] = Line(u, r)[i]
  <2>1. CASE i <= Len(u)
    <3>1. i \in 1..Len(u2) /\ i \in 1..Len(u)
      BY <1>1, <2>1
    <3> QED BY <1>1, <1>3, <1>4, <3>1
  <2>2. CASE Len(u) < i /\ i <= Len(u) + k
    <3> DEFINE m == i - Len(u)
    <3>1. m \in 1..k /\ m \in 1..Len(r) /\ i = Len(u) + m /\ i \in 1..Len(u2)
      BY <1>1, <2>2
    <3>2. Line(u2, r2)[i] = r[Len(r) - m + 1]
      BY <1>1, <1>3, <3>1
    <3>3. Line(u, r)[i] = r[Len(r) - m + 1]
      BY <1>4, <3>1
    <3> QED BY <3>2, <3>3
  <2>3. CASE Len(u) + k < i
    <3> DEFINE m == i - Len(u)
               j == i - (Len(u) + k)
    <3>1. /\ m \in 1..Len(r) /\ i = Len(u) + m
          /\ j \in 1..Len(r2) /\ i = Len(u2) + j
          /\ Len(r2) - j + 1 = Len(r) - m + 1
          /\ Len(r) - m + 1 \in 1..(Len(r) - k)
      BY <1>1, <1>2, <2>3
    <3>2. Line(u2, r2)[i] = r2[Len(r) - m + 1]
      BY <1>3, <3>1
    <3>3. r2[Len(r) - m + 1] = r[Len(r) - m + 1]
      BY <1>2, <3>1
    <3>4. Line(u, r)[i] = r[Len(r) - m + 1]
      BY <1>4, <3>1
    <3> QED BY <3>2, <3>3, <3>4
  <2> QED BY <2>1, <2>2, <2>3
<1> QED BY <1>1, <1>2, <1>3, <1>4, <1>5, SeqExtensionality DEF u2, r2

----------------------------------------------------------------------------
(* Types, and the bound on the two stacks together.  The second needs the  *)
(* first, and the first the second: the walks put every operation back     *)
(* only because there is room for it.                                      *)

Fits == TypeOK /\ StacksFit

\* What a push of the operations of one call does to the two stacks.
LEMMA PushStep ==
  ASSUME Fits, NEW ops \in Seq(Op), Push(ops)
  PROVE  /\ undo_stack' \in Seq(Op) /\ redo_stack' \in Seq(Op)
         /\ Len(undo_stack') + Len(redo_stack') <= UndoMax
<1>1. undo_stack \in Seq(Op)
  BY DEF Fits, TypeOK
<1>2. /\ Pushed(undo_stack, ops) \in Seq(Op)
      /\ Len(Pushed(undo_stack, ops))
           = Len(undo_stack) + Len(ops) - Overflow(Len(undo_stack) + Len(ops))
  BY <1>1, PushedFacts
<1>3. Len(Pushed(undo_stack, ops)) <= UndoMax
  BY <1>1, <1>2, OverflowFacts
<1> QED BY <1>2, <1>3, BoundsAssumption DEF Push

\* Every step keeps the types and the room: a push empties redo, and a walk
\* takes from one stack what it gives to the other.
LEMMA FitsInductive ==
  ASSUME Fits, [Next]_vars
  PROVE  Fits'
<1> USE DEF Fits, TypeOK, StacksFit
<1>1. ASSUME NEW item \in Items, Record("RENAME", <<item>>)
      PROVE  Fits'
  <2>0. 0 \in Nat /\ "RENAME" \in OpTypes /\ <<item>> \in Seq(Items)
    BY DEF OpTypes
  <2>1. Ops("RENAME", 0, <<item>>) \in Seq(Op)
    BY <2>0, OpsType
  <2> QED BY <1>1, <2>1, PushStep DEF Record
<1>2. ASSUME NEW type \in {"TRASH", "DELETE_PERM"}, NEW items \in SomeItems,
             Record(type, items)
      PROVE  Fits'
  <2>1. Ops(type, 0, items) \in Seq(Op)
    BY SomeItemsType, OpsType DEF OpTypes
  <2> QED BY <1>2, <2>1, PushStep DEF Record
<1>3. ASSUME NEW items \in SomeItems, Paste(items)
      PROVE  Fits'
  <2>1. Ops("MOVE", move_batch_id + 1, items) \in Seq(Op)
    BY SomeItemsType, OpsType DEF OpTypes
  <2> QED BY <1>3, <2>1, PushStep DEF Paste
<1>4. ASSUME NEW k \in 1..Len(undo_stack), Undo(k)
      PROVE  Fits'
  <2>1. undo_stack' \in Seq(Op) /\ Len(undo_stack') = Len(undo_stack) - k
    BY <1>4, SplitFacts DEF Undo
  <2>2. redo_stack' \in Seq(Op) /\ Len(redo_stack') = Len(redo_stack) + k
    BY <1>4, WalkFacts DEF Undo
  <2> QED BY <1>4, <2>1, <2>2, BoundsAssumption DEF Undo
<1>5. ASSUME NEW k \in 1..Len(redo_stack), Redo(k)
      PROVE  Fits'
  <2>1. redo_stack' \in Seq(Op) /\ Len(redo_stack') = Len(redo_stack) - k
    BY <1>5, SplitFacts DEF Redo
  <2>2. undo_stack' \in Seq(Op) /\ Len(undo_stack') = Len(undo_stack) + k
    BY <1>5, WalkFacts, BoundsAssumption DEF Redo
  <2> QED BY <1>5, <2>1, <2>2, BoundsAssumption DEF Redo
<1>6. CASE UNCHANGED vars
  BY <1>6 DEF vars
<1> QED BY <1>1, <1>2, <1>3, <1>4, <1>5, <1>6 DEF Next

\* push_undo, files_undo and files_redo keep both stacks well typed and the
\* two together within UNDO_MAX.
THEOREM FitsInvariant == Spec => []Fits
<1>1. Init => Fits
  BY BoundsAssumption DEF Init, Fits, TypeOK, StacksFit
<1>2. Fits /\ [Next]_vars => Fits'
  BY FitsInductive
<1> QED BY <1>1, <1>2, PTL DEF Spec

\* Type correctness of the stacks.
THEOREM TypeCorrect == Spec => []TypeOK
<1>1. Fits => TypeOK
  BY DEF Fits
<1> QED BY <1>1, FitsInvariant, PTL

\* The room guards of files_undo and files_redo never drop an operation.
THEOREM StacksAlwaysFit == Spec => []StacksFit
<1>1. Fits => StacksFit
  BY DEF Fits
<1> QED BY <1>1, FitsInvariant, PTL

\* Walking up and down the history with u and U never loses, duplicates or
\* reorders an operation.
THEOREM HistoryAlwaysKept == Spec => HistoryKept
<1> DEFINE Walk == \/ \E k \in 1..Len(undo_stack) : Undo(k)
                   \/ \E k \in 1..Len(redo_stack) : Redo(k)
<1>1. ASSUME Fits, [Next]_vars, Walk
      PROVE  Timeline' = Timeline
  <2>1. /\ Timeline = Line(undo_stack, redo_stack)
        /\ Timeline' = Line(undo_stack', redo_stack')
    BY DEF Timeline, Line
  <2>2. /\ undo_stack \in Seq(Op) /\ redo_stack \in Seq(Op)
        /\ Len(undo_stack) + Len(redo_stack) <= UndoMax
    BY <1>1 DEF Fits, TypeOK, StacksFit
  <2>3. CASE \E k \in 1..Len(undo_stack) : Undo(k)
    <3>1. PICK k \in 1..Len(undo_stack) : Undo(k)
      BY <2>3
    <3> QED BY <2>1, <2>2, <3>1, UndoKeepsLine DEF Undo
  <2>4. CASE \E k \in 1..Len(redo_stack) : Redo(k)
    <3>1. PICK k \in 1..Len(redo_stack) : Redo(k)
      BY <2>4
    <3> QED BY <2>1, <2>2, <3>1, RedoKeepsLine DEF Redo
  <2> QED BY <1>1, <2>3, <2>4
<1>2. Fits /\ [Next]_vars => [Walk => Timeline' = Timeline]_vars
  BY <1>1
<1> QED BY <1>2, FitsInvariant, PTL DEF Spec, HistoryKept

----------------------------------------------------------------------------
(* Batches.  That the ids grow along the history is inductive only with    *)
(* the stacks within their bound (a dropped operation would not matter,    *)
(* but the walks would no longer keep the line); that a batch is never     *)
(* split between the stacks needs that its id is not 0, which the order    *)
(* gives.                                                                  *)

IInv == Fits /\ BatchesOrdered /\ BatchNotSplit

\* The order along the history, of any line and counter.
Ordered(line, batch) ==
  \A i, j \in 1..Len(line) :
    /\ i <= j
    /\ line[i].type = "MOVE"
    /\ line[j].type = "MOVE"
    => /\ 0 < line[i].batch_id
       /\ line[i].batch_id <= line[j].batch_id
       /\ line[j].batch_id <= batch

\* Operations pushed by one call carry an id above every earlier one, or none.
LEMMA PushKeepsOrder ==
  ASSUME Fits, BatchesOrdered, NEW ops \in Seq(Op), Push(ops),
         move_batch_id' \in Nat, move_batch_id <= move_batch_id',
         \A i \in 1..Len(ops) : ops[i].type = "MOVE" =>
            ops[i].batch_id = move_batch_id' /\ move_batch_id < move_batch_id'
  PROVE  BatchesOrdered' /\ BatchNotSplit'
<1> DEFINE d   == Overflow(Len(undo_stack) + Len(ops))
           all == undo_stack \o ops
           n   == Len(undo_stack)
<1>1. /\ undo_stack \in Seq(Op) /\ redo_stack \in Seq(Op)
      /\ move_batch_id \in Nat /\ n \in Nat
      /\ undo_stack' = Pushed(undo_stack, ops) /\ redo_stack' = <<>>
  BY DEF Fits, TypeOK, Push
<1>2. /\ undo_stack' \in Seq(Op)
      /\ d \in 0..(n + Len(ops))
      /\ Len(undo_stack') = n + Len(ops) - d
      /\ \A i \in 1..Len(undo_stack') : undo_stack'[i] = all[i + d]
  <2>1. d \in 0..(n + Len(ops))
    <3>1. n + Len(ops) \in Nat
      BY <1>1
    <3> HIDE DEF n
    <3>2. Overflow(n + Len(ops)) \in 0..(n + Len(ops))
      BY <3>1, OverflowFacts
    <3> QED BY <3>2 DEF n
  <2>2. /\ Pushed(undo_stack, ops) \in Seq(Op)
        /\ Len(Pushed(undo_stack, ops)) = n + Len(ops) - d
        /\ \A i \in 1..Len(Pushed(undo_stack, ops)) :
             Pushed(undo_stack, ops)[i] = all[i + d]
    BY <1>1, PushedFacts
  <2> HIDE DEF d, n, all
  <2> QED BY <1>1, <2>1, <2>2
<1> HIDE DEF d
<1>3. /\ Len(all) = n + Len(ops)
      /\ \A i \in 1..n : all[i] = undo_stack[i]
      /\ \A i \in (n + 1)..(n + Len(ops)) : all[i] = ops[i - n]
  BY <1>1
<1>4. \A i, j \in 1..n : i <= j /\ undo_stack[i].type = "MOVE" /\ undo_stack[j].type = "MOVE"
        => /\ 0 < undo_stack[i].batch_id
           /\ undo_stack[i].batch_id <= undo_stack[j].batch_id
           /\ undo_stack[j].batch_id <= move_batch_id
  <2>1. /\ Len(Line(undo_stack, redo_stack)) = n + Len(redo_stack)
        /\ \A i \in 1..n : Line(undo_stack, redo_stack)[i] = undo_stack[i]
    BY <1>1, LineFacts
  <2>2. Timeline = Line(undo_stack, redo_stack)
    BY DEF Timeline, Line
  <2>3. Len(redo_stack) \in Nat
    BY <1>1
  <2>4. \A i \in 1..n : i \in 1..Len(Timeline) /\ Timeline[i] = undo_stack[i]
    BY <1>1, <2>1, <2>2, <2>3
  <2> QED BY <2>4 DEF BatchesOrdered
<1>5. \A i \in 1..n : undo_stack[i] \in Op
  BY <1>1
<1> HIDE DEF all
<1>6. Ordered(all, move_batch_id')
  <2> SUFFICES ASSUME NEW i \in 1..(n + Len(ops)), NEW j \in 1..(n + Len(ops)),
                      i <= j, all[i].type = "MOVE", all[j].type = "MOVE"
               PROVE  /\ 0 < all[i].batch_id
                      /\ all[i].batch_id <= all[j].batch_id
                      /\ all[j].batch_id <= move_batch_id'
    BY <1>3 DEF Ordered
  <2>1. CASE j <= n
    <3>1. i \in 1..n /\ j \in 1..n
      BY <1>1, <2>1
    <3>2. undo_stack[j].batch_id \in Nat
      BY <1>5, <3>1 DEF Op
    <3> QED BY <1>1, <1>3, <1>4, <3>1, <3>2
  <2>2. CASE i <= n /\ n < j
    <3>1. i \in 1..n /\ j \in (n + 1)..(n + Len(ops)) /\ j - n \in 1..Len(ops)
      BY <1>1, <2>2
    <3>2. all[j].batch_id = move_batch_id' /\ move_batch_id < move_batch_id'
      BY <1>3, <3>1
    <3>3. 0 < undo_stack[i].batch_id /\ undo_stack[i].batch_id <= move_batch_id
      BY <1>3, <1>4, <3>1
    <3>4. undo_stack[i].batch_id \in Nat
      BY <1>5, <3>1 DEF Op
    <3> QED BY <1>1, <1>3, <3>1, <3>2, <3>3, <3>4
  <2>3. CASE n < i
    <3>1. /\ i \in (n + 1)..(n + Len(ops)) /\ i - n \in 1..Len(ops)
          /\ j \in (n + 1)..(n + Len(ops)) /\ j - n \in 1..Len(ops)
      BY <1>1, <2>3
    <3>2. /\ all[i].batch_id = move_batch_id' /\ all[j].batch_id = move_batch_id'
          /\ move_batch_id < move_batch_id'
      BY <1>3, <3>1
    <3> QED BY <1>1, <3>2
  <2> QED BY <1>1, <2>1, <2>2, <2>3
<1>7. Ordered(undo_stack', move_batch_id')
  <2>1. \A i \in 1..Len(undo_stack') : i + d \in 1..Len(all)
    BY <1>1, <1>2, <1>3
  <2> QED BY <1>2, <1>6, <2>1 DEF Ordered
<1>8. Timeline' = undo_stack'
  <2>1. Timeline' = undo_stack' \o Reverse(<<>>)
    BY <1>1 DEF Timeline
  <2>2. Reverse(<<>>) = <<>>
    BY DEF Reverse
  <2> QED BY <1>2, <2>1, <2>2
<1>9. BatchesOrdered'
  BY <1>7, <1>8 DEF BatchesOrdered, Ordered
<1>10. BatchNotSplit'
  BY <1>1 DEF BatchNotSplit
<1> QED BY <1>9, <1>10

\* A walk that takes a whole group from one stack to the other does not leave
\* operations of one batch at both ends.
LEMMA WalkKeepsBatchWhole ==
  ASSUME NEW from \in Seq(Op), NEW to \in Seq(Op), NEW k \in 1..Len(from),
         Len(from) + Len(to) <= UndoMax, IsGroup(from, k),
         \A i \in 1..Len(from) : from[i].type = "MOVE" => 0 < from[i].batch_id,
         k < Len(from)
  PROVE  ~SameBatch(Last(Without(from, k)),
                    Last(Capped(to \o Reverse(Top(from, k)))))
<1> DEFINE n  == Len(from)
           to2 == Capped(to \o Reverse(Top(from, k)))
<1>1. /\ Without(from, k) \in Seq(Op) /\ Len(Without(from, k)) = n - k
      /\ \A i \in 1..(n - k) : Without(from, k)[i] = from[i]
  BY SplitFacts
<1>2. Last(Without(from, k)) = from[n - k]
  <2>1. n - k \in 1..(n - k)
    OBVIOUS
  <2> QED BY <1>1, <2>1 DEF Last
<1>3. /\ to2 \in Seq(Op) /\ Len(to2) = Len(to) + k
      /\ \A i \in 1..k : to2[Len(to) + i] = from[n - i + 1]
  BY WalkFacts
<1> HIDE DEF to2
<1>4. Last(to2) = from[n - k + 1]
  <2>1. k \in 1..k
    OBVIOUS
  <2>2. to2[Len(to) + k] = from[n - k + 1]
    BY <1>3, <2>1
  <2> QED BY <1>3, <2>2 DEF Last
<1>5. CASE k = 1
  BY <1>2, <1>4, <1>5 DEF IsGroup, SameBatch, to2
<1>6. CASE k # 1
  <2>1. n - k + 1 \in (n - k + 1)..(n - 1)
    BY <1>6
  <2> QED BY <1>2, <1>4, <2>1 DEF IsGroup, SameBatch, to2
<1> QED BY <1>5, <1>6

\* SameBatch does not depend on which of the two is named first.
LEMMA SameBatchSymmetric ==
  ASSUME NEW a, NEW b PROVE SameBatch(a, b) <=> SameBatch(b, a)
BY DEF SameBatch

\* In an ordered history every batch id on either stack is above 0.
LEMMA BatchIdsPositive ==
  ASSUME Fits, BatchesOrdered
  PROVE  /\ \A i \in 1..Len(undo_stack) :
              undo_stack[i].type = "MOVE" => 0 < undo_stack[i].batch_id
         /\ \A i \in 1..Len(redo_stack) :
              redo_stack[i].type = "MOVE" => 0 < redo_stack[i].batch_id
<1>1. undo_stack \in Seq(Op) /\ redo_stack \in Seq(Op)
  BY DEF Fits, TypeOK
<1>2. Timeline = Line(undo_stack, redo_stack)
  BY DEF Timeline, Line
<1> DEFINE nu == Len(undo_stack)
           nr == Len(redo_stack)
<1>3. nu \in Nat /\ nr \in Nat
  BY <1>1
<1>4. /\ Len(Timeline) = nu + nr
      /\ \A i \in 1..nu : Timeline[i] = undo_stack[i]
      /\ \A i \in 1..nr : Timeline[nu + i] = redo_stack[nr - i + 1]
  BY <1>1, <1>2, LineFacts
<1>5. \A i \in 1..Len(Timeline) : Timeline[i].type = "MOVE" => 0 < Timeline[i].batch_id
  BY <1>3, <1>4 DEF BatchesOrdered
<1> HIDE DEF nu, nr
<1>6. \A i \in 1..nu : i \in 1..Len(Timeline)
  BY <1>3, <1>4
<1>7. ASSUME NEW i \in 1..nr
      PROVE  redo_stack[i].type = "MOVE" => 0 < redo_stack[i].batch_id
  <2> DEFINE j == nr - i + 1
  <2>1. j \in 1..nr /\ nr - j + 1 = i /\ nu + j \in 1..Len(Timeline)
    BY <1>3, <1>4
  <2>2. Timeline[nu + j] = redo_stack[i]
    BY <1>4, <2>1
  <2> QED BY <1>5, <2>1, <2>2
<1> QED BY <1>4, <1>5, <1>6, <1>7 DEF nu, nr

\* Every step keeps the inductive invariant: a push extends the line with ids
\* above all earlier ones, and a walk leaves the line as it is and takes a
\* batch as a whole.
LEMMA IInvInductive ==
  ASSUME IInv, [Next]_vars
  PROVE  IInv'
<1>1. /\ Fits /\ Fits' /\ BatchesOrdered /\ BatchNotSplit
      /\ undo_stack \in Seq(Op) /\ redo_stack \in Seq(Op) /\ move_batch_id \in Nat
      /\ Len(undo_stack) + Len(redo_stack) <= UndoMax
  BY FitsInductive DEF IInv, Fits, TypeOK, StacksFit
<1>2. ASSUME NEW item \in Items, Record("RENAME", <<item>>)
      PROVE  IInv'
  <2>1. 0 \in Nat /\ "RENAME" \in OpTypes /\ <<item>> \in Seq(Items)
    BY DEF OpTypes
  <2> DEFINE items == <<item>>
             ops == Ops("RENAME", 0, items)
  <2>2. items \in Seq(Items)
    BY <2>1
  <2> HIDE DEF items
  <2>3. ops \in Seq(Op) /\ \A i \in 1..Len(ops) : ops[i].type # "MOVE"
    BY <2>1, <2>2, OpsType
  <2> HIDE DEF ops
  <2>4. Push(ops) /\ move_batch_id' = move_batch_id
    BY <1>2 DEF Record, ops, items
  <2> QED BY <1>1, <2>3, <2>4, PushKeepsOrder DEF IInv
<1>3. ASSUME NEW type \in {"TRASH", "DELETE_PERM"}, NEW items \in SomeItems,
             Record(type, items)
      PROVE  IInv'
  <2>1. 0 \in Nat /\ type \in OpTypes /\ items \in Seq(Items) /\ type # "MOVE"
    BY SomeItemsType DEF OpTypes
  <2> DEFINE ops == Ops(type, 0, items)
  <2>2. ops \in Seq(Op) /\ \A i \in 1..Len(ops) : ops[i].type # "MOVE"
    BY <2>1, OpsType
  <2> HIDE DEF ops
  <2>3. Push(ops) /\ move_batch_id' = move_batch_id
    BY <1>3 DEF Record, ops
  <2> QED BY <1>1, <2>2, <2>3, PushKeepsOrder DEF IInv
<1>4. ASSUME NEW items \in SomeItems, Paste(items)
      PROVE  IInv'
  <2>1. move_batch_id + 1 \in Nat /\ "MOVE" \in OpTypes /\ items \in Seq(Items)
    BY <1>1, SomeItemsType DEF OpTypes
  <2> DEFINE ops == Ops("MOVE", move_batch_id + 1, items)
  <2>2. ops \in Seq(Op) /\ \A i \in 1..Len(ops) : ops[i].batch_id = move_batch_id + 1
    BY <2>1, OpsType
  <2> HIDE DEF ops
  <2>3. Push(ops) /\ move_batch_id' = move_batch_id + 1
    BY <1>4 DEF Paste, ops
  <2>4. move_batch_id <= move_batch_id + 1 /\ move_batch_id < move_batch_id + 1
    BY <1>1
  <2> QED BY <1>1, <2>1, <2>2, <2>3, <2>4, PushKeepsOrder DEF IInv
<1>5. ASSUME NEW k \in 1..Len(undo_stack), Undo(k)
      PROVE  IInv'
  <2>1. Timeline' = Timeline /\ move_batch_id' = move_batch_id
    BY <1>1, <1>5, UndoKeepsLine DEF Undo, Timeline, Line
  <2>2. BatchesOrdered'
    BY <1>1, <2>1 DEF BatchesOrdered
  <2>3. Len(undo_stack') = Len(undo_stack) - k
    BY <1>1, <1>5, SplitFacts DEF Undo
  <2>4. CASE k < Len(undo_stack)
    <3>1. ~SameBatch(Last(undo_stack'), Last(redo_stack'))
      BY <1>1, <1>5, <2>4, BatchIdsPositive, WalkKeepsBatchWhole DEF Undo
    <3> QED BY <1>1, <2>2, <3>1 DEF IInv, BatchNotSplit
  <2>5. CASE k = Len(undo_stack)
    <3>1. undo_stack' = <<>>
      BY <1>1, <2>3, <2>5 DEF Fits, TypeOK
    <3> QED BY <1>1, <2>2, <3>1 DEF IInv, BatchNotSplit
  <2> QED BY <1>1, <2>4, <2>5
<1>6. ASSUME NEW k \in 1..Len(redo_stack), Redo(k)
      PROVE  IInv'
  <2>1. Timeline' = Timeline /\ move_batch_id' = move_batch_id
    BY <1>1, <1>6, RedoKeepsLine DEF Redo, Timeline, Line
  <2>2. BatchesOrdered'
    BY <1>1, <2>1 DEF BatchesOrdered
  <2>3. Len(redo_stack') = Len(redo_stack) - k
    BY <1>1, <1>6, SplitFacts DEF Redo
  <2>4. CASE k < Len(redo_stack)
    <3>1. Len(redo_stack) + Len(undo_stack) <= UndoMax
      BY <1>1
    <3>2. ~SameBatch(Last(redo_stack'), Last(undo_stack'))
      BY <1>1, <1>6, <2>4, <3>1, BatchIdsPositive, WalkKeepsBatchWhole DEF Redo
    <3> QED BY <1>1, <2>2, <3>2, SameBatchSymmetric DEF IInv, BatchNotSplit
  <2>5. CASE k = Len(redo_stack)
    <3>1. redo_stack' = <<>>
      BY <1>1, <2>3, <2>5 DEF Fits, TypeOK
    <3> QED BY <1>1, <2>2, <3>1 DEF IInv, BatchNotSplit
  <2> QED BY <1>1, <2>4, <2>5
<1>7. CASE UNCHANGED vars
  BY <1>1, <1>7 DEF vars, IInv, BatchesOrdered, BatchNotSplit, Timeline
<1> QED BY <1>2, <1>3, <1>4, <1>5, <1>6, <1>7 DEF Next

\* The inductive invariant holds in every reachable state.
THEOREM IInvInvariant == Spec => []IInv
<1>1. Init => IInv
  <2> SUFFICES ASSUME Init PROVE IInv
    OBVIOUS
  <2>1. Fits
    BY BoundsAssumption DEF Init, Fits, TypeOK, StacksFit
  <2>2. Len(Timeline) = 0
    <3>1. Reverse(<<>>) = <<>>
      BY DEF Reverse
    <3>2. Len(<<>> \o <<>>) = 0
      OBVIOUS
    <3> QED BY <3>1, <3>2 DEF Init, Timeline
  <2> QED BY <2>1, <2>2 DEF Init, IInv, BatchesOrdered, BatchNotSplit
<1>2. IInv /\ [Next]_vars => IInv'
  BY IInvInductive
<1> QED BY <1>1, <1>2, PTL DEF Spec

\* A later paste is never taken for part of an earlier one.
THEOREM BatchesAlwaysOrdered == Spec => []BatchesOrdered
<1>1. IInv => BatchesOrdered
  BY DEF IInv
<1> QED BY <1>1, IInvInvariant, PTL

\* The next undo and the next redo never work on two parts of one paste.
THEOREM BatchNeverSplit == Spec => []BatchNotSplit
<1>1. IInv => BatchNotSplit
  BY DEF IInv
<1> QED BY <1>1, IInvInvariant, PTL

\* In an ordered history no id on the undo stack exceeds the counter.
LEMMA UndoIdsBelow ==
  ASSUME Fits, BatchesOrdered, NEW i \in 1..Len(undo_stack),
         undo_stack[i].type = "MOVE"
  PROVE  undo_stack[i].batch_id <= move_batch_id
<1>1. undo_stack \in Seq(Op) /\ redo_stack \in Seq(Op)
  BY DEF Fits, TypeOK
<1>2. Timeline = Line(undo_stack, redo_stack)
  BY DEF Timeline, Line
<1>3. /\ Len(Timeline) = Len(undo_stack) + Len(redo_stack)
      /\ Timeline[i] = undo_stack[i]
  BY <1>1, <1>2, LineFacts
<1>4. i \in 1..Len(Timeline) /\ i <= i
  BY <1>1, <1>3
<1> QED BY <1>3, <1>4 DEF BatchesOrdered

\* Right after a paste one undo takes back all of its operations still on
\* the stack and no operation of anything done before.
THEOREM PasteAlwaysOneGroup == Spec => PasteIsOneGroup
<1> DEFINE Goal(items) ==
      \E k \in 1..Len(undo_stack') :
        /\ IsGroup(undo_stack', k)
        /\ k = IF Len(items) <= UndoMax THEN Len(items) ELSE UndoMax
<1>1. ASSUME IInv, NEW items \in SomeItems, Paste(items)
      PROVE  Goal(items)
  <2> DEFINE ops == Ops("MOVE", move_batch_id + 1, items)
             h   == Len(undo_stack)
             L   == Len(items)
             d   == Overflow(h + L)
             k   == IF L <= UndoMax THEN L ELSE UndoMax
             all == undo_stack \o ops
             u2  == undo_stack'
  <2>1. /\ Fits /\ BatchesOrdered /\ undo_stack \in Seq(Op) /\ move_batch_id \in Nat
        /\ move_batch_id + 1 \in Nat /\ "MOVE" \in OpTypes
    BY <1>1 DEF IInv, Fits, TypeOK, OpTypes
  <2>2. items \in Seq(Items) /\ L \in Nat \ {0} /\ h \in Nat /\ h + L \in Nat
        /\ h <= UndoMax
    <3>1. items \in Seq(Items) /\ L \in Nat \ {0}
      BY SomeItemsType
    <3>2. h \in Nat /\ h <= UndoMax
      BY <1>1, BoundsAssumption DEF IInv, Fits, TypeOK, StacksFit
    <3> QED BY <3>1, <3>2
  <2>3. /\ ops \in Seq(Op) /\ Len(ops) = L
        /\ \A i \in 1..L : ops[i].type = "MOVE" /\ ops[i].batch_id = move_batch_id + 1
    BY <2>1, <2>2, OpsType
  <2>4. u2 = Pushed(undo_stack, ops)
    BY <1>1 DEF Paste, Push
  <2> HIDE DEF ops
  <2>5. /\ u2 \in Seq(Op) /\ Len(u2) = h + L - d
        /\ \A i \in 1..Len(u2) : u2[i] = all[i + d]
    <3>1. /\ Pushed(undo_stack, ops) \in Seq(Op)
          /\ Len(Pushed(undo_stack, ops))
               = Len(undo_stack) + Len(ops) - Overflow(Len(undo_stack) + Len(ops))
          /\ \A i \in 1..Len(Pushed(undo_stack, ops)) :
               Pushed(undo_stack, ops)[i]
                 = (undo_stack \o ops)[i + Overflow(Len(undo_stack) + Len(ops))]
      BY <2>1, <2>3, PushedFacts
    <3>2. Overflow(Len(undo_stack) + Len(ops)) = d
      BY <2>3
    <3> HIDE DEF d, u2
    <3> QED BY <2>3, <2>4, <3>1, <3>2
  <2>6. /\ \A i \in 1..h : all[i] = undo_stack[i]
        /\ \A i \in (h + 1)..(h + L) : all[i] = ops[i - h]
    BY <2>1, <2>3
  <2> HIDE DEF all, u2
  <2>7. /\ h + L <= UndoMax => d = 0
        /\ ~(h + L <= UndoMax) => d = h + L - UndoMax
    <3> HIDE DEF h, L
    <3> QED BY <2>2, BoundsAssumption DEF Overflow
  <2>8. k \in 1..Len(u2) /\ d \in Nat
    BY <2>2, <2>5, <2>7, BoundsAssumption
  <2> HIDE DEF h, L, d
  <2>9. ASSUME NEW i \in (Len(u2) - k + 1)..Len(u2)
        PROVE  u2[i].type = "MOVE" /\ u2[i].batch_id = move_batch_id + 1
    <3>1. i \in 1..Len(u2) /\ i + d \in (h + 1)..(h + L) /\ i + d - h \in 1..L
      BY <2>2, <2>5, <2>7, <2>8, BoundsAssumption
    <3>2. u2[i] = all[i + d]
      BY <2>5, <3>1
    <3> DEFINE j == i + d
    <3>3. j \in (h + 1)..(h + L) /\ j - h \in 1..L
      BY <2>2, <2>8, <3>1
    <3>5. u2[i] = all[j]
      BY <3>2
    <3> HIDE DEF j
    <3>4. u2[i] = ops[j - h]
      BY <2>6, <3>3, <3>5
    <3> QED BY <2>3, <3>3, <3>4
  <2>10. ASSUME k < Len(u2)
         PROVE  u2[Len(u2) - k].type = "MOVE" => u2[Len(u2) - k].batch_id <= move_batch_id
    <3>1. /\ Len(u2) - k \in 1..Len(u2)
          /\ Len(u2) - k + d \in 1..h
      BY <2>2, <2>5, <2>7, <2>8, <2>10, BoundsAssumption
    <3>2. u2[Len(u2) - k] = undo_stack[Len(u2) - k + d]
      BY <2>5, <2>6, <3>1
    <3> QED BY <2>1, <3>1, <3>2, UndoIdsBelow DEF h
  <2>11. IsGroup(u2, k)
    <3> DEFINE top == u2[Len(u2)]
    <3>1. Len(u2) \in Nat /\ Len(u2) \in (Len(u2) - k + 1)..Len(u2)
      BY <2>5, <2>8
    <3>2. top.type = "MOVE" /\ top.batch_id = move_batch_id + 1 /\ top.batch_id > 0
      BY <2>1, <2>9, <3>1
    <3>3. \A i \in (Len(u2) - k + 1)..(Len(u2) - 1) :
            u2[i].type = "MOVE" /\ u2[i].batch_id = move_batch_id + 1
      BY <2>8, <2>9, <3>1
    <3>4. ASSUME k < Len(u2)
          PROVE  ~(u2[Len(u2) - k].type = "MOVE"
                   /\ u2[Len(u2) - k].batch_id = move_batch_id + 1)
      BY <2>1, <2>10, <3>4
    <3> HIDE DEF k
    <3> QED BY <3>2, <3>3, <3>4 DEF IsGroup
  <2> QED BY <2>8, <2>11 DEF u2, k, L
<1>2. IInv /\ [Next]_vars =>
        [\A items \in SomeItems : Paste(items) => Goal(items)]_vars
  BY <1>1
<1> QED BY <1>2, IInvInvariant, PTL DEF Spec, PasteIsOneGroup

=============================================================================
