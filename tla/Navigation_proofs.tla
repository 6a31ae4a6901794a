------------------------- MODULE Navigation_proofs -------------------------
(***************************************************************************)
(* For every file system, every DIR_JUMPLIST_MAX and every start: the      *)
(* jumplist always leads back to the start, and no move is forgotten.      *)
(***************************************************************************)
EXTENDS Navigation, SequenceTheorems, TLAPS

----------------------------------------------------------------------------
(* Places.                                                                 *)

Place == [at : Paths, back : Seq(Paths)]

Fits(w) == w \in Place /\ Len(w.back) <= JumpMax

\* The place the user started from, as seen from w.
Origin(w) == IF w.back = <<>> THEN w.at ELSE Head(w.back)

\* w leads back to where the program was started.
Leads(w) == Fits(w) /\ Same(Origin(w), start)

\* realpath keeps a path a path, and the directory the same.
LEMMA ResolveSame ==
  ASSUME NEW p \in Paths
  PROVE  Resolve(p) \in Paths /\ Real[p] \in Paths /\ Same(Resolve(p), p)
BY NavigationAssumption DEF Resolve, Same

\* Whatever is on disk, a listing is a sequence of paths.
LEMMA ListingType ==
  ASSUME NEW d
  PROVE  Listing(d) \in Seq(Paths)
<1>1. Children(d) \in SUBSET Paths  BY DEF Children
<1>2. Sorted(Children(d)) \in Seq(Paths)  BY <1>1, NavigationAssumption
<1> QED  BY <1>2 DEF Listing

\* What is left of a list without its last element.
LEMMA FrontFacts ==
  ASSUME NEW s \in Seq(Paths), s # <<>>
  PROVE  /\ Last(s) \in Paths
         /\ Front(s) \in Seq(Paths) /\ Len(Front(s)) = Len(s) - 1
         /\ Len(s) = 1 => Front(s) = <<>> /\ Last(s) = Head(s)
         /\ Len(s) # 1 => Front(s) # <<>> /\ Head(Front(s)) = Head(s)
<1> DEFINE n == Len(s)
           f == SubSeq(s, 1, n - 1)
<1>1. n \in Nat \ {0}  OBVIOUS
<1>2. \A i \in 1..n : s[i] \in Paths  OBVIOUS
<1>3. Last(s) = s[n] /\ Head(s) = s[1] /\ Front(s) = f  BY DEF Last, Front
<1>4. n # 1 => Head(f) = s[1]
  <2>1. SUFFICES ASSUME n # 1 PROVE Head(f) = s[1]  OBVIOUS
  <2>2. n - 1 \in 1..n /\ 1 \in 1..n
    <3> HIDE DEF n
    <3> QED  BY <1>1, <2>1
  <2> QED  BY <2>2, HeadTailOfSubSeq
<1> HIDE DEF n
<1>5. \A i \in 1..(n - 1) : s[i] \in Paths  BY <1>1, <1>2
<1>6. f \in Seq(Paths) /\ Len(f) = IF 1 <= n - 1 THEN (n - 1) - 1 + 1 ELSE 0
  BY <1>1, <1>5, SubSeqProperties
<1> HIDE DEF f
<1>7. f \in Seq(Paths) /\ Len(f) = n - 1  BY <1>1, <1>6
<1>8. n = 1 => f = <<>>  BY <1>7
<1>9. n # 1 => f # <<>>  BY <1>1, <1>7
<1>10. s[n] \in Paths  BY <1>1, <1>2
<1> QED  BY <1>3, <1>4, <1>7, <1>8, <1>9, <1>10, Zenon DEF n

\* A push keeps the oldest directory, unless there was none.
LEMMA PushedHead ==
  ASSUME NEW back \in Seq(Paths), NEW p \in Paths, Len(back) <= JumpMax
  PROVE  /\ Pushed(back, p) \in Seq(Paths) /\ Len(Pushed(back, p)) <= JumpMax
         /\ Pushed(back, p) # <<>>
         /\ Head(Pushed(back, p)) = IF back = <<>> THEN p ELSE Head(back)
         /\ Len(back) < JumpMax => Pushed(back, p) = Append(back, p)
<1>1. JumpMax \in Nat \ {0}  BY NavigationAssumption
<1>2. CASE Len(back) < JumpMax
  <2>1. Pushed(back, p) = Append(back, p)  BY <1>2 DEF Pushed
  <2> QED  BY <1>1, <1>2, <2>1
<1>3. CASE ~(Len(back) < JumpMax)
  <2>1. Pushed(back, p) = back  BY <1>3 DEF Pushed
  <2>2. back # <<>>  BY <1>1, <1>3
  <2> QED  BY <1>1, <1>3, <2>1, <2>2
<1> QED  BY <1>2, <1>3

\* Going from w to any path and pushing where one was.
LEMMA PushLeads ==
  ASSUME NEW w \in Place, Leads(w), NEW p \in Paths
  PROVE  Leads([at |-> p, back |-> Pushed(w.back, w.at)])
<1>1. w.back \in Seq(Paths) /\ w.at \in Paths /\ Len(w.back) <= JumpMax
  BY DEF Place, Leads, Fits
<1> DEFINE v == [at |-> p, back |-> Pushed(w.back, w.at)]
<1>2. v \in Place /\ Len(v.back) <= JumpMax  BY <1>1, PushedHead DEF Place
<1>3. Origin(v) = Origin(w)  BY <1>1, PushedHead DEF Origin
<1> QED  BY <1>2, <1>3 DEF Leads, Fits

\* Going without a push keeps the way back, if the directory is the same.
LEMMA StayLeads ==
  ASSUME NEW w \in Place, Leads(w), NEW p \in Paths, Same(p, w.at)
  PROVE  Leads([at |-> p, back |-> w.back])
<1> DEFINE v == [at |-> p, back |-> w.back]
<1>1. v \in Place /\ Len(v.back) <= JumpMax  BY DEF Place, Leads, Fits
<1>2. Same(Origin(v), Origin(w))  BY DEF Origin, Same
<1> QED  BY <1>1, <1>2 DEF Leads, Fits, Same

LEMMA TrackedLeads ==
  ASSUME NEW w \in Place, Leads(w), NEW p \in Paths
  PROVE  Leads(Tracked(w, p)) /\ Tracked(w, p) \in Place
<1>1. CASE p = w.at  BY <1>1 DEF Tracked
<1>2. CASE p # w.at
  <2>1. Leads([at |-> Resolve(p), back |-> Pushed(w.back, w.at)])
    BY ResolveSame, PushLeads
  <2> QED  BY <1>2, <2>1 DEF Tracked, Leads, Fits
<1> QED  BY <1>1, <1>2

LEMMA ChangedLeads ==
  ASSUME NEW w \in Place, Leads(w), NEW p \in Paths
  PROVE  Leads(Changed(w, p)) /\ Changed(w, p) \in Place
<1>1. Resolve(p) \in Paths  BY ResolveSame
<1>2. CASE Resolve(p) = w.at
  <2>1. Leads([at |-> Resolve(p), back |-> w.back])
    BY <1>1, <1>2, StayLeads DEF Same
  <2> QED  BY <1>2, <2>1 DEF Changed, Leads, Fits
<1>3. CASE Resolve(p) # w.at
  <2>1. Leads([at |-> Resolve(p), back |-> Pushed(w.back, w.at)])
    BY <1>1, PushLeads
  <2> QED  BY <1>3, <2>1 DEF Changed, Leads, Fits
<1> QED  BY <1>2, <1>3

----------------------------------------------------------------------------
(* The invariant: where the user is leads back to the start.               *)

Inv == TypeOK /\ WayBackToStart

LEMMA InvLeads ==
  Inv <=> /\ present \subseteq Paths /\ start \in Paths /\ entries \in Seq(Paths)
          /\ Leads(Here)
BY DEF Inv, TypeOK, WayBackToStart, Leads, Fits, Origin, Here, Place

\* An arrival at a place that leads back.
LEMMA ArriveInv ==
  ASSUME Inv, NEW w \in Place, Leads(w), Arrive(w)
  PROVE  Inv'
<1>1. entries' \in Seq(Paths)  BY ListingType DEF Arrive
<1>2. present' \subseteq Paths /\ start' \in Paths  BY DEF Arrive, Inv, TypeOK
<1>3. cwd' \in Paths /\ jumplist' \in Seq(Paths) /\ Len(jumplist') <= JumpMax
  BY DEF Arrive, Leads, Fits, Place
<1>4. Same(IF jumplist' = <<>> THEN cwd' ELSE Head(jumplist'), start')
  BY DEF Arrive, Leads, Origin
<1> QED  BY <1>1, <1>2, <1>3, <1>4 DEF Inv, TypeOK, WayBackToStart, Same

LEMMA InitInv == NavInit => Inv
<1> SUFFICES ASSUME NavInit PROVE Inv  OBVIOUS
<1>1. PICK p \in Starts : start = Resolve(p)  BY DEF NavInit
<1>2. start \in Paths  BY <1>1, ResolveSame, NavigationAssumption
<1>3. entries \in Seq(Paths)  BY ListingType DEF NavInit
<1>4. present \subseteq Paths  BY NavigationAssumption DEF NavInit
<1>5. JumpMax \in Nat  BY NavigationAssumption
<1> QED  BY <1>2, <1>3, <1>4, <1>5 DEF NavInit, Inv, TypeOK, WayBackToStart, Same

LEMMA NextInv == Inv /\ [NavNext]_navVars => Inv'
<1> SUFFICES ASSUME Inv, [NavNext]_navVars PROVE Inv'  OBVIOUS
<1>1. Leads(Here) /\ Here \in Place  BY InvLeads DEF Leads, Fits
<1>2. cwd \in Paths /\ jumplist \in Seq(Paths) /\ Len(jumplist) <= JumpMax
  BY DEF Inv, TypeOK
<1>3. ListedDirs \subseteq Paths  BY DEF ListedDirs, ToSet, Inv, TypeOK
<1>4. CASE GoUp
  <2>1. Parent[cwd] \in Paths  BY <1>2, NavigationAssumption
  <2> QED  BY <1>1, <1>4, <2>1, ChangedLeads, ArriveInv DEF GoUp
<1>5. ASSUME NEW p \in ListedDirs, GoInto(p) PROVE Inv'
  BY <1>1, <1>3, <1>5, ChangedLeads, ArriveInv DEF GoInto
<1>6. ASSUME NEW p \in Paths, GotoPath(p) PROVE Inv'
  BY <1>1, <1>6, TrackedLeads, ArriveInv DEF GotoPath
<1>7. ASSUME NEW dir \in Paths, NEW p \in Paths, GotoPrefix(dir, p) PROVE Inv'
  <2> DEFINE there == Real[dir]
             w == IF there = cwd THEN Here ELSE Tracked(Here, there)
  <2>1. there \in Paths  BY ResolveSame
  <2>2. Leads(w) /\ w \in Place  BY <1>1, <2>1, TrackedLeads
  <2>3. Leads(Changed(w, p)) /\ Changed(w, p) \in Place  BY <2>2, ChangedLeads
  <2>4. Arrive(Changed(w, p)) \/ Arrive(w)  BY <1>7 DEF GotoPrefix
  <2> QED  BY <2>2, <2>3, <2>4, ArriveInv
<1>8. ASSUME NEW p \in Paths, ShellGo(p) PROVE Inv'
  <2>1. Leads([at |-> Resolve(p), back |-> Pushed(jumplist, cwd)])
    BY <1>1, ResolveSame, PushLeads DEF Here
  <2> QED  BY <1>8, <2>1, ArriveInv DEF ShellGo, Leads, Fits
<1>9. CASE JumpBack
  <2> DEFINE w == [at |-> Resolve(Last(jumplist)), back |-> Front(jumplist)]
  <2>1. jumplist # <<>> /\ Arrive(w)  BY <1>9 DEF JumpBack
  <2>2. Last(jumplist) \in Paths /\ Front(jumplist) \in Seq(Paths)
        /\ Len(Front(jumplist)) = Len(jumplist) - 1
    BY <1>2, <2>1, FrontFacts
  <2>3. Resolve(Last(jumplist)) \in Paths /\ Same(Resolve(Last(jumplist)), Last(jumplist))
    BY <2>2, ResolveSame
  <2>4. w \in Place /\ Len(w.back) <= JumpMax
    BY <1>2, <2>2, <2>3, NavigationAssumption DEF Place
  <2>5. Same(Origin(w), Head(jumplist))
    <3>1. CASE Len(jumplist) = 1
      <4>1. Front(jumplist) = <<>> /\ Last(jumplist) = Head(jumplist)
        BY <1>2, <2>1, <3>1, FrontFacts
      <4> QED  BY <2>3, <4>1 DEF Origin
    <3>2. CASE Len(jumplist) # 1
      <4>1. Front(jumplist) # <<>> /\ Head(Front(jumplist)) = Head(jumplist)
        BY <1>2, <2>1, <3>2, FrontFacts
      <4> QED  BY <4>1 DEF Origin, Same
    <3> QED  BY <3>1, <3>2
  <2>6. Same(Head(jumplist), start)  BY <2>1 DEF Inv, WayBackToStart
  <2>7. Leads(w)  BY <2>4, <2>5, <2>6 DEF Leads, Fits, Same
  <2> QED  BY <2>1, <2>4, <2>7, ArriveInv
<1>10. CASE Reload
  <2>1. Leads([at |-> Resolve(cwd), back |-> jumplist])
    BY <1>1, <1>2, ResolveSame, StayLeads DEF Here
  <2> QED  BY <1>10, <2>1, ArriveInv DEF Reload, Leads, Fits
<1>11. ASSUME NEW disk \in Disks, DiskChange(disk) PROVE Inv'
  BY <1>11, NavigationAssumption DEF DiskChange, Inv, TypeOK, WayBackToStart, Same
<1>12. CASE UNCHANGED navVars
  BY <1>12 DEF navVars, Inv, TypeOK, WayBackToStart, Same
<1> QED  BY <1>4, <1>5, <1>6, <1>7, <1>8, <1>9, <1>10, <1>11, <1>12 DEF NavNext

\* Everything the jumplist holds is a path, and it never outgrows its array
\* of DIR_JUMPLIST_MAX places.
THEOREM NavTypeCorrect == NavSpec => []TypeOK
<1>1. Inv => TypeOK  BY DEF Inv
<1> QED  BY <1>1, InitInv, NextInv, PTL DEF NavSpec

\* `..' pressed to the end leads to where the program was started, for every
\* file system and every size of the jumplist.
THEOREM AlwaysWayBackToStart == NavSpec => []WayBackToStart
<1>1. Inv => WayBackToStart  BY DEF Inv
<1> QED  BY <1>1, InitInv, NextInv, PTL DEF NavSpec

----------------------------------------------------------------------------
(* No move is forgotten.                                                   *)

LEMMA AppendPrefix ==
  ASSUME NEW s \in Seq(Paths), NEW p \in Paths
  PROVE  IsPrefix(s, s) /\ IsPrefix(s, Append(s, p))
<1>1. IsPrefix(s, s)  BY DEF IsPrefix
<1>2. Len(s) \in Nat /\ Len(Append(s, p)) = Len(s) + 1  OBVIOUS
<1>3. SubSeq(Append(s, p), 1, Len(s)) = SubSeq(s, 1, Len(s))  OBVIOUS
<1> QED  BY <1>1, <1>2, <1>3 DEF IsPrefix

\* Getting from w to v left w on the list, or did not leave w.
Recorded(w, v) ==
  \/ v.back = w.back /\ Same(v.at, w.at)
  \/ Len(w.back) < JumpMax => IsPrefix(Append(w.back, w.at), v.back)

\* A push is a record, and so is a push with another one after it.
LEMMA PushRecords ==
  ASSUME NEW back \in Seq(Paths), NEW p \in Paths, NEW q \in Paths,
         Len(back) < JumpMax, Len(back) <= JumpMax
  PROVE  /\ Pushed(back, p) = Append(back, p)
         /\ IsPrefix(Append(back, p), Pushed(back, p))
         /\ IsPrefix(Append(back, p), Pushed(Pushed(back, p), q))
<1>1. Pushed(back, p) = Append(back, p) /\ Append(back, p) \in Seq(Paths)
  BY DEF Pushed
<1>2. \/ Pushed(Append(back, p), q) = Append(back, p)
      \/ Pushed(Append(back, p), q) = Append(Append(back, p), q)
  BY DEF Pushed
<1> QED  BY <1>1, <1>2, AppendPrefix

LEMMA TrackedRecords ==
  ASSUME NEW w \in Place, Fits(w), NEW p \in Paths
  PROVE  Recorded(w, Tracked(w, p))
<1>1. w.at \in Paths /\ w.back \in Seq(Paths) /\ Len(w.back) <= JumpMax
  BY DEF Place, Fits
<1>2. CASE p = w.at  BY <1>2 DEF Tracked, Recorded, Same
<1>3. CASE p # w.at
  <2>1. Tracked(w, p).back = Pushed(w.back, w.at)  BY <1>3 DEF Tracked
  <2> QED  BY <1>1, <2>1, PushRecords DEF Recorded
<1> QED  BY <1>2, <1>3

LEMMA ChangedRecords ==
  ASSUME NEW w \in Place, Fits(w), NEW p \in Paths
  PROVE  Recorded(w, Changed(w, p))
<1>1. w.at \in Paths /\ w.back \in Seq(Paths) /\ Len(w.back) <= JumpMax
  BY DEF Place, Fits
<1>2. CASE Resolve(p) = w.at  BY <1>2 DEF Changed, Recorded, Same
<1>3. CASE Resolve(p) # w.at
  <2>1. Changed(w, p).back = Pushed(w.back, w.at)  BY <1>3 DEF Changed
  <2> QED  BY <1>1, <2>1, PushRecords DEF Recorded
<1> QED  BY <1>2, <1>3

\* The two moves of goto with the beginning of a name.
LEMMA BothRecord ==
  ASSUME NEW w \in Place, Fits(w), NEW p \in Paths, NEW q \in Paths, p # w.at
  PROVE  Recorded(w, Changed(Tracked(w, p), q))
<1>1. w.at \in Paths /\ w.back \in Seq(Paths) /\ Len(w.back) <= JumpMax
  BY DEF Place, Fits
<1> DEFINE v == Tracked(w, p)
<1>2. v.back = Pushed(w.back, w.at) /\ v.at \in Paths
  BY ResolveSame DEF Tracked
<1>3. \/ Changed(v, q).back = v.back
      \/ Changed(v, q).back = Pushed(v.back, v.at)
  BY DEF Changed
<1> QED  BY <1>1, <1>2, <1>3, PushRecords DEF Recorded

LEMMA ArriveRecords ==
  ASSUME Inv, NEW w, Arrive(w), Recorded(Here, w)
  PROVE  ~Same(cwd, cwd') /\ Len(jumplist') >= Len(jumplist) /\ Len(jumplist) < JumpMax
           => IsPrefix(Append(jumplist, cwd), jumplist')
BY DEF Arrive, Recorded, Here, Same

\* A move of any kind but `..' puts the directory left on the list, for
\* every list with room.
THEOREM MoveAlwaysRecorded == NavSpec => MoveRecorded
<1> DEFINE Kept == ~Same(cwd, cwd') /\ Len(jumplist') >= Len(jumplist)
                     /\ Len(jumplist) < JumpMax
                     => IsPrefix(Append(jumplist, cwd), jumplist')
<1>1. ASSUME Inv, [NavNext]_navVars PROVE [Kept]_navVars
  <2> USE <1>1
  <2>1. Fits(Here) /\ Here \in Place  BY InvLeads DEF Leads, Fits
  <2>2. cwd \in Paths /\ jumplist \in Seq(Paths) /\ Len(jumplist) <= JumpMax
    BY DEF Inv, TypeOK
  <2>3. ListedDirs \subseteq Paths  BY DEF ListedDirs, ToSet, Inv, TypeOK
  <2>4. CASE GoUp
    <3>1. Parent[cwd] \in Paths  BY <2>2, NavigationAssumption
    <3> QED  BY <2>1, <2>4, <3>1, ChangedRecords, ArriveRecords DEF GoUp
  <2>5. ASSUME NEW p \in ListedDirs, GoInto(p) PROVE Kept
    BY <2>1, <2>3, <2>5, ChangedRecords, ArriveRecords DEF GoInto
  <2>6. ASSUME NEW p \in Paths, GotoPath(p) PROVE Kept
    BY <2>1, <2>6, TrackedRecords, ArriveRecords DEF GotoPath
  <2>7. ASSUME NEW dir \in Paths, NEW p \in Paths, GotoPrefix(dir, p) PROVE Kept
    <3> DEFINE there == Real[dir]
    <3>1. there \in Paths  BY ResolveSame
    <3>2. CASE there = cwd
      <4>1. Arrive(Changed(Here, p))  BY <2>7, <3>2 DEF GotoPrefix
      <4> QED  BY <2>1, <4>1, ChangedRecords, ArriveRecords
    <3>3. CASE there # cwd
      <4>1. Arrive(Changed(Tracked(Here, there), p)) \/ Arrive(Tracked(Here, there))
        BY <2>7, <3>3 DEF GotoPrefix
      <4>2. Recorded(Here, Changed(Tracked(Here, there), p))
        BY <2>1, <3>1, <3>3, BothRecord DEF Here
      <4> QED  BY <2>1, <3>1, <4>1, <4>2, TrackedRecords, ArriveRecords
    <3> QED  BY <3>2, <3>3
  <2>8. ASSUME NEW p \in Paths, ShellGo(p) PROVE Kept
    <3>1. Len(jumplist) < JumpMax => IsPrefix(Append(jumplist, cwd), Pushed(jumplist, cwd))
      BY <2>2, PushRecords
    <3>2. Recorded(Here, [at |-> Resolve(p), back |-> Pushed(jumplist, cwd)])
      BY <3>1 DEF Recorded, Here
    <3> QED  BY <2>8, <3>2, ArriveRecords DEF ShellGo
  <2>9. CASE JumpBack
    <3>1. Len(jumplist') = Len(jumplist) - 1 /\ Len(jumplist) \in Nat
      BY <2>2, <2>9, FrontFacts DEF JumpBack, Arrive
    <3> QED  BY <3>1
  <2>10. CASE Reload
    <3>1. Recorded(Here, [at |-> Resolve(cwd), back |-> jumplist])
      BY <2>2, ResolveSame DEF Recorded, Here
    <3> QED  BY <2>10, <3>1, ArriveRecords DEF Reload
  <2>11. ASSUME NEW disk \in Disks, DiskChange(disk) PROVE Kept
    BY <2>11 DEF DiskChange, Same
  <2> QED  BY <2>4, <2>5, <2>6, <2>7, <2>8, <2>9, <2>10, <2>11 DEF NavNext
<1> QED  BY <1>1, InitInv, NextInv, PTL DEF NavSpec, MoveRecorded

============================================================================
