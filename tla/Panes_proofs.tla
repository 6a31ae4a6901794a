---------------------------- MODULE Panes_proofs ----------------------------
(***************************************************************************)
(* For every file system, every size of the terminal and of its cells: the *)
(* panes move through directories as Navigation says, the column of the    *)
(* cursor is drawn, and the preview is of the entry under the cursor, if   *)
(* it is on one, and never scrolled past its end.                          *)
(***************************************************************************)
EXTENDS Panes, Navigation_proofs, FiniteSetTheorems

----------------------------------------------------------------------------
(* Numbers.                                                                *)

LEMMA MaxTwo ==
  ASSUME NEW a \in Int, NEW b \in Int
  PROVE  Max({a, b}) \in {a, b} /\ Max({a, b}) >= a /\ Max({a, b}) >= b
<1>1. \E x \in {a, b} : \A y \in {a, b} : x >= y
  <2>1. CASE a >= b  BY <2>1
  <2>2. CASE b >= a  BY <2>2
  <2> QED  BY <2>1, <2>2
<1> QED  BY <1>1 DEF Max

LEMMA MinTwo ==
  ASSUME NEW a \in Int, NEW b \in Int
  PROVE  Min({a, b}) \in {a, b} /\ Min({a, b}) <= a /\ Min({a, b}) <= b
<1>1. \E x \in {a, b} : \A y \in {a, b} : x <= y
  <2>1. CASE a <= b  BY <2>1
  <2>2. CASE b <= a  BY <2>2
  <2> QED  BY <2>1, <2>2
<1> QED  BY <1>1 DEF Min

LEMMA Quotient ==
  ASSUME NEW a \in Int, NEW b \in Nat \ {0}
  PROVE  a \div b \in Int /\ (a >= 0 => a \div b >= 0)
OBVIOUS

LEMMA Division ==
  ASSUME NEW i \in Nat, NEW r \in Nat \ {0}
  PROVE  /\ i \div r \in Nat
         /\ (i \div r) * r <= i /\ i < (i \div r + 1) * r
OBVIOUS

LEMMA Product ==
  ASSUME NEW a \in Int, NEW b \in Int, NEW r \in Nat \ {0}, a <= b
  PROVE  a * r <= b * r /\ a * r \in Int /\ b * r \in Int
OBVIOUS

\* An entry is in a column from off on if it is from off * rows on.
LEMMA ColumnOfPlace ==
  ASSUME NEW i \in Nat, NEW r \in Nat \ {0}, NEW off \in Int
  PROVE  /\ i \div r >= off <=> i >= off * r
         /\ i \div r < off <=> i < off * r
<1> DEFINE q == i \div r
<1>1. q \in Nat /\ q * r <= i /\ i < (q + 1) * r  BY Division
<1> HIDE DEF q
<1>2. off * r \in Int /\ q * r \in Int /\ (q + 1) * r \in Int  BY <1>1
<1>3. CASE q >= off
  <2>1. off * r <= q * r  BY <1>1, <1>3, Product
  <2> QED  BY <1>1, <1>2, <1>3, <2>1 DEF q
<1>4. CASE q < off
  <2>1. q + 1 \in Int /\ q + 1 <= off  BY <1>1, <1>4
  <2>2. (q + 1) * r <= off * r  BY <1>1, <2>1, Product
  <2> QED  BY <1>1, <1>2, <1>4, <2>2 DEF q
<1> QED  BY <1>1, <1>3, <1>4

LEMMA Layout ==
  ASSUME max_x \in Nat, max_y \in Nat, ~TooSmall
  PROVE  rows \in Nat \ {0} /\ n_cols \in Nat \ {0} /\ HalfPage \in Nat
<1>1. max_y \in Nat /\ max_y > 6  BY PanesAssumption DEF TooSmall
<1>2. files_height \in Nat /\ files_height >= 3  BY <1>1 DEF files_height
<1>3. rows \in Nat \ {0}  BY <1>2 DEF rows
<1>4. HalfPage \in Nat  BY <1>2 DEF HalfPage
<1>5. list_w \in Int
  <2>1. max_x - max_x \div 2 - 1 \in Int  OBVIOUS
  <2> QED  BY <2>1 DEF list_w
<1>6. list_w \div CellWidth \in Int  BY <1>5, Quotient, PanesAssumption
<1>7. n_cols \in Int /\ n_cols >= 1  BY <1>6, MaxTwo DEF n_cols
<1> QED  BY <1>3, <1>4, <1>7

----------------------------------------------------------------------------
(* Every step of the panes is a step of Navigation, or none.               *)

LEMMA NavStep == [Next]_vars => [NavNext]_navVars
<1> SUFFICES ASSUME [Next]_vars PROVE [NavNext]_navVars  OBVIOUS
<1>1. CASE Frame  BY <1>1 DEF Frame
<1>2. CASE SelectNext \/ SelectPrev \/ PageDown \/ PageUp
  BY <1>2 DEF SelectNext, SelectPrev, PageDown, PageUp, InPlace
<1>3. ASSUME NEW i \in Indices, JumpTo(i) PROVE UNCHANGED navVars
  BY <1>3 DEF JumpTo, InPlace
<1>4. CASE TogglePreview  BY <1>4 DEF TogglePreview
<1>5. CASE ScrollDown \/ ScrollUp \/ ScrollPageDown \/ ScrollPageUp
  BY <1>5 DEF ScrollDown, ScrollUp, ScrollPageDown, ScrollPageUp, ScrollTo
<1>6. CASE KeyMove  BY <1>6 DEF KeyMove, KeyUp, NavNext
<1>7. CASE KeyRefresh  BY <1>7 DEF KeyRefresh, NavNext
<1>8. ASSUME NEW disk \in Disks, FilesChange(disk) PROVE NavNext
  BY <1>8 DEF FilesChange, NavNext
<1>9. ASSUME NEW size \in Sizes, Resize(size) PROVE UNCHANGED navVars
  BY <1>9 DEF Resize
<1>10. CASE UNCHANGED vars  BY <1>10 DEF vars
<1> QED  BY <1>1, <1>2, <1>3, <1>4, <1>5, <1>6, <1>7, <1>8, <1>9, <1>10 DEF Next

\* With the cursor, the panes and the preview added, the keys still move as
\* Navigation says: what is proved of it holds of the panes.
THEOREM PanesNavigate == Spec => NavSpec
<1>1. Init => NavInit  BY DEF Init
<1> QED  BY <1>1, NavStep, PTL DEF Spec, NavSpec

\* So in the panes too `..' leads back to the start.
THEOREM PanesWayBack == Spec => []WayBackToStart
BY PanesNavigate, AlwaysWayBackToStart, PTL

----------------------------------------------------------------------------
(* The cursor is on no place past the listing, and everything else is a    *)
(* number.                                                                 *)

CursorTyped ==
  /\ max_x \in Nat /\ max_y \in Nat
  /\ selected \in Int /\ (entries # <<>> => selected < Len(entries))
  /\ col_offset \in Int /\ preview_saved_col_offset \in Int
  /\ preview_scroll \in Nat
  /\ bat.nlines \in Nat

LEMMA ColumnType ==
  ASSUME max_x \in Nat, max_y \in Nat, ~TooSmall, NEW i \in Int
  PROVE  /\ Column(i) \in Nat
         /\ i >= 0 => Column(i) = i \div rows
<1>1. rows \in Nat \ {0}  BY Layout
<1>2. CASE i >= 0
  <2>1. i \div rows \in Nat  BY <1>1, <1>2, Division
  <2> QED  BY <1>2, <2>1 DEF Column
<1>3. CASE i < 0  BY <1>3 DEF Column
<1> QED  BY <1>2, <1>3

\* Whatever key it is, an event only leaves the frame behind.
LEMMA EventsForget ==
  [Next]_vars => Frame \/ phase' \in {"event", "stale"} \/ UNCHANGED vars
BY DEF Next, SelectNext, SelectPrev, PageDown, PageUp, JumpTo, TogglePreview,
       ScrollDown, ScrollUp, ScrollPageDown, ScrollPageUp, ScrollTo, KeyMove, KeyUp,
       Loaded, KeyRefresh, Key, FilesChange, Resize

LEMMA ClampedType ==
  ASSUME CursorTyped, ~TooSmall, NEW off \in Int
  PROVE  /\ Clamped(off) \in Int
         /\ Column(selected) \in Int
         /\ Column(selected) \in Clamped(off)..(Clamped(off) + n_cols - 1)
<1>1. rows \in Nat \ {0} /\ n_cols \in Nat \ {0}  BY Layout DEF CursorTyped
<1>2. Column(selected) \in Int  BY ColumnType DEF CursorTyped
<1> DEFINE c == Column(selected)
<1> HIDE DEF c
<1>3. c \in Int  BY <1>2 DEF c
<1>4. c - n_cols + 1 \in Int  BY <1>1, <1>3
<1>5. Clamped(off) = IF c < off THEN c ELSE Max({off, c - n_cols + 1})
  BY DEF Clamped, c
<1>6. CASE c < off
  <2>1. Clamped(off) = c  BY <1>5, <1>6
  <2> QED  BY <1>1, <1>3, <2>1 DEF c
<1>7. CASE ~(c < off)
  <2> DEFINE m == Max({off, c - n_cols + 1})
  <2>1. Clamped(off) = m  BY <1>5, <1>7
  <2>2. m \in {off, c - n_cols + 1} /\ m >= c - n_cols + 1  BY <1>4, MaxTwo
  <2> HIDE DEF m
  <2>3. m \in Int /\ c \in m..(m + n_cols - 1)  BY <1>1, <1>3, <1>4, <1>7, <2>2
  <2> QED  BY <1>3, <2>1, <2>3 DEF c
<1> QED  BY <1>6, <1>7

\* What the cache holds is what bat found in some file.
LEMMA CachedType ==
  ASSUME NEW p \in Paths, bat.nlines \in Nat
  PROVE  Cached(p).nlines \in Nat /\ (Cached(p).valid => Cached(p).of = p)
<1>1. LinesNow(p) \in Nat
  BY PanesAssumption, NavigationAssumption DEF LinesNow
<1> QED  BY <1>1 DEF Cached

\* A scroll that is clamped leaves no row empty that could be used.
LEMMA ScrolledType ==
  ASSUME NEW p, NEW total \in Nat, NEW scroll \in Nat, rows \in Nat \ {0}
  PROVE  LET s == Scrolled(p, total, scroll)
         IN  /\ s.scroll \in Nat
             /\ s.shown.of = p
             /\ s.shown.first = 0 \/ s.shown.first + rows <= s.shown.total
<1> DEFINE m == Max({0, total - rows})
           first == Min({scroll, m})
<1>1. total - rows \in Int  OBVIOUS
<1>2. m \in {0, total - rows} /\ m >= 0  BY <1>1, MaxTwo
<1>3. m \in Int  BY <1>1, <1>2
<1>7. scroll \in Int  OBVIOUS
<1> HIDE DEF m
<1>4. first \in {scroll, m} /\ first <= scroll /\ first <= m  BY <1>3, <1>7, MinTwo
<1> USE DEF m
<1>5. Scrolled(p, total, scroll)
        = [shown |-> [of |-> p, first |-> first, total |-> total, scrolls |-> TRUE],
           scroll |-> first]
  BY DEF Scrolled, ClampedScroll
<1> HIDE DEF m, first
<1>6. first \in Nat /\ (first = 0 \/ first + rows <= total)
  BY <1>1, <1>2, <1>3, <1>4
<1> QED  BY <1>5, <1>6

----------------------------------------------------------------------------
(* A frame.                                                                *)

\* The preview of the entry under the cursor: of that entry, and full.
LEMMA PreviewEntryFacts ==
  ASSUME CursorTyped, TypeOK, ~TooSmall, ~Adrift, NEW scroll \in Nat, PreviewEntry(scroll)
  PROVE  /\ preview_scroll' \in Nat /\ bat'.nlines \in Nat
         /\ entries # <<>> => preview'.of = PathAt(selected)
         /\ preview'.scrolls
              => preview'.first = 0 \/ preview'.first + rows <= preview'.total
<1> DEFINE p == PathAt(selected)
           b == IF entries = <<>> \/ IsDirectory(p) \/ p \in Media \/ ~bat_available
                THEN bat ELSE Cached(p)
<1>1. scroll \in Nat  OBVIOUS
<1>2. rows \in Nat \ {0}  BY Layout DEF CursorTyped
<1>3. bat' = b /\ preview_scroll' \in {PreviewDir(p, scroll).scroll, PreviewFile(p, scroll, b).scroll, scroll}
  BY DEF PreviewEntry
<1>4. CASE entries = <<>>
  <2>1. preview' = NoText /\ preview_scroll' = scroll /\ bat' = bat
    BY <1>4 DEF PreviewEntry
  <2> QED  BY <1>1, <1>4, <2>1 DEF NoText, CursorTyped
<1>5. CASE entries # <<>> /\ IsDirectory(p)
  <2>1. preview' = PreviewDir(p, scroll).shown /\ preview_scroll' = PreviewDir(p, scroll).scroll
        /\ bat' = bat
    BY <1>5 DEF PreviewEntry
  <2>2. CASE Exists(p)
    <3>1. Cardinality(Children(Real[p])) \in Nat
      <4>1. Children(Real[p]) \subseteq Paths  BY DEF Children
      <4> QED  BY <4>1, PanesAssumption, FS_Subset, FS_CardinalityType
    <3>2. PreviewDir(p, scroll) = Scrolled(p, Cardinality(Children(Real[p])), scroll)
      BY <2>2 DEF PreviewDir
    <3> HIDE DEF p
    <3> QED  BY <1>1, <1>2, <2>1, <3>1, <3>2, ScrolledType DEF CursorTyped, p
  <2>3. CASE ~Exists(p)
    <3>1. PreviewDir(p, scroll) = Unscrolled(p, scroll)  BY <2>3 DEF PreviewDir
    <3> QED  BY <1>1, <2>1, <3>1 DEF Unscrolled, CursorTyped
  <2> QED  BY <2>2, <2>3
<1>6. CASE entries # <<>> /\ ~IsDirectory(p)
  <2>1. preview' = PreviewFile(p, scroll, b).shown
        /\ preview_scroll' = PreviewFile(p, scroll, b).scroll
    BY <1>6 DEF PreviewEntry
  <2>2. p \in Paths  BY <1>6 DEF PathAt, Adrift, CursorTyped, TypeOK
  <2>3. b.nlines \in Nat  BY <2>2, CachedType DEF CursorTyped
  <2>4. CASE p \notin Media /\ bat_available /\ b.valid
    <3>1. b = Cached(p)  BY <1>6, <2>4
    <3>2. b.of = p  BY <2>2, <2>4, <3>1, CachedType DEF CursorTyped
    <3>3. PreviewFile(p, scroll, b) = Scrolled(p, b.nlines, scroll)
      BY <2>4, <3>2 DEF PreviewFile
    <3> HIDE DEF p, b
    <3> QED  BY <1>1, <1>2, <1>3, <2>1, <2>3, <3>3, ScrolledType DEF p
  <2>5. CASE ~(p \notin Media /\ bat_available /\ b.valid)
    <3>1. PreviewFile(p, scroll, b) = Unscrolled(p, scroll)  BY <2>5 DEF PreviewFile
    <3> HIDE DEF b
    <3> QED  BY <1>1, <1>3, <2>1, <2>3, <3>1 DEF Unscrolled
  <2> QED  BY <2>4, <2>5
<1> QED  BY <1>4, <1>5, <1>6

\* The preview of no entry: of any path, and full.
LEMMA PreviewStrayFacts ==
  ASSUME CursorTyped, ~TooSmall, NEW scroll \in Nat, PreviewStray(scroll)
  PROVE  /\ preview_scroll' \in Nat /\ bat'.nlines \in Nat
         /\ preview'.scrolls
              => preview'.first = 0 \/ preview'.first + rows <= preview'.total
<1> DEFINE b(p) == IF bat_available THEN Cached(p) ELSE bat
           drawn(p) == IF bat_available /\ b(p).valid THEN Scrolled(p, b(p).nlines, scroll)
                       ELSE Unscrolled(p, scroll)
<1>1. PICK p \in Paths : /\ bat' = b(p)
                         /\ preview_scroll' = drawn(p).scroll
                         /\ preview' = drawn(p).shown
  BY DEF PreviewStray
<1>2. rows \in Nat \ {0}  BY Layout DEF CursorTyped
<1>3. b(p).nlines \in Nat  BY CachedType DEF CursorTyped
<1>4. CASE bat_available /\ b(p).valid
  <2>1. drawn(p) = Scrolled(p, b(p).nlines, scroll)  BY <1>4
  <2> HIDE DEF b, drawn
  <2> QED  BY <1>1, <1>2, <1>3, <2>1, ScrolledType
<1>5. CASE ~(bat_available /\ b(p).valid)
  <2>1. drawn(p) = Unscrolled(p, scroll)  BY <1>5
  <2> HIDE DEF b, drawn
  <2> QED  BY <1>1, <1>3, <2>1 DEF Unscrolled
<1> QED  BY <1>4, <1>5

LEMMA PreviewRenderFacts ==
  ASSUME CursorTyped, TypeOK, ~TooSmall, PreviewRender
  PROVE  /\ preview_scroll' \in Nat /\ bat'.nlines \in Nat
         /\ entries # <<>> /\ ~Adrift => preview'.of = PathAt(selected)
         /\ preview'.scrolls
              => preview'.first = 0 \/ preview'.first + rows <= preview'.total
<1> DEFINE scroll == IF selected # preview_last_selected THEN 0 ELSE preview_scroll
<1>1. scroll \in Nat  BY DEF CursorTyped
<1>2. IF Adrift THEN PreviewStray(scroll) ELSE PreviewEntry(scroll)  BY DEF PreviewRender
<1> HIDE DEF scroll
<1> QED  BY <1>1, <1>2, PreviewEntryFacts, PreviewStrayFacts

\* Drawing leaves the cursor where it is, and every number a number.
LEMMA FrameTyped == CursorTyped /\ TypeOK /\ Frame => CursorTyped'
<1> SUFFICES ASSUME CursorTyped, TypeOK, Frame PROVE CursorTyped'  OBVIOUS
<1>1. UNCHANGED <<max_x, max_y, selected, entries, preview_saved_col_offset, preview_mode>>
  BY DEF Frame, navVars, window, cursor, scrolling
<1>2. CASE TooSmall
  <2>1. UNCHANGED <<col_offset, preview_scroll, bat>>
    BY <1>2 DEF Frame, cursor, scrolling
  <2> QED  BY <1>1, <2>1 DEF CursorTyped
<1>3. CASE ~TooSmall
  <2>1. Render  BY <1>3 DEF Frame
  <2>2. col_offset' \in Int
    <3>1. col_offset' = col_offset \/ col_offset' = Clamped(col_offset)
      BY <2>1 DEF Render
    <3>2. col_offset \in Int  BY DEF CursorTyped
    <3>3. Clamped(col_offset) \in Int  BY <1>3, <3>2, ClampedType
    <3> QED  BY <3>1, <3>2, <3>3
  <2>3. preview_scroll' \in Nat /\ bat'.nlines \in Nat
    <3>1. CASE preview_mode
      <4>1. PreviewRender  BY <2>1, <3>1 DEF Render
      <4> QED  BY <1>3, <4>1, PreviewRenderFacts
    <3>2. CASE ~preview_mode
      <4>1. UNCHANGED <<bat, preview_scroll>>  BY <2>1, <3>2 DEF Render
      <4> QED  BY <4>1 DEF CursorTyped
    <3> QED  BY <3>1, <3>2
  <2> QED  BY <1>1, <2>2, <2>3 DEF CursorTyped
<1> QED  BY <1>2, <1>3

\* A key that stays in the listing moves the cursor to one of its entries.
LEMMA CursorKeysTyped ==
  ASSUME CursorTyped, TypeOK,
         SelectNext \/ SelectPrev \/ PageDown \/ PageUp \/ \E i \in Indices : JumpTo(i)
  PROVE  CursorTyped'
<1>1. Key /\ InPlace
  BY DEF SelectNext, SelectPrev, PageDown, PageUp, JumpTo
<1>2. UNCHANGED <<entries, max_x, max_y, col_offset, preview_saved_col_offset,
                  preview_mode, preview_scroll, bat>>
  BY <1>1 DEF Key, InPlace, navVars, window, scrolling, cache
<1>3. rows \in Nat \ {0} /\ HalfPage \in Nat
  BY <1>1, Layout DEF Key, CursorTyped
<1>4. Len(entries) \in Nat /\ (entries # <<>> => Len(entries) > 0)
  BY DEF TypeOK
<1>5. selected' \in Int /\ (entries # <<>> => selected' < Len(entries))
  <2>1. selected \in Int /\ (entries # <<>> => selected < Len(entries))
    BY DEF CursorTyped
  <2>2. CASE SelectNext
    <3>1. selected' = IF selected < Len(entries) - 1 THEN selected + 1 ELSE selected
      BY <2>2 DEF SelectNext, entry_count
    <3> QED  BY <1>4, <2>1, <3>1
  <2>3. CASE SelectPrev
    <3>1. selected' = IF selected > 0 THEN selected - 1 ELSE selected
      BY <2>3 DEF SelectPrev
    <3> QED  BY <1>4, <2>1, <3>1
  <2>4. CASE PageDown
    <3>1. selected' = Min({selected + HalfPage, Len(entries) - 1})
      BY <2>4 DEF PageDown, entry_count
    <3>2. selected + HalfPage \in Int /\ Len(entries) - 1 \in Int
      BY <1>3, <1>4, <2>1
    <3>3. /\ selected' \in {selected + HalfPage, Len(entries) - 1}
          /\ selected' <= Len(entries) - 1
      BY <3>1, <3>2, MinTwo
    <3> QED  BY <1>3, <1>4, <2>1, <3>1, <3>2, <3>3
  <2>5. CASE PageUp
    <3>1. selected' = Max({selected - HalfPage, 0})  BY <2>5 DEF PageUp
    <3>2. selected - HalfPage \in Int /\ 0 \in Int  BY <1>3, <2>1
    <3>3. selected' \in {selected - HalfPage, 0} /\ selected' >= 0
      BY <3>1, <3>2, MaxTwo
    <3> QED  BY <1>3, <1>4, <2>1, <3>2, <3>3
  <2>6. CASE \E i \in Indices : JumpTo(i)
    <3>1. selected' \in Indices  BY <2>6 DEF JumpTo
    <3>2. selected' \in 0..(Len(entries) - 1)  BY <3>1 DEF Indices, entry_count
    <3> QED  BY <1>4, <3>2
  <2> QED  BY <2>2, <2>3, <2>4, <2>5, <2>6
<1> QED  BY <1>2, <1>5 DEF CursorTyped

\* Another listing, and the cursor on one of its entries.
LEMMA ListingKeysTyped ==
  ASSUME CursorTyped, TypeOK, TypeOK', KeyMove \/ KeyRefresh
  PROVE  CursorTyped'
<1>1. Key /\ UNCHANGED scrolling
  BY DEF KeyMove, KeyUp, Loaded, KeyRefresh
<1>2. UNCHANGED <<max_x, max_y, preview_saved_col_offset, preview_mode, preview_scroll, bat>>
  BY <1>1 DEF Key, window, scrolling, cache
<1>3. Len(entries') \in Nat /\ (entries' # <<>> => Len(entries') > 0)
  BY DEF TypeOK
<1>4. col_offset' \in Int
  BY DEF KeyMove, KeyUp, Loaded, KeyRefresh, CursorTyped
<1>5. selected' \in Int /\ (entries' # <<>> => selected' < Len(entries'))
  <2>1. CASE KeyUp
    <3> DEFINE at == {i \in DOMAIN entries' : cwd # Root /\ entries'[i] = cwd}
    <3>1. selected' \in IF at = {} THEN {0} ELSE {i - 1 : i \in at}
      BY <2>1 DEF KeyUp
    <3>2. at \subseteq 1..Len(entries')  BY DEF TypeOK
    <3> HIDE DEF at
    <3>3. CASE at = {}  BY <1>3, <3>1, <3>3
    <3>4. CASE at # {}
      <4>1. PICK i \in at : selected' = i - 1  BY <3>1, <3>4
      <4> QED  BY <1>3, <3>2, <4>1
    <3> QED  BY <3>3, <3>4
  <2>2. CASE Loaded
    BY <1>3, <2>2 DEF Loaded
  <2>3. CASE KeyRefresh
    <3>1. selected' = IF selected < Len(entries') THEN selected ELSE 0
      BY <2>3 DEF KeyRefresh
    <3> QED  BY <1>3, <3>1 DEF CursorTyped
  <2> QED  BY <2>1, <2>2, <2>3 DEF KeyMove
<1> QED  BY <1>2, <1>4, <1>5 DEF CursorTyped

LEMMA InitTyped == Init => CursorTyped
<1> SUFFICES ASSUME Init PROVE CursorTyped  OBVIOUS
<1>1. max_x \in Nat /\ max_y \in Nat
  <2>1. PICK size \in Sizes : max_x = size[1] /\ max_y = size[2]  BY DEF Init
  <2> QED  BY <2>1, PanesAssumption
<1>2. entries # <<>> => 0 < Len(entries)
  <2>1. entries \in Seq(Paths)
    BY InitInv DEF Init, Inv, TypeOK
  <2> QED  BY <2>1
<1>3. /\ selected = 0 /\ col_offset = 0 /\ preview_saved_col_offset = 0
      /\ preview_scroll = 0 /\ bat.nlines = 0
  BY DEF Init
<1> QED  BY <1>1, <1>2, <1>3 DEF CursorTyped

LEMMA NextTyped == CursorTyped /\ TypeOK /\ TypeOK' /\ [Next]_vars => CursorTyped'
<1> SUFFICES ASSUME CursorTyped, TypeOK, TypeOK', [Next]_vars PROVE CursorTyped'
  OBVIOUS
<1>1. CASE Frame  BY <1>1, FrameTyped
<1>2. CASE SelectNext \/ SelectPrev \/ PageDown \/ PageUp \/ \E i \in Indices : JumpTo(i)
  BY <1>2, CursorKeysTyped
<1>3. CASE TogglePreview
  <2>1. UNCHANGED <<max_x, max_y, selected, entries, preview_scroll, bat>>
    BY <1>3 DEF TogglePreview, Key, navVars, window, cache
  <2>2. /\ preview_mode' = ~preview_mode
        /\ col_offset' \in {col_offset, preview_saved_col_offset}
        /\ preview_saved_col_offset' \in {col_offset, preview_saved_col_offset}
    BY <1>3 DEF TogglePreview
  <2> QED  BY <2>1, <2>2 DEF CursorTyped
<1>4. CASE ScrollDown \/ ScrollUp \/ ScrollPageDown \/ ScrollPageUp
  <2>1. PICK n : ScrollTo(n) /\ n \in {preview_scroll + 1, Max({preview_scroll - 1, 0}),
                                  preview_scroll + HalfPage, Max({preview_scroll - HalfPage, 0})}
    BY <1>4 DEF ScrollDown, ScrollUp, ScrollPageDown, ScrollPageUp
  <2>2. UNCHANGED <<max_x, max_y, selected, entries, col_offset, preview_saved_col_offset,
                    preview_mode, bat>> /\ preview_scroll' = n
    BY <2>1 DEF ScrollTo, Key, navVars, window, cursor, cache
  <2>3. HalfPage \in Nat  BY <2>1, Layout DEF ScrollTo, Key, CursorTyped
  <2>4. preview_scroll \in Nat  BY DEF CursorTyped
  <2>5. preview_scroll - 1 \in Int /\ preview_scroll - HalfPage \in Int /\ 0 \in Int
    BY <2>3, <2>4
  <2>6. Max({preview_scroll - 1, 0}) \in Nat
    <3>1. /\ Max({preview_scroll - 1, 0}) \in {preview_scroll - 1, 0}
          /\ Max({preview_scroll - 1, 0}) >= 0
      BY <2>5, MaxTwo
    <3> QED  BY <2>5, <3>1
  <2>7. Max({preview_scroll - HalfPage, 0}) \in Nat
    <3>1. /\ Max({preview_scroll - HalfPage, 0}) \in {preview_scroll - HalfPage, 0}
          /\ Max({preview_scroll - HalfPage, 0}) >= 0
      BY <2>5, MaxTwo
    <3> QED  BY <2>5, <3>1
  <2>8. preview_scroll' \in Nat  BY <2>1, <2>2, <2>3, <2>4, <2>6, <2>7
  <2> QED  BY <2>2, <2>8 DEF CursorTyped
<1>5. CASE KeyMove \/ KeyRefresh  BY <1>5, ListingKeysTyped
<1>6. ASSUME NEW disk \in Disks, FilesChange(disk) PROVE CursorTyped'
  BY <1>6 DEF FilesChange, DiskChange, window, cursor, scrolling, cache, CursorTyped
<1>7. ASSUME NEW size \in Sizes, Resize(size) PROVE CursorTyped'
  BY <1>7, PanesAssumption DEF Resize, navVars, cursor, scrolling, cache, CursorTyped
<1>8. CASE UNCHANGED vars
  BY <1>8 DEF vars, navVars, window, cursor, scrolling, cache, CursorTyped
<1> QED  BY <1>1, <1>2, <1>3, <1>4, <1>5, <1>6, <1>7, <1>8 DEF Next

LEMMA AlwaysTyped == Spec => [](TypeOK /\ CursorTyped)
<1>1. Spec => []TypeOK  BY PanesNavigate, NavTypeCorrect, PTL
<1> QED  BY <1>1, InitTyped, NextTyped, PTL DEF Spec

----------------------------------------------------------------------------
(* What is shown.                                                          *)

Shown == CursorColumnDrawn /\ PreviewIsOfCursor /\ PreviewFillsPane

LEMMA FrameShows == CursorTyped /\ TypeOK /\ Frame => Shown'
<1> SUFFICES ASSUME CursorTyped, TypeOK, Frame PROVE Shown'  OBVIOUS
<1>1. UNCHANGED <<max_x, max_y, selected, entries, preview_mode>>
  BY DEF Frame, navVars, window, cursor, scrolling
<1>2. UNCHANGED <<TooSmall, rows, n_cols, entry_count>>
  BY <1>1 DEF TooSmall, rows, files_height, n_cols, list_w, entry_count
<1>3. CASE TooSmall
  BY <1>2, <1>3 DEF Shown, OnScreen, CursorColumnDrawn, PreviewIsOfCursor, PreviewFillsPane
<1>4. CASE ~TooSmall
  <2>1. Render  BY <1>4 DEF Frame
  <2>2. CursorColumnDrawn'
    <3> SUFFICES ASSUME entries # <<>>
                 PROVE  Column(selected)' \in col_offset'..(col_offset' + n_cols' - 1)
      BY <1>1 DEF CursorColumnDrawn
    <3>1. col_offset' = Clamped(col_offset)  BY <2>1 DEF Render
    <3>2. col_offset \in Int  BY DEF CursorTyped
    <3>3. Column(selected) \in col_offset'..(col_offset' + n_cols - 1)
      BY <1>4, <3>1, <3>2, ClampedType
    <3> QED  BY <1>1, <1>2, <3>3 DEF Column
  <2>3. CASE preview_mode
    <3>1. PreviewRender  BY <2>1, <2>3 DEF Render
    <3>2. /\ entries # <<>> /\ ~Adrift => preview'.of = PathAt(selected)
          /\ preview'.scrolls
               => preview'.first = 0 \/ preview'.first + rows <= preview'.total
      BY <1>4, <3>1, PreviewRenderFacts
    <3>5. selected \in Indices => entries # <<>> /\ ~Adrift
      BY DEF Indices, entry_count, Adrift, CursorTyped
    <3>3. PreviewIsOfCursor'
      BY <1>1, <1>2, <3>2, <3>5 DEF PreviewIsOfCursor, PathAt, Indices
    <3>4. PreviewFillsPane'  BY <1>2, <3>2 DEF PreviewFillsPane
    <3> QED  BY <2>2, <3>3, <3>4 DEF Shown
  <2>4. CASE ~preview_mode
    <3>1. preview' = NoText  BY <2>1, <2>4 DEF Render
    <3>2. PreviewIsOfCursor'  BY <1>1, <2>4 DEF PreviewIsOfCursor
    <3>3. PreviewFillsPane'  BY <3>1 DEF PreviewFillsPane, NoText
    <3> QED  BY <2>2, <3>2, <3>3 DEF Shown
  <2> QED  BY <2>3, <2>4
<1> QED  BY <1>3, <1>4

LEMMA NextShows == Shown /\ CursorTyped /\ TypeOK /\ [Next]_vars => Shown'
<1> SUFFICES ASSUME Shown, CursorTyped, TypeOK, [Next]_vars PROVE Shown'  OBVIOUS
<1>1. CASE Frame  BY <1>1, FrameShows
<1>2. CASE phase' \in {"event", "stale"}
  BY <1>2 DEF Shown, OnScreen, CursorColumnDrawn, PreviewIsOfCursor, PreviewFillsPane
<1>3. CASE UNCHANGED vars
  <2>1. UNCHANGED <<OnScreen, rows, n_cols, entry_count>>
    BY <1>3 DEF vars, window, scrolling, navVars, OnScreen, TooSmall, rows, files_height,
       n_cols, list_w, entry_count
  <2>2. UNCHANGED <<selected, col_offset, entries, preview_mode, preview>>
    BY <1>3 DEF vars, navVars, cursor, scrolling, frame
  <2>3. Column(selected)' = Column(selected) /\ Indices' = Indices
    BY <2>1, <2>2 DEF Indices, Column
  <2> QED
    BY <2>1, <2>2, <2>3
    DEF Shown, CursorColumnDrawn, PreviewIsOfCursor, PreviewFillsPane, PathAt
<1> QED  BY <1>1, <1>2, <1>3, EventsForget

LEMMA AlwaysShown == Spec => []Shown
<1>1. Init => Shown
  BY DEF Init, Shown, OnScreen, CursorColumnDrawn, PreviewIsOfCursor, PreviewFillsPane
<1> QED  BY <1>1, AlwaysTyped, NextShows, PTL DEF Spec

\* After every frame the column of the cursor is drawn, for every listing,
\* size of the terminal and history of offsets.
THEOREM CursorColumnAlwaysDrawn == Spec => []CursorColumnDrawn
<1>1. Shown => CursorColumnDrawn  BY DEF Shown
<1> QED  BY <1>1, AlwaysShown, PTL

\* With the cursor on an entry the preview is of that entry, whatever the cache
\* holds and however the cursor came there.
THEOREM PreviewAlwaysOfCursor == Spec => []PreviewIsOfCursor
<1>1. Shown => PreviewIsOfCursor  BY DEF Shown
<1> QED  BY <1>1, AlwaysShown, PTL

\* The preview is never scrolled past the last screenful, for every text.
THEOREM PreviewAlwaysFillsPane == Spec => []PreviewFillsPane
<1>1. Shown => PreviewFillsPane  BY DEF Shown
<1> QED  BY <1>1, AlwaysShown, PTL

----------------------------------------------------------------------------
(* A frame drawn again.                                                    *)

\* The offsets never go below the first column: the count in the title is a
\* difference of products of them.
OffsetsNat == col_offset \in Nat /\ preview_saved_col_offset \in Nat

LEMMA FrameOffsets == OffsetsNat /\ CursorTyped /\ Frame => OffsetsNat'
<1> SUFFICES ASSUME OffsetsNat, CursorTyped, Frame PROVE OffsetsNat'  OBVIOUS
<1>1. preview_saved_col_offset' = preview_saved_col_offset
  BY DEF Frame, scrolling
<1>2. CASE col_offset' = col_offset  BY <1>1, <1>2 DEF OffsetsNat
<1>3. CASE ~TooSmall /\ col_offset' = Clamped(col_offset)
  <2>1. rows \in Nat \ {0} /\ n_cols \in Nat \ {0}  BY <1>3, Layout DEF CursorTyped
  <2>2. Column(selected) \in Nat  BY <1>3, ColumnType DEF CursorTyped
  <2> DEFINE c == Column(selected)
             m == Max({col_offset, c - n_cols + 1})
  <2>3. c - n_cols + 1 \in Int /\ col_offset \in Int  BY <2>1, <2>2 DEF OffsetsNat
  <2>4. m \in {col_offset, c - n_cols + 1} /\ m >= col_offset  BY <2>3, MaxTwo
  <2>5. col_offset' \in {c, m}  BY <1>3 DEF Clamped
  <2> HIDE DEF c, m
  <2>6. m \in Nat  BY <2>3, <2>4 DEF OffsetsNat
  <2> QED  BY <1>1, <2>2, <2>5, <2>6 DEF OffsetsNat, c
<1> QED  BY <1>2, <1>3 DEF Frame, Render, cursor

LEMMA NextOffsets == OffsetsNat /\ CursorTyped /\ [Next]_vars => OffsetsNat'
<1> SUFFICES ASSUME OffsetsNat, CursorTyped, [Next]_vars PROVE OffsetsNat'  OBVIOUS
<1>1. CASE Frame  BY <1>1, FrameOffsets
<1>2. CASE SelectNext \/ SelectPrev \/ PageDown \/ PageUp \/ \E i \in Indices : JumpTo(i)
  BY <1>2 DEF SelectNext, SelectPrev, PageDown, PageUp, JumpTo, InPlace, scrolling, OffsetsNat
<1>3. CASE TogglePreview  BY <1>3 DEF TogglePreview, OffsetsNat
<1>4. CASE ScrollDown \/ ScrollUp \/ ScrollPageDown \/ ScrollPageUp
  BY <1>4 DEF ScrollDown, ScrollUp, ScrollPageDown, ScrollPageUp, ScrollTo, cursor, OffsetsNat
<1>5. CASE KeyMove \/ KeyRefresh
  BY <1>5 DEF KeyMove, KeyUp, Loaded, KeyRefresh, scrolling, OffsetsNat
<1>6. CASE (\E disk \in Disks : FilesChange(disk)) \/ (\E size \in Sizes : Resize(size))
  BY <1>6 DEF FilesChange, Resize, cursor, scrolling, OffsetsNat
<1>7. CASE UNCHANGED vars  BY <1>7 DEF vars, cursor, scrolling, OffsetsNat
<1> QED  BY <1>1, <1>2, <1>3, <1>4, <1>5, <1>6, <1>7 DEF Next

\* The preview as the next frame finds it: what it takes from the cache, and
\* what it shows of it at a scroll.
NextCache ==
  IF entries = <<>> \/ IsDirectory(PathAt(selected)) \/ PathAt(selected) \in Media
     \/ ~bat_available
  THEN bat ELSE Cached(PathAt(selected))

Drawn(scroll, b) ==
  IF entries = <<>> THEN [shown |-> NoText, scroll |-> scroll]
  ELSE IF IsDirectory(PathAt(selected)) THEN PreviewDir(PathAt(selected), scroll)
  ELSE PreviewFile(PathAt(selected), scroll, b)

\* What is on the screen is what another frame would draw, but for a preview
\* of no entry.
Settled ==
  OnScreen =>
    /\ entries # <<>> => Clamped(col_offset) = col_offset
    /\ IF preview_mode
       THEN ~Adrift =>
            /\ preview_last_selected = selected
            /\ NextCache = bat
            /\ Drawn(preview_scroll, bat) = [shown |-> preview, scroll |-> preview_scroll]
       ELSE preview = NoText

\* The title of a frame drawn again is computed from the offset it shows.
TitleSettled ==
  /\ phase \in {"event", "stale", "drawn", "idle"}
  /\ OnScreen /\ phase = "idle" => title = VisibleCount(col_offset)

LEMMA PreviewRenderIs ==
  PreviewRender /\ ~Adrift =>
    LET scroll == IF selected # preview_last_selected THEN 0 ELSE preview_scroll
    IN  /\ preview_last_selected' = selected
        /\ bat' = NextCache
        /\ preview_scroll' = Drawn(scroll, NextCache).scroll
        /\ preview' = Drawn(scroll, NextCache).shown
BY DEF PreviewRender, PreviewEntry, NextCache, Drawn

\* A scroll that was clamped is not moved by clamping it again.
LEMMA ScrolledAgain ==
  ASSUME NEW p, NEW total \in Nat, NEW scroll \in Nat, rows \in Nat \ {0}
  PROVE  LET s == Scrolled(p, total, scroll)
         IN  s.scroll \in Nat /\ Scrolled(p, total, s.scroll) = s
<1> DEFINE m == Max({0, total - rows})
           first == Min({scroll, m})
<1>1. total - rows \in Int /\ scroll \in Int  OBVIOUS
<1>2. m \in {0, total - rows}  BY <1>1, MaxTwo
<1>3. m \in Int  BY <1>1, <1>2
<1> HIDE DEF m
<1>4. first \in {scroll, m} /\ first <= m  BY <1>1, <1>3, MinTwo
<1> HIDE DEF first
<1>5. first \in Int  BY <1>3, <1>4
<1>6. Min({first, m}) = first
  <2>1. Min({first, m}) \in {first, m} /\ Min({first, m}) <= first /\ Min({first, m}) <= m
    BY <1>3, <1>5, MinTwo
  <2> QED  BY <1>3, <1>4, <1>5, <2>1
<1>7. /\ ClampedScroll(scroll, total) = first
      /\ ClampedScroll(first, total) = Min({first, m})
  BY DEF ClampedScroll, first, m
<1>8. Scrolled(p, total, scroll).scroll = first
  BY <1>7, Zenon DEF Scrolled
<1>9. Scrolled(p, total, first) = Scrolled(p, total, scroll)
  BY <1>6, <1>7, Zenon DEF Scrolled
<1>10. Scrolled(p, total, scroll).scroll \in Nat  BY ScrolledType
<1> QED  BY <1>8, <1>9, <1>10

LEMMA UnscrolledAgain ==
  ASSUME NEW p, NEW scroll
  PROVE  LET s == Unscrolled(p, scroll) IN Unscrolled(p, s.scroll) = s /\ s.scroll = scroll
BY DEF Unscrolled

LEMMA DrawnAgain ==
  ASSUME CursorTyped, TypeOK, ~TooSmall, ~Adrift, NEW scroll \in Nat
  PROVE  LET d == Drawn(scroll, NextCache)
         IN  Drawn(d.scroll, NextCache) = d
<1> DEFINE p == PathAt(selected)
           b == NextCache
<1>1. rows \in Nat \ {0}  BY Layout DEF CursorTyped
<1>2. CASE entries = <<>>  BY <1>2 DEF Drawn
<1>3. CASE entries # <<>> /\ IsDirectory(p)
  <2>1. \A s : Drawn(s, b) = PreviewDir(p, s)  BY <1>3 DEF Drawn
  <2>2. CASE Exists(p)
    <3>1. Cardinality(Children(Real[p])) \in Nat
      <4>1. Children(Real[p]) \subseteq Paths  BY DEF Children
      <4> QED  BY <4>1, PanesAssumption, FS_Subset, FS_CardinalityType
    <3>2. \A s : PreviewDir(p, s) = Scrolled(p, Cardinality(Children(Real[p])), s)
      BY <2>2 DEF PreviewDir
    <3> HIDE DEF p, b
    <3> QED  BY <1>1, <2>1, <3>1, <3>2, ScrolledAgain DEF b
  <2>3. CASE ~Exists(p)
    <3>1. \A s : PreviewDir(p, s) = Unscrolled(p, s)  BY <2>3 DEF PreviewDir
    <3> HIDE DEF p, b
    <3> QED  BY <2>1, <3>1, UnscrolledAgain DEF b
  <2> QED  BY <2>2, <2>3
<1>4. CASE entries # <<>> /\ ~IsDirectory(p)
  <2>1. \A s : Drawn(s, b) = PreviewFile(p, s, b)  BY <1>4 DEF Drawn
  <2>2. p \in Paths  BY <1>4 DEF PathAt, Adrift, CursorTyped, TypeOK
  <2>3. b.nlines \in Nat  BY <2>2, CachedType DEF CursorTyped, NextCache
  <2> HIDE DEF p, b
  <2>4. CASE p \notin Media /\ bat_available /\ b.valid
    <3>1. \A s : PreviewFile(p, s, b) = Scrolled(b.of, b.nlines, s)
      BY <2>4 DEF PreviewFile
    <3> QED  BY <1>1, <2>1, <2>3, <3>1, ScrolledAgain DEF b
  <2>5. CASE ~(p \notin Media /\ bat_available /\ b.valid)
    <3>1. \A s : PreviewFile(p, s, b) = Unscrolled(p, s)
      BY <2>5 DEF PreviewFile
    <3> QED  BY <2>1, <3>1, UnscrolledAgain DEF b
  <2> QED  BY <2>4, <2>5
<1> QED  BY <1>2, <1>3, <1>4

\* A cache that was filled is not touched; an empty one is filled with the same.
LEMMA CacheAgain ==
  ASSUME Frame, ~TooSmall, preview_mode, ~Adrift
  PROVE  NextCache' = bat'
<1>1. UNCHANGED <<entries, selected, bat_available, present>>
  BY DEF Frame, navVars, cursor
<1>2. bat' = NextCache
  BY PreviewRenderIs DEF Frame, Render
<1> DEFINE p == PathAt(selected)
<1>3. PathAt(selected)' = p  BY <1>1 DEF PathAt
<1>4. IsDirectory(p)' = IsDirectory(p) /\ LinesNow(p)' = LinesNow(p)
  BY <1>1, <1>3 DEF IsDirectory, LinesNow, Exists
<1>5. CASE entries = <<>> \/ IsDirectory(p) \/ p \in Media \/ ~bat_available
  BY <1>1, <1>3, <1>4, <1>5 DEF NextCache
<1>6. CASE ~(entries = <<>> \/ IsDirectory(p) \/ p \in Media \/ ~bat_available)
  <2>1. NextCache' = (IF bat'.valid /\ bat'.of = p THEN bat'
                      ELSE [of |-> p, nlines |-> LinesNow(p), valid |-> LinesNow(p) > 0])
    BY <1>1, <1>3, <1>4, <1>6 DEF NextCache, Cached
  <2>2. bat' = (IF bat.valid /\ bat.of = p THEN bat
                ELSE [of |-> p, nlines |-> LinesNow(p), valid |-> LinesNow(p) > 0])
    BY <1>2, <1>6 DEF NextCache, Cached
  <2> QED  BY <2>1, <2>2
<1> QED  BY <1>5, <1>6

\* An offset that shows the cursor is not moved.
LEMMA ClampedStays ==
  ASSUME CursorTyped, ~TooSmall, NEW off \in Int,
         Column(selected) \in off..(off + n_cols - 1)
  PROVE  Clamped(off) = off
<1>1. rows \in Nat \ {0} /\ n_cols \in Nat \ {0}  BY Layout DEF CursorTyped
<1>2. Column(selected) \in Int  BY ColumnType DEF CursorTyped
<1> DEFINE c == Column(selected)
           m == Max({off, c - n_cols + 1})
<1>3. c \in off..(off + n_cols - 1)  OBVIOUS
<1>4. Clamped(off) = IF c < off THEN c ELSE m  BY DEF Clamped
<1> HIDE DEF c
<1>5. c - n_cols + 1 \in Int /\ c \in Int  BY <1>1, <1>2 DEF c
<1>6. m \in {off, c - n_cols + 1} /\ m >= off /\ m >= c - n_cols + 1  BY <1>5, MaxTwo
<1> HIDE DEF m
<1> QED  BY <1>1, <1>3, <1>4, <1>5, <1>6

LEMMA FrameSettled == CursorTyped /\ TypeOK /\ Frame => Settled'
<1> SUFFICES ASSUME CursorTyped, TypeOK, Frame PROVE Settled'  OBVIOUS
<1>1. UNCHANGED <<max_x, max_y, selected, entries, preview_mode, present, bat_available>>
  BY DEF Frame, navVars, window, cursor, scrolling
<1>2. UNCHANGED <<TooSmall, rows, n_cols, Column(selected)>>
  BY <1>1 DEF TooSmall, rows, files_height, n_cols, list_w, Column
<1>3. CASE TooSmall  BY <1>2, <1>3 DEF Settled, OnScreen
<1>4. CASE ~TooSmall
  <2>1. Render  BY <1>4 DEF Frame
  <2>2. CursorTyped'  BY FrameTyped
  <2>3. ASSUME entries' # <<>> PROVE Clamped(col_offset)' = col_offset'
    <3>1. col_offset' = Clamped(col_offset)  BY <1>1, <2>1, <2>3 DEF Render
    <3>2. col_offset \in Int  BY DEF CursorTyped
    <3>3. col_offset' \in Int /\ Column(selected) \in col_offset'..(col_offset' + n_cols - 1)
      BY <1>4, <3>1, <3>2, ClampedType
    <3>4. Clamped(col_offset') = col_offset'  BY <1>4, <3>3, ClampedStays
    <3> QED  BY <1>2, <3>4 DEF Clamped
  <2>6. Adrift' = Adrift  BY <1>1 DEF Adrift
  <2>7. CASE preview_mode /\ Adrift
    BY <1>1, <2>3, <2>6, <2>7 DEF Settled
  <2>4. CASE preview_mode /\ ~Adrift
    <3> DEFINE scroll == IF selected # preview_last_selected THEN 0 ELSE preview_scroll
    <3>1. /\ preview_last_selected' = selected
          /\ bat' = NextCache
          /\ preview_scroll' = Drawn(scroll, NextCache).scroll
          /\ preview' = Drawn(scroll, NextCache).shown
      BY <2>1, <2>4, PreviewRenderIs DEF Render
    <3>2. scroll \in Nat  BY DEF CursorTyped
    <3>3. NextCache' = bat'  BY <1>4, <2>4, CacheAgain
    <3>4. Drawn(preview_scroll', bat') = Drawn(scroll, NextCache)
      <4> HIDE DEF scroll
      <4> QED  BY <1>4, <2>4, <3>1, <3>2, DrawnAgain
    <3>5. Drawn(scroll, NextCache) = [shown |-> preview', scroll |-> preview_scroll']
      <4> HIDE DEF scroll
      <4>1. \E a, b : Drawn(scroll, NextCache) = [shown |-> a, scroll |-> b]
        BY DEF Drawn, PreviewDir, PreviewFile, Scrolled, Unscrolled
      <4> QED  BY <3>1, <4>1
    <3>6. Drawn(preview_scroll, bat)' = Drawn(preview_scroll', bat')
      BY <1>1, <1>2
      DEF Drawn, PathAt, IsDirectory, PreviewDir, Exists, Scrolled, Unscrolled, Children,
          ClampedScroll, PreviewFile
    <3> QED  BY <1>1, <2>3, <2>4, <3>1, <3>3, <3>4, <3>5, <3>6 DEF Settled
  <2>5. CASE ~preview_mode
    <3>1. preview' = NoText  BY <2>1, <2>5 DEF Render
    <3> QED  BY <1>1, <2>3, <2>5, <3>1 DEF Settled
  <2> QED  BY <2>4, <2>5, <2>7
<1> QED  BY <1>3, <1>4

\* What a frame leaves when it is drawn over one with nothing in between.
LEMMA FrameAgain ==
  ASSUME Settled, Frame, phase \in {"drawn", "idle"}
  PROVE  /\ UNCHANGED cursor
         /\ ~(preview_mode /\ Adrift) => UNCHANGED <<scrolling, cache, preview>>
<1>1. UNCHANGED <<selected, preview_mode, preview_saved_col_offset, bat_available>>
  BY DEF Frame, cursor, scrolling
<1>2. CASE TooSmall
  BY <1>1, <1>2 DEF Frame, cursor, scrolling, cache, frame
<1>3. CASE ~TooSmall
  <2>1. Render /\ OnScreen  BY <1>3 DEF Frame, OnScreen
  <2>2. col_offset' = col_offset  BY <2>1 DEF Render, Settled
  <2>5. UNCHANGED cursor  BY <1>1, <2>2 DEF cursor
  <2>3. CASE preview_mode /\ ~Adrift
    <3>1. /\ preview_last_selected = selected /\ NextCache = bat
          /\ Drawn(preview_scroll, bat) = [shown |-> preview, scroll |-> preview_scroll]
      BY <2>1, <2>3 DEF Settled
    <3>2. /\ preview_last_selected' = selected
          /\ bat' = bat
          /\ preview_scroll' = Drawn(preview_scroll, bat).scroll
          /\ preview' = Drawn(preview_scroll, bat).shown
      BY <2>1, <2>3, <3>1, PreviewRenderIs DEF Render
    <3> QED  BY <1>1, <2>2, <3>1, <3>2 DEF cursor, scrolling, cache
  <2>4. CASE ~preview_mode
    <3>1. preview' = NoText /\ preview = NoText
          /\ UNCHANGED <<bat, preview_scroll, preview_last_selected>>
      BY <2>1, <2>4 DEF Render, Settled
    <3> QED  BY <1>1, <2>2, <3>1 DEF cursor, scrolling, cache
  <2> QED  BY <2>3, <2>4, <2>5
<1> QED  BY <1>2, <1>3

LEMMA NextSettled ==
  Settled /\ TitleSettled /\ CursorTyped /\ TypeOK /\ [Next]_vars
    => Settled' /\ TitleSettled'
<1> SUFFICES ASSUME Settled, TitleSettled, CursorTyped, TypeOK, [Next]_vars
             PROVE  Settled' /\ TitleSettled'
  OBVIOUS
<1>1. CASE Frame
  <2>1. Settled'  BY <1>1, FrameSettled
  <2>2. UNCHANGED <<max_x, max_y, selected, entries, preview_mode>>
    BY <1>1 DEF Frame, navVars, window, cursor, scrolling
  <2>4. phase' \in {"drawn", "idle"}  BY <1>1 DEF Frame
  <2>3. ASSUME OnScreen', phase' = "idle" PROVE title' = VisibleCount(col_offset)'
    <3>1. ~TooSmall  BY <2>2, <2>3 DEF OnScreen, TooSmall
    <3>2. Render  BY <1>1, <3>1 DEF Frame
    <3>3. phase \notin {"event", "stale"}  BY <1>1, <2>3 DEF Frame
    <3>4. col_offset' = col_offset
      <4>1. phase \in {"drawn", "idle"}  BY <3>3 DEF TitleSettled
      <4> QED  BY <1>1, <4>1, FrameAgain DEF cursor
    <3> QED
      BY <2>2, <3>2, <3>4
      DEF Render, VisibleCount, n_cols, list_w, rows, files_height, entry_count
  <2> QED  BY <2>1, <2>3, <2>4 DEF TitleSettled
<1>2. CASE phase' \in {"event", "stale"}
  BY <1>2 DEF Settled, TitleSettled, OnScreen
<1>3. CASE UNCHANGED vars
  <2>1. UNCHANGED <<present, entries, selected, col_offset, preview_mode, preview_scroll,
                    preview_last_selected, bat_available, bat, phase, title, preview, max_x, max_y>>
    BY <1>3 DEF vars, navVars, window, cursor, scrolling, cache, frame
  <2>2. UNCHANGED <<OnScreen, rows, n_cols, entry_count>>
    BY <2>1 DEF OnScreen, TooSmall, rows, files_height, n_cols, list_w, entry_count
  <2>3. UNCHANGED <<Clamped(col_offset), VisibleCount(col_offset)>>
    BY <2>1, <2>2 DEF Clamped, Column, VisibleCount
  <2>5. UNCHANGED Adrift  BY <2>1 DEF Adrift
  <2>4. UNCHANGED <<NextCache, Drawn(preview_scroll, bat)>>
    BY <2>1, <2>2
    DEF NextCache, Cached, LinesNow, Drawn, PathAt, IsDirectory, PreviewDir, Exists,
        Scrolled, Unscrolled, Children, ClampedScroll, PreviewFile
  <2> QED  BY <2>1, <2>2, <2>3, <2>4, <2>5 DEF Settled, TitleSettled
<1> QED  BY <1>1, <1>2, <1>3, EventsForget

LEMMA AlwaysSettled == Spec => [](TypeOK /\ CursorTyped /\ OffsetsNat /\ Settled /\ TitleSettled)
<1>1. Init => OffsetsNat /\ Settled /\ TitleSettled
  BY DEF Init, OffsetsNat, Settled, TitleSettled, OnScreen
<1> QED  BY <1>1, AlwaysTyped, NextOffsets, NextSettled, PTL DEF Spec

\* A frame drawn with nothing new moves nothing, fills no cache with anything
\* else and shows the same text: drawing is pure from the second time on.
THEOREM FrameAlwaysSettles == Spec => FrameSettles
<1>1. Settled /\ TitleSettled /\ [Next]_vars
        => [phase = "drawn" /\ phase' = "idle"
              => /\ UNCHANGED cursor
                 /\ ~(preview_mode /\ Adrift) => UNCHANGED <<scrolling, cache, preview>>]_vars
  <2> SUFFICES ASSUME Settled, TitleSettled, [Next]_vars,
                      phase = "drawn", phase' = "idle"
               PROVE  /\ UNCHANGED cursor
                      /\ ~(preview_mode /\ Adrift)
                           => UNCHANGED <<scrolling, cache, preview>>
    OBVIOUS
  <2>1. CASE Frame  BY <2>1, FrameAgain
  <2>2. CASE UNCHANGED vars  BY <2>2 DEF vars
  <2> QED  BY <2>1, <2>2, EventsForget
<1> QED  BY <1>1, AlwaysSettled, PTL DEF Spec, FrameSettles

\* How many entries there are between two columns, counted in another way.
LEMMA VisibleCounted ==
  ASSUME CursorTyped, TypeOK, ~TooSmall, col_offset \in Nat,
         entries # <<>> => Column(selected) \in col_offset..(col_offset + n_cols - 1)
  PROVE  VisibleCount(col_offset) = Cardinality(InColumns(col_offset))
<1>1. rows \in Nat \ {0} /\ n_cols \in Nat \ {0}  BY Layout DEF CursorTyped
<1>2. CASE entries = <<>>
  <2>1. InColumns(col_offset) = {}
    BY <1>2 DEF InColumns, Indices, entry_count
  <2> QED  BY <1>2, <2>1, FS_EmptySet DEF VisibleCount
<1>3. CASE entries # <<>>
  <2> DEFINE n == entry_count
             low == col_offset * rows
             next == (col_offset + n_cols) * rows
             high == Min({next, n})
  <2>1. n \in Nat  BY DEF entry_count, TypeOK
  <2>2. low \in Nat /\ next \in Nat  BY <1>1
  <2>3. high \in {next, n} /\ high <= next /\ high <= n
    <3> HIDE DEF next, n
    <3>1. next \in Int /\ n \in Int  BY <2>1, <2>2
    <3> QED  BY <3>1, MinTwo
  <2>4. VisibleCount(col_offset) = high - low  BY <1>3 DEF VisibleCount
  <2>5. ASSUME NEW i \in Nat
        PROVE  Column(i) \in col_offset..(col_offset + n_cols - 1) <=> low <= i /\ i < next
    <3>1. col_offset \in Int /\ col_offset + n_cols \in Int  BY <1>1
    <3>5. Column(i) = i \div rows  BY ColumnType DEF CursorTyped
    <3>2. Column(i) >= col_offset <=> i >= low  BY <1>1, <3>1, <3>5, ColumnOfPlace
    <3>3. Column(i) < col_offset + n_cols <=> i < next
      BY <1>1, <3>1, <3>5, ColumnOfPlace
    <3>4. Column(i) \in Int  BY ColumnType DEF CursorTyped
    <3> HIDE DEF low, next
    <3> QED  BY <1>1, <2>2, <3>1, <3>2, <3>3, <3>4
  <2> HIDE DEF low, next, high, n
  <2>6. InColumns(col_offset) = low..(high - 1)
    <3>1. InColumns(col_offset)
            = {i \in 0..(n - 1) : Column(i) \in col_offset..(col_offset + n_cols - 1)}
      BY DEF InColumns, Indices, n
    <3> QED  BY <2>1, <2>2, <2>3, <2>5, <3>1
  <2>7. low <= high - 1
    <3> DEFINE i == IF selected < 0 THEN 0 ELSE selected
    <3>1. i \in 0..(n - 1)  BY <1>3 DEF CursorTyped, TypeOK, n, entry_count
    <3>2. Column(i) = Column(selected)
      <4>1. 0 \div rows = 0  BY <1>1
      <4> QED  BY <4>1 DEF Column, CursorTyped
    <3> HIDE DEF i
    <3>3. low <= i /\ i < next  BY <1>3, <2>5, <3>1, <3>2
    <3> QED  BY <2>1, <2>2, <2>3, <3>1, <3>3
  <2>8. low \in Int /\ high - 1 \in Int  BY <2>1, <2>2, <2>3
  <2>9. Cardinality(low..(high - 1)) = high - 1 - low + 1  BY <2>7, <2>8, FS_Interval
  <2> QED  BY <2>1, <2>2, <2>3, <2>4, <2>6, <2>9
<1> QED  BY <1>2, <1>3

\* The count in the title is right in every frame drawn again, although it is
\* computed from an offset that is not yet clamped.
THEOREM TitleAlwaysRightWhenIdle == Spec => []TitleRightWhenIdle
<1>1. TypeOK /\ CursorTyped /\ OffsetsNat /\ TitleSettled /\ CursorColumnDrawn
        => TitleRightWhenIdle
  <2> SUFFICES ASSUME TypeOK, CursorTyped, OffsetsNat, TitleSettled, CursorColumnDrawn,
                      OnScreen, phase = "idle"
               PROVE  title = Cardinality(InColumns(col_offset))
    BY DEF TitleRightWhenIdle
  <2>1. title = VisibleCount(col_offset)  BY DEF TitleSettled
  <2>2. /\ ~TooSmall
        /\ entries # <<>> => Column(selected) \in col_offset..(col_offset + n_cols - 1)
    BY DEF OnScreen, CursorColumnDrawn
  <2> QED  BY <2>1, <2>2, VisibleCounted DEF OffsetsNat
<1> QED  BY <1>1, AlwaysSettled, CursorColumnAlwaysDrawn, PTL

=============================================================================
