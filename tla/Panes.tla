------------------------------- MODULE Panes -------------------------------
(***************************************************************************)
(* The files pane and the preview beside it, on top of Navigation: which   *)
(* columns of the listing are drawn, how far the preview is scrolled, and  *)
(* whose text it shows.  Drawing is not pure here: files_render and the    *)
(* preview move col_offset, preview_scroll and the bat cache as they draw, *)
(* and the keys pressed between two frames move them without looking at    *)
(* what there is to show.                                                  *)
(*                                                                         *)
(* A pass of the main loop draws a frame and takes at most one key.  The   *)
(* phase is "event" when a key or a resize is to be shown, "stale" when    *)
(* only files changed since the last frame, "drawn" after a frame and      *)
(* "idle" after another with nothing in between.  The focus (TuiModes) is  *)
(* left out: it can be moved before any key.                               *)
(***************************************************************************)
EXTENDS Navigation, FiniteSetsExt

CONSTANTS Lines,            \* how many lines each file has
          Media,            \* files of which only the kind is shown
          Sizes,            \* sizes <<columns, rows>> of the terminal
          MinCols, MinRows, \* MIN_COLS, MIN_ROWS
          CellWidth,        \* COL_W + COL_PAD
          ScrollMax         \* bound on preview_scroll, for TLC

ASSUME PanesAssumption ==
  /\ IsFiniteSet(Paths)
  /\ Lines \in [Paths -> Nat] /\ Media \subseteq Paths
  /\ Sizes \subseteq Nat \X Nat
  /\ MinCols \in Nat /\ MinRows \in Nat /\ MinCols > 0 /\ MinRows > 6
  /\ CellWidth \in Nat \ {0} /\ ScrollMax \in Nat

VARIABLES max_x, max_y,
          selected, col_offset,
          preview_mode, preview_scroll, preview_last_selected,
          preview_saved_col_offset,
          bat_available,  \* found on the PATH, once and for all
          bat,            \* the cache: path, number of lines, valid
          phase,
          title, preview  \* what the frame shows

window == <<max_x, max_y>>
cursor == <<selected, col_offset>>
scrolling == <<preview_mode, preview_scroll, preview_last_selected,
               preview_saved_col_offset>>
cache == <<bat_available, bat>>
frame == <<title, preview>>
vars == <<navVars, window, cursor, scrolling, cache, phase, frame>>

entry_count == Len(entries)
Indices == 0..(entry_count - 1)
PathAt(i) == entries[i + 1]

\* Half a page down from no entry at all leaves the cursor on -1, where it
\* stays when a refresh finds entries.
Adrift == entries # <<>> /\ selected < 0

----------------------------------------------------------------------------
(* The layout.                                                             *)

TooSmall == max_x < MinCols \/ max_y < MinRows

files_height == (max_y - 1) \div 2
rows == files_height - 1
HalfPage == files_height \div 2

list_w == IF preview_mode THEN max_x - max_x \div 2 - 1 ELSE max_x
n_cols == Max({1, list_w \div CellWidth})

\* C rounds towards 0: -1 is in the first column.
Column(i) == IF i < 0 THEN 0 ELSE i \div rows

\* Entries in the columns from off on that the pane has room for.
InColumns(off) == {i \in Indices : Column(i) \in off..(off + n_cols - 1)}

\* A clamp of one column per frame.
ClampedByOne(off) ==
  IF Column(selected) < off THEN off - 1
  ELSE IF Column(selected) >= off + n_cols THEN off + 1 ELSE off

\* A clamp that puts the cursor one column past the last one.
ClampedLate(off) ==
  IF Column(selected) < off THEN Column(selected)
  ELSE Max({off, Column(selected) - n_cols})

\* files_render: col_offset moved as little as shows the cursor.
Clamped(off) ==
  IF Column(selected) < off THEN Column(selected)
  ELSE Max({off, Column(selected) - n_cols + 1})

\* A count of the places drawn, whether or not there is an entry for each.
PlacesCount(off) == IF entries = <<>> THEN 0 ELSE n_cols * rows

\* The count in the title, from the offset before it is clamped: it may be
\* too low, even negative.
VisibleCount(off) ==
  IF entries = <<>> THEN 0
  ELSE Min({(off + n_cols) * rows, entry_count}) - off * rows

----------------------------------------------------------------------------
(* The preview.                                                            *)

NoText == [of |-> Root, first |-> 0, total |-> 0, scrolls |-> FALSE]

\* The lines bat finds in a file; none when it is gone.
LinesNow(p) == IF Exists(p) THEN Lines[Real[p]] ELSE 0

\* A cache that is used for whatever is selected once it is valid.
CachedForAny(p) ==
  IF bat.valid THEN bat
  ELSE [of |-> p, nlines |-> LinesNow(p), valid |-> LinesNow(p) > 0]

\* preview_render_file and bat_fill_cache: filled again for another path,
\* and for as long as there was no output.
Cached(p) ==
  IF bat.valid /\ bat.of = p THEN bat
  ELSE [of |-> p, nlines |-> LinesNow(p), valid |-> LinesNow(p) > 0]

\* A clamp to the last line instead of the last screenful.
ClampedToLastLine(scroll, total) == Min({scroll, Max({0, total - 1})})

ClampedScroll(scroll, total) == Min({scroll, Max({0, total - rows})})

\* What is shown of the lines of p (or of the cache), and the scroll left.
Scrolled(p, total, scroll) ==
  LET first == ClampedScroll(scroll, total)
  IN  [shown |-> [of |-> p, first |-> first, total |-> total, scrolls |-> TRUE],
       scroll |-> first]

\* A label such as (image), or the file from its first line: the scroll is
\* neither used nor bounded.
Unscrolled(p, scroll) ==
  [shown |-> [of |-> p, first |-> 0, total |-> 0, scrolls |-> FALSE],
   scroll |-> scroll]

PreviewDir(p, scroll) ==
  IF Exists(p) THEN Scrolled(p, Cardinality(Children(Real[p])), scroll)
  ELSE Unscrolled(p, scroll)

PreviewFile(p, scroll, b) ==
  IF p \notin Media /\ bat_available /\ b.valid THEN Scrolled(b.of, b.nlines, scroll)
  ELSE Unscrolled(p, scroll)

\* The preview of the entry under the cursor, if there is one.
PreviewEntry(scroll) ==
  LET p == PathAt(selected)
      b == IF entries = <<>> \/ IsDirectory(p) \/ p \in Media \/ ~bat_available
           THEN bat ELSE Cached(p)
      drawn == IF entries = <<>> THEN [shown |-> NoText, scroll |-> scroll]
               ELSE IF IsDirectory(p) THEN PreviewDir(p, scroll)
               ELSE PreviewFile(p, scroll, b)
  IN  /\ bat' = b
      /\ preview_scroll' = drawn.scroll
      /\ preview' = drawn.shown

\* The entry before the first: read as a file with no name, its path is left
\* unset (file.c:238) and may be any, in every frame another.
PreviewStray(scroll) ==
  \E p \in Paths :
    LET b == IF bat_available THEN Cached(p) ELSE bat
        drawn == IF bat_available /\ b.valid THEN Scrolled(p, b.nlines, scroll)
                 ELSE Unscrolled(p, scroll)
    IN  /\ bat' = b
        /\ preview_scroll' = drawn.scroll
        /\ preview' = drawn.shown

\* preview_render
PreviewRender ==
  LET scroll == IF selected # preview_last_selected THEN 0 ELSE preview_scroll
  IN  /\ preview_last_selected' = selected
      /\ IF Adrift THEN PreviewStray(scroll) ELSE PreviewEntry(scroll)

\* tui_render: the files pane, then the preview beside it.
Render ==
  /\ title' = VisibleCount(col_offset)
  /\ col_offset' = IF entries = <<>> THEN col_offset ELSE Clamped(col_offset)
  /\ IF preview_mode THEN PreviewRender
     ELSE preview' = NoText /\ UNCHANGED <<bat, preview_scroll, preview_last_selected>>

\* One pass of the main loop without a key: at first, after an event, again.
Frame ==
  /\ phase' = IF phase \in {"event", "stale"} THEN "drawn" ELSE "idle"
  /\ IF TooSmall
     THEN UNCHANGED <<cursor, scrolling, bat, frame>>
     ELSE Render /\ UNCHANGED <<selected, preview_mode, preview_saved_col_offset>>
  /\ UNCHANGED <<navVars, window, bat_available>>

Init ==
  /\ NavInit
  /\ \E size \in Sizes : max_x = size[1] /\ max_y = size[2]
  /\ selected = 0 /\ col_offset = 0
  /\ preview_mode = FALSE /\ preview_scroll = 0 /\ preview_last_selected = 0
  /\ preview_saved_col_offset = 0
  /\ bat_available \in BOOLEAN
  /\ bat = [of |-> Root, nlines |-> 0, valid |-> FALSE]
  /\ phase = "event"
  /\ title = 0 /\ preview = NoText

----------------------------------------------------------------------------
(* The keys: whatever they move is clamped when it is drawn next.          *)

\* What was shown is compared with the next frame only if nothing happens.
Forgotten == title' = 0 /\ preview' = NoText

\* A key comes after a frame; on too small a terminal it is dropped.
Key ==
  /\ phase # "event" /\ ~TooSmall
  /\ phase' = "event"
  /\ Forgotten
  /\ UNCHANGED <<window, cache>>

InPlace == UNCHANGED <<navVars, col_offset, scrolling>>

\* j, k, Ctrl+D, Ctrl+U and <num>g; only Ctrl+D minds no end of an empty
\* listing.
SelectNext ==
  Key /\ InPlace /\ selected' = IF selected < entry_count - 1 THEN selected + 1 ELSE selected
SelectPrev ==
  Key /\ InPlace /\ selected' = IF selected > 0 THEN selected - 1 ELSE selected
PageDown ==
  /\ Key /\ InPlace
  /\ selected' = Min({selected + HalfPage, entry_count - 1})
PageUp == Key /\ InPlace /\ selected' = Max({selected - HalfPage, 0})
JumpTo(i) == Key /\ InPlace /\ selected' = i

\* Ctrl+P, and p in the preview: the offset the pane had before comes back,
\* whatever it has shown since.
TogglePreview ==
  /\ Key
  /\ preview_mode' = ~preview_mode
  /\ IF preview_mode
     THEN col_offset' = preview_saved_col_offset /\ UNCHANGED preview_saved_col_offset
     ELSE preview_saved_col_offset' = col_offset /\ UNCHANGED col_offset
  /\ UNCHANGED <<navVars, selected, preview_scroll, preview_last_selected>>

ScrollTo(n) ==
  /\ Key /\ preview_mode
  /\ preview_scroll' = n
  /\ UNCHANGED <<navVars, cursor, preview_mode, preview_last_selected,
                 preview_saved_col_offset>>

\* j, k, Ctrl+D and Ctrl+U in the preview; down has no end of its own.
ScrollDown == preview_scroll < ScrollMax /\ ScrollTo(preview_scroll + 1)
ScrollUp == ScrollTo(Max({preview_scroll - 1, 0}))
ScrollPageDown == preview_scroll + HalfPage <= ScrollMax /\ ScrollTo(preview_scroll + HalfPage)
ScrollPageUp == ScrollTo(Max({preview_scroll - HalfPage, 0}))

----------------------------------------------------------------------------
(* Other listings.                                                         *)

\* files_load_directory resets the cursor and the columns.
Loaded ==
  /\ Key
  /\ selected' = 0 /\ col_offset' = 0
  /\ UNCHANGED scrolling

\* files_change_dir: the directory left is selected if it is there, once.
KeyUp ==
  /\ Key
  /\ GoUp
  /\ LET at == {i \in DOMAIN entries' : cwd # Root /\ entries'[i] = cwd}
     IN  selected' \in IF at = {} THEN {0} ELSE {i - 1 : i \in at}
  /\ col_offset' = 0
  /\ UNCHANGED scrolling

\* h, l, goto, `..', cd and the load of rename_commit
KeyMove ==
  \/ KeyUp
  \/ /\ Loaded
     /\ \/ \E p \in ListedDirs : GoInto(p)
        \/ \E p \in Paths : GotoPath(p)
        \/ \E dir \in Paths, p \in Paths : GotoPrefix(dir, p)
        \/ \E p \in Paths : ShellGo(p)
        \/ JumpBack
        \/ Reload

\* refresh_files_buffer, after u, U, p, d, D and commands of the shell: the
\* columns stay where they were.
KeyRefresh ==
  /\ Key
  /\ Reload
  /\ selected' = IF selected < Len(entries') THEN selected ELSE 0
  /\ UNCHANGED <<col_offset, scrolling>>

FilesChange(disk) ==
  /\ DiskChange(disk)
  /\ phase' = IF phase = "event" THEN "event" ELSE "stale"
  /\ Forgotten
  /\ UNCHANGED <<window, cursor, scrolling, cache>>

\* rebuild_windows, before the next frame
Resize(size) ==
  /\ max_x' = size[1] /\ max_y' = size[2]
  /\ phase' = "event"
  /\ Forgotten
  /\ UNCHANGED <<navVars, cursor, scrolling, cache>>

Next ==
  \/ Frame
  \/ SelectNext \/ SelectPrev \/ PageDown \/ PageUp
  \/ \E i \in Indices : JumpTo(i)
  \/ TogglePreview
  \/ ScrollDown \/ ScrollUp \/ ScrollPageDown \/ ScrollPageUp
  \/ KeyMove
  \/ KeyRefresh
  \/ \E disk \in Disks : FilesChange(disk)
  \/ \E size \in Sizes : Resize(size)

Spec == Init /\ [][Next]_vars

----------------------------------------------------------------------------
(* Properties.                                                             *)

OnScreen == phase \in {"drawn", "idle"} /\ ~TooSmall

\* After every frame the column of the cursor is one of those drawn: after
\* resizes, an offset brought back by closing the preview in another
\* directory, a listing that has become shorter under an offset kept, and a
\* cursor that left an empty listing.
CursorColumnDrawn ==
  OnScreen /\ entries # <<>> => Column(selected) \in col_offset..(col_offset + n_cols - 1)

\* The count in the title, taken before the columns are clamped, is that of
\* the entries drawn as soon as a frame is drawn with nothing new.
TitleRightWhenIdle ==
  OnScreen /\ phase = "idle" => title = Cardinality(InColumns(col_offset))

\* Drawing settles: a second frame with nothing in between moves no column
\* and no scroll, fills no cache with anything else and shows the same text,
\* but for a preview of no entry.
FrameSettles ==
  [][phase = "drawn" /\ phase' = "idle"
       => /\ UNCHANGED cursor
          /\ ~(preview_mode /\ Adrift) => UNCHANGED <<scrolling, cache, preview>>]_vars

\* With the cursor on an entry the text in the preview is of that entry, never
\* of another one the cache still holds.  (On -1, with entries there again, it
\* is of whatever path was left in memory, tui.c:829.)
PreviewIsOfCursor ==
  OnScreen /\ preview_mode /\ selected \in Indices => preview.of = PathAt(selected)

\* The preview never hides lines above while it has rows left below, however
\* far it was scrolled and however short the text it shows now.
PreviewFillsPane ==
  OnScreen /\ preview.scrolls => preview.first = 0 \/ preview.first + rows <= preview.total

=============================================================================
