------------------------------ MODULE TuiModes ------------------------------
(***************************************************************************)
(* The main loop, the panes, and the modes that decide where a key goes:   *)
(* tui_handle_input and the handlers it dispatches to, with SIGWINCH and   *)
(* the calls that block (confirmation popups, external programs).          *)
(*                                                                         *)
(* One turn of main.c's loop is resize check, rebuild, render and getch    *)
(* with the handling of what it read; the signal handler may run between   *)
(* any two of them.  What a key does to the files is in FilesBuffer and    *)
(* FileOps, and what a command does in RmConfirm; here it is the outcome   *)
(* the modes depend on.  Text is abstracted to nothing, except file_cmd    *)
(* which decides what the next key means.                                  *)
(***************************************************************************)
EXTENDS Naturals

VARIABLES
  pc,            \* where the loop is
  running,
  term, size,    \* the terminal, and what getmaxyx last said: big or small
  needs_resize,
  active_buffer, prev_buffer,
  info_mode, preview_mode, visual_mode,
  goto_mode, rename_mode, quickshell_mode,
  file_cmd,      \* file_cmd_buf is empty, begins with a digit or with a dot
  rm_confirm_mode

loop == <<running, term, size, needs_resize>>
panes == <<active_buffer, prev_buffer, info_mode, preview_mode>>
overlays == <<goto_mode, rename_mode, quickshell_mode>>
vars == <<pc, loop, panes, visual_mode, overlays, file_cmd, rm_confirm_mode>>

Panes == {"FILES", "SHELL", "PREVIEW", "INFO"}
Sizes == {"big", "small"} \* at least MIN_COLS x MIN_ROWS, or less

\* tui_init
Init ==
  /\ pc = "resize"
  /\ running = TRUE
  /\ term \in Sizes /\ size = term
  /\ needs_resize = FALSE
  /\ active_buffer = "FILES" /\ prev_buffer = "FILES"
  /\ info_mode = FALSE /\ preview_mode = FALSE /\ visual_mode = FALSE
  /\ goto_mode = FALSE /\ rename_mode = FALSE /\ quickshell_mode = FALSE
  /\ file_cmd = "empty"
  /\ rm_confirm_mode = FALSE

----------------------------------------------------------------------------
(* The loop.                                                               *)

\* The terminal changes and the handler of SIGWINCH raises the flag.
Winch ==
  /\ pc # "end"
  /\ term' \in Sizes \ {term}
  /\ needs_resize' = TRUE
  /\ UNCHANGED <<pc, running, size, panes, visual_mode, overlays, file_cmd, rm_confirm_mode>>

\* The first half of tui_resize_handler.
ResizeCheck ==
  /\ pc = "resize"
  /\ pc' = IF needs_resize THEN "rebuild" ELSE "render"
  /\ needs_resize' = FALSE
  /\ UNCHANGED <<running, term, size, panes, visual_mode, overlays, file_cmd, rm_confirm_mode>>

\* The second half: rebuild_windows.
Rebuild ==
  /\ pc = "rebuild"
  /\ pc' = "render"
  /\ size' = term
  /\ UNCHANGED <<running, term, needs_resize, panes, visual_mode, overlays, file_cmd, rm_confirm_mode>>

\* A loop that lowers the flag once the new size is drawn.
RenderThenClear ==
  /\ pc = "render"
  /\ pc' = "getch"
  /\ needs_resize' = FALSE
  /\ UNCHANGED <<running, term, size, panes, visual_mode, overlays, file_cmd, rm_confirm_mode>>

\* tui_render; it changes none of this.
Render ==
  /\ pc = "render"
  /\ pc' = "getch"
  /\ UNCHANGED <<loop, panes, visual_mode, overlays, file_cmd, rm_confirm_mode>>

\* getch gives nothing for 50 ms, or a key that changes none of this.
Idle ==
  /\ pc = "getch"
  /\ pc' = "resize"
  /\ UNCHANGED <<loop, panes, visual_mode, overlays, file_cmd, rm_confirm_mode>>

\* A key is handled and the loop goes round.
Handled == pc = "getch" /\ size = "big" /\ pc' = "resize" /\ UNCHANGED loop

\* A popup or an external program: the handler does not return for now.
Blocks == pc = "getch" /\ size = "big" /\ pc' = "blocked"

\* The user answers the popup, the program exits.
Unblock ==
  /\ pc = "blocked"
  /\ pc' = "resize"
  /\ UNCHANGED <<loop, panes, visual_mode, overlays, file_cmd, rm_confirm_mode>>

\* q or Q while the terminal is too small; nothing else is looked at.
QuitSmall ==
  /\ pc = "getch" /\ size = "small"
  /\ pc' = "end" /\ running' = FALSE
  /\ UNCHANGED <<term, size, needs_resize, panes, visual_mode, overlays, file_cmd, rm_confirm_mode>>

\* The loop has ended; tui_cleanup.
Ended == pc = "end" /\ UNCHANGED vars

----------------------------------------------------------------------------
(* Keys of tui_handle_input.                                               *)

\* An open help screen takes any key but Ctrl+L and Ctrl+C.
InfoClose ==
  /\ Handled
  /\ active_buffer = "INFO"
  /\ info_mode' = FALSE
  /\ active_buffer' = prev_buffer
  /\ UNCHANGED <<prev_buffer, preview_mode, visual_mode, overlays, file_cmd, rm_confirm_mode>>

\* The keys of the panes are not those of an overlay or of the help.
PaneKey ==
  /\ Handled
  /\ active_buffer # "INFO"
  /\ ~goto_mode /\ ~rename_mode /\ ~quickshell_mode

\* F1 that does not mind where it is pressed.
InfoOpenAnywhere ==
  /\ Handled
  /\ info_mode' = TRUE
  /\ prev_buffer' = active_buffer
  /\ active_buffer' = "INFO"
  /\ UNCHANGED <<preview_mode, visual_mode, overlays, file_cmd, rm_confirm_mode>>

\* F1
InfoOpen ==
  /\ PaneKey
  /\ info_mode' = TRUE
  /\ prev_buffer' = active_buffer
  /\ active_buffer' = "INFO"
  /\ UNCHANGED <<preview_mode, visual_mode, overlays, file_cmd, rm_confirm_mode>>

\* A J that is taken from the line of an overlay.
FocusShellAlways ==
  /\ Handled
  /\ active_buffer # "INFO"
  /\ active_buffer' = "SHELL"
  /\ visual_mode' = FALSE
  /\ UNCHANGED <<prev_buffer, info_mode, preview_mode, overlays, file_cmd, rm_confirm_mode>>

\* J and Shift+Down
FocusShell ==
  /\ PaneKey
  /\ active_buffer' = "SHELL"
  /\ visual_mode' = FALSE
  /\ UNCHANGED <<prev_buffer, info_mode, preview_mode, overlays, file_cmd, rm_confirm_mode>>

Focus(pane) ==
  /\ active_buffer' = pane
  /\ UNCHANGED <<prev_buffer, info_mode, preview_mode, visual_mode, overlays,
                 file_cmd, rm_confirm_mode>>

\* K and Shift+Up
FocusFiles == PaneKey /\ Focus("FILES")

\* L and Shift+Right
FocusNext ==
  /\ PaneKey
  /\ \/ active_buffer = "FILES" /\ preview_mode /\ Focus("PREVIEW")
     \/ active_buffer = "PREVIEW" /\ Focus("SHELL")

\* H and Shift+Left
FocusPrev ==
  /\ PaneKey
  /\ active_buffer \in {"PREVIEW", "SHELL"}
  /\ Focus("FILES")

----------------------------------------------------------------------------
(* Commands: execute_given by its outcome for the modes.                   *)

Outcomes == {"quit", "rm", "external", "other"}

\* An rm that finds a target raises the question, or is taken for the answer
\* when one is pending (its second phase).
Asked(outcome) == IF outcome = "rm" THEN ~rm_confirm_mode ELSE rm_confirm_mode

Execute(outcome) ==
  /\ pc = "getch" /\ size = "big"
  /\ running' = (outcome # "quit")
  /\ pc' = CASE outcome = "quit" -> "end"
             [] outcome = "external" \/ (outcome = "rm" /\ rm_confirm_mode) -> "blocked"
             [] OTHER -> "resize"
  /\ rm_confirm_mode' = Asked(outcome)
  /\ UNCHANGED <<term, size, needs_resize>>

\* A quickshell that leaves the focus where it was.
QuickshellExecuteInPlace(outcome) ==
  /\ quickshell_mode
  /\ active_buffer \in {"FILES", "PREVIEW"}
  /\ Execute(outcome)
  /\ quickshell_mode' = FALSE
  /\ UNCHANGED <<panes, visual_mode, goto_mode, rename_mode, file_cmd>>

\* quickshell_execute with a line that is not empty
QuickshellExecute(outcome) ==
  /\ quickshell_mode
  /\ active_buffer \in {"FILES", "PREVIEW"}
  /\ Execute(outcome)
  /\ quickshell_mode' = FALSE
  /\ active_buffer' = IF outcome # "quit" /\ Asked(outcome) THEN "SHELL" ELSE active_buffer
  /\ UNCHANGED <<prev_buffer, info_mode, preview_mode, visual_mode,
                 goto_mode, rename_mode, file_cmd>>

\* Escape, or Enter on the empty line
QuickshellCancel ==
  /\ Handled
  /\ quickshell_mode /\ quickshell_mode' = FALSE
  /\ UNCHANGED <<panes, visual_mode, goto_mode, rename_mode, file_cmd, rm_confirm_mode>>

\* Enter in the shell pane with no question pending
ShellEnter(outcome) ==
  /\ active_buffer = "SHELL" /\ ~rm_confirm_mode
  /\ Execute(outcome)
  /\ UNCHANGED <<panes, visual_mode, overlays, file_cmd>>

\* Enter with y: the pending rm runs.
AnswerYes ==
  /\ active_buffer = "SHELL" /\ rm_confirm_mode
  /\ Execute("rm")
  /\ UNCHANGED <<panes, visual_mode, overlays, file_cmd>>

\* Escape, or Enter with anything else
AnswerNo ==
  /\ Handled
  /\ active_buffer = "SHELL" /\ rm_confirm_mode
  /\ rm_confirm_mode' = FALSE
  /\ UNCHANGED <<panes, visual_mode, overlays, file_cmd>>

----------------------------------------------------------------------------
(* Keys of the preview and the files pane.                                 *)

\* p that leaves the focus on the pane it closes
PreviewCloseFocused ==
  /\ Handled
  /\ active_buffer = "PREVIEW" /\ ~quickshell_mode
  /\ preview_mode' = FALSE
  /\ UNCHANGED <<active_buffer, prev_buffer, info_mode, visual_mode, overlays,
                 file_cmd, rm_confirm_mode>>

\* p in the preview
PreviewClose ==
  /\ Handled
  /\ active_buffer = "PREVIEW" /\ ~quickshell_mode
  /\ preview_mode' = FALSE
  /\ active_buffer' = "FILES"
  /\ UNCHANGED <<prev_buffer, info_mode, visual_mode, overlays, file_cmd, rm_confirm_mode>>

\* : in the preview
PreviewQuickshell ==
  /\ Handled
  /\ active_buffer = "PREVIEW" /\ ~quickshell_mode
  /\ quickshell_mode' = TRUE
  /\ UNCHANGED <<panes, visual_mode, goto_mode, rename_mode, file_cmd, rm_confirm_mode>>

InFiles == active_buffer = "FILES" /\ ~goto_mode /\ ~rename_mode /\ ~quickshell_mode

\* handle_file_cmd_input: digits; dots; after a dot every key is text, and
\* Escape, Enter, Delete, a second dot or a backspace ends it.
CommandKey ==
  /\ Handled
  /\ InFiles
  /\ file_cmd' \in IF file_cmd = "dot" THEN {"dot", "empty"} ELSE {"digit", "dot"}
  /\ UNCHANGED <<panes, visual_mode, overlays, rm_confirm_mode>>

\* A key that leaves the digits before it.
FilesKeyKeepingDigits ==
  /\ InFiles
  /\ file_cmd # "dot"
  /\ UNCHANGED file_cmd

\* A key of the switch: the digits before it are dropped.
FilesKey ==
  /\ InFiles
  /\ file_cmd # "dot"
  /\ file_cmd' = "empty"

\* Movement, marks, undo, <num>g and the like; l on a file may raise
\* needs_resize itself (file.c:1311).
FilesCommand ==
  /\ FilesKey
  /\ pc = "getch" /\ size = "big" /\ pc' = "resize"
  /\ needs_resize' \in {needs_resize, TRUE}
  /\ UNCHANGED <<running, term, size, panes, visual_mode, overlays, rm_confirm_mode>>

\* d, D, p and P ask in a popup; l may run a terminal program.
FilesBlock ==
  /\ FilesKey
  /\ Blocks
  /\ UNCHANGED <<loop, panes, visual_mode, overlays, rm_confirm_mode>>

\* v, and Escape in visual mode
VisualToggle ==
  /\ Handled
  /\ FilesKey
  /\ visual_mode' = ~visual_mode
  /\ UNCHANGED <<panes, overlays, rm_confirm_mode>>

\* Ctrl+P
PreviewToggle ==
  /\ Handled
  /\ FilesKey
  /\ preview_mode' = ~preview_mode
  /\ UNCHANGED <<active_buffer, prev_buffer, info_mode, visual_mode, overlays, rm_confirm_mode>>

\* g with no digits before it
GotoBegin ==
  /\ Handled
  /\ FilesKey /\ file_cmd = "empty"
  /\ goto_mode' = TRUE
  /\ UNCHANGED <<panes, visual_mode, rename_mode, quickshell_mode, rm_confirm_mode>>

\* r on an entry
RenameBegin ==
  /\ Handled
  /\ FilesKey
  /\ rename_mode' = TRUE
  /\ UNCHANGED <<panes, visual_mode, goto_mode, quickshell_mode, rm_confirm_mode>>

\* :
QuickshellBegin ==
  /\ Handled
  /\ FilesKey
  /\ quickshell_mode' = TRUE
  /\ UNCHANGED <<panes, visual_mode, goto_mode, rename_mode, rm_confirm_mode>>

\* Enter and Escape of the rename or goto line
OverlayEnd ==
  /\ Handled
  /\ active_buffer = "FILES"
  /\ \/ rename_mode /\ rename_mode' = FALSE /\ UNCHANGED goto_mode
     \/ ~rename_mode /\ goto_mode /\ goto_mode' = FALSE /\ UNCHANGED rename_mode
  /\ UNCHANGED <<panes, visual_mode, quickshell_mode, file_cmd, rm_confirm_mode>>

----------------------------------------------------------------------------
Loop == ResizeCheck \/ Rebuild \/ Render \/ Idle

Next ==
  \/ Loop \/ Winch \/ Unblock \/ QuitSmall \/ Ended
  \/ InfoClose \/ InfoOpen \/ FocusShell \/ FocusFiles \/ FocusNext \/ FocusPrev
  \/ QuickshellCancel \/ AnswerYes \/ AnswerNo
  \/ \E outcome \in Outcomes : QuickshellExecute(outcome) \/ ShellEnter(outcome)
  \/ PreviewClose \/ PreviewQuickshell
  \/ CommandKey \/ FilesCommand \/ FilesBlock \/ VisualToggle \/ PreviewToggle
  \/ GotoBegin \/ RenameBegin \/ QuickshellBegin \/ OverlayEnd

\* The process is scheduled and getch returns after 50 ms (timeout(50),
\* tui.c:257).  Nobody need ever press a key, nor answer a popup.
Spec == Init /\ [][Next]_vars /\ WF_vars(Loop)

----------------------------------------------------------------------------
(* Properties.                                                             *)

TypeOK ==
  /\ pc \in {"resize", "rebuild", "render", "getch", "blocked", "end"}
  /\ running \in BOOLEAN /\ needs_resize \in BOOLEAN
  /\ term \in Sizes /\ size \in Sizes
  /\ active_buffer \in Panes /\ prev_buffer \in Panes
  /\ info_mode \in BOOLEAN /\ preview_mode \in BOOLEAN /\ visual_mode \in BOOLEAN
  /\ goto_mode \in BOOLEAN /\ rename_mode \in BOOLEAN /\ quickshell_mode \in BOOLEAN
  /\ file_cmd \in {"empty", "digit", "dot"}
  /\ rm_confirm_mode \in BOOLEAN

\* At most one line is open, and it is open in the pane whose handler feeds
\* it: no line stays open and blind while the keys go elsewhere.
OverlayHasTheKeys ==
  /\ goto_mode => ~rename_mode /\ ~quickshell_mode /\ active_buffer = "FILES"
  /\ rename_mode => ~goto_mode /\ ~quickshell_mode /\ active_buffer = "FILES"
  /\ quickshell_mode => active_buffer \in {"FILES", "PREVIEW"}

\* The two records of the help screen agree, and closing it leads to a pane
\* that is there.
InfoRemembersPane ==
  /\ info_mode <=> active_buffer = "INFO"
  /\ prev_buffer # "INFO"

\* The focus is never on a preview that is not shown, not even after the
\* help is closed.
PreviewHasFocus ==
  /\ active_buffer = "PREVIEW" => preview_mode
  /\ info_mode /\ prev_buffer = "PREVIEW" => preview_mode

\* An index or a dot typed before r or g is gone by the time the line is
\* open, so it cannot turn a later g into a jump.
NoDigitsUnderOverlay == goto_mode \/ rename_mode => file_cmd = "empty"

\* The question before an rm comes up where it can be answered, whether the
\* command was typed in the shell pane or in the quickshell.
AskedInTheShell ==
  [][~rm_confirm_mode /\ rm_confirm_mode' => active_buffer' = "SHELL"]_vars

\* Once the main loop runs, a size the program has not seen is never
\* forgotten: the flag is up, or the rebuild that will read the size is still
\* to come.  (The handler is installed at the end of tui_init, tui.c:325,
\* after the size was read at tui.c:302; a signal between is not in here.)
NoLostResize ==
  size # term => needs_resize \/ pc = "rebuild"

\* A new size is seen, unless a popup or a program holds the loop or the
\* program ends.
ResizeShown == [](size # term => <>(size = term \/ pc \in {"blocked", "end"}))

============================================================================
