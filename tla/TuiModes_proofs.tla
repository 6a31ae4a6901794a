-------------------------- MODULE TuiModes_proofs --------------------------
(***************************************************************************)
(* The invariants of the modes and their one action property.  Given the   *)
(* types each is inductive, but for the preview: that it has the focus     *)
(* only when shown needs what the help remembers.                          *)
(***************************************************************************)
EXTENDS TuiModes, TLAPS

\* Every step keeps the types.
LEMMA TypeOKStep ==
  ASSUME TypeOK, [Next]_vars
  PROVE  TypeOK'
<1> USE DEF TypeOK, loop, panes, overlays, Panes, Sizes
<1>1. CASE ResizeCheck
  <2>1. pc' \in {"rebuild", "render"} /\ needs_resize' = FALSE
    BY <1>1 DEF ResizeCheck
  <2>2. UNCHANGED <<running, term, size, active_buffer, prev_buffer, info_mode, preview_mode,
                    visual_mode, goto_mode, rename_mode, quickshell_mode, file_cmd,
                    rm_confirm_mode>>
    BY <1>1 DEF ResizeCheck
  <2>3. pc' \in {"resize", "rebuild", "render", "getch", "blocked", "end"}
    BY <2>1
  <2>4. needs_resize' \in BOOLEAN
    BY <2>1
  <2> QED BY <2>2, <2>3, <2>4
<1>2. CASE Rebuild \/ Render \/ Idle \/ Winch
  <2>1. CASE Rebuild
    BY <2>1 DEF Rebuild
  <2>2. CASE Render \/ Idle
    BY <2>2 DEF Render, Idle
  <2>3. CASE Winch
    BY <2>3 DEF Winch
  <2> QED BY <1>2, <2>1, <2>2, <2>3
<1>3. CASE Unblock \/ QuitSmall \/ Ended
  BY <1>3 DEF Unblock, QuitSmall, Ended, vars
<1>4. CASE InfoClose \/ InfoOpen
  BY <1>4 DEF InfoClose, InfoOpen, PaneKey, Handled
<1>5. CASE FocusShell \/ FocusFiles \/ FocusNext \/ FocusPrev
  BY <1>5 DEF FocusShell, FocusFiles, FocusNext, FocusPrev, Focus, PaneKey, Handled
<1>6. CASE QuickshellCancel \/ AnswerYes \/ AnswerNo
  BY <1>6 DEF QuickshellCancel, AnswerYes, AnswerNo, Execute, Asked, Handled
<1>7. ASSUME NEW outcome \in Outcomes, QuickshellExecute(outcome)
      PROVE  TypeOK'
  BY <1>7 DEF QuickshellExecute, Execute, Asked, Outcomes
<1>8. ASSUME NEW outcome \in Outcomes, ShellEnter(outcome)
      PROVE  TypeOK'
  BY <1>8 DEF ShellEnter, Execute, Asked, Outcomes
<1>9. CASE PreviewClose \/ PreviewQuickshell
  BY <1>9 DEF PreviewClose, PreviewQuickshell, Handled
<1>10. CASE CommandKey
  BY <1>10 DEF CommandKey, InFiles, Handled
<1>11. CASE FilesCommand
  BY <1>11 DEF FilesCommand, FilesKey, InFiles
<1>12. CASE FilesBlock
  BY <1>12 DEF FilesBlock, FilesKey, InFiles, Blocks
<1>13. CASE VisualToggle \/ PreviewToggle
  BY <1>13 DEF VisualToggle, PreviewToggle, FilesKey, InFiles, Handled
<1>14. CASE GotoBegin \/ RenameBegin \/ QuickshellBegin \/ OverlayEnd
  BY <1>14 DEF GotoBegin, RenameBegin, QuickshellBegin, OverlayEnd,
           FilesKey, InFiles, Handled
<1>15. CASE UNCHANGED vars
  BY <1>15 DEF vars
<1> QED BY <1>1, <1>2, <1>3, <1>4, <1>5, <1>6, <1>7, <1>8, <1>9, <1>10, <1>11,
           <1>12, <1>13, <1>14, <1>15
           DEF Next, Loop

\* A line is opened in the files pane or the preview only, and no key moves
\* the focus or opens the help while one is open.
LEMMA OverlayHasTheKeysStep ==
  ASSUME TypeOK, OverlayHasTheKeys, [Next]_vars
  PROVE  OverlayHasTheKeys'
<1> USE DEF OverlayHasTheKeys, TypeOK, loop, panes, overlays
<1>1. CASE ResizeCheck
  BY <1>1 DEF ResizeCheck
<1>2. CASE Rebuild \/ Render \/ Idle \/ Winch
  BY <1>2 DEF Rebuild, Render, Idle, Winch
<1>3. CASE Unblock \/ QuitSmall \/ Ended
  BY <1>3 DEF Unblock, QuitSmall, Ended, vars
<1>4. CASE InfoClose \/ InfoOpen
  BY <1>4 DEF InfoClose, InfoOpen, PaneKey, Handled
<1>5. CASE FocusShell \/ FocusFiles \/ FocusNext \/ FocusPrev
  BY <1>5 DEF FocusShell, FocusFiles, FocusNext, FocusPrev, Focus, PaneKey, Handled
<1>6. CASE QuickshellCancel \/ AnswerYes \/ AnswerNo
  BY <1>6 DEF QuickshellCancel, AnswerYes, AnswerNo, Execute, Asked, Handled
<1>7. ASSUME NEW outcome \in Outcomes, QuickshellExecute(outcome)
      PROVE  OverlayHasTheKeys'
  BY <1>7 DEF QuickshellExecute, Execute, Asked, Outcomes
<1>8. ASSUME NEW outcome \in Outcomes, ShellEnter(outcome)
      PROVE  OverlayHasTheKeys'
  BY <1>8 DEF ShellEnter, Execute, Asked, Outcomes
<1>9. CASE PreviewClose \/ PreviewQuickshell
  BY <1>9 DEF PreviewClose, PreviewQuickshell, Handled
<1>10. CASE CommandKey
  BY <1>10 DEF CommandKey, InFiles, Handled
<1>11. CASE FilesCommand
  BY <1>11 DEF FilesCommand, FilesKey, InFiles
<1>12. CASE FilesBlock
  BY <1>12 DEF FilesBlock, FilesKey, InFiles, Blocks
<1>13. CASE VisualToggle \/ PreviewToggle
  BY <1>13 DEF VisualToggle, PreviewToggle, FilesKey, InFiles, Handled
<1>14. CASE GotoBegin \/ RenameBegin \/ QuickshellBegin \/ OverlayEnd
  BY <1>14 DEF GotoBegin, RenameBegin, QuickshellBegin, OverlayEnd,
           FilesKey, InFiles, Handled
<1>15. CASE UNCHANGED vars
  BY <1>15 DEF vars
<1> QED BY <1>1, <1>2, <1>3, <1>4, <1>5, <1>6, <1>7, <1>8, <1>9, <1>10, <1>11,
           <1>12, <1>13, <1>14, <1>15
           DEF Next, Loop

\* The help remembers a pane, never itself: F1 does nothing more while it is
\* open.
LEMMA InfoRemembersPaneStep ==
  ASSUME TypeOK, InfoRemembersPane, [Next]_vars
  PROVE  InfoRemembersPane'
<1> USE DEF InfoRemembersPane, TypeOK, loop, panes, overlays
<1>1. CASE ResizeCheck
  BY <1>1 DEF ResizeCheck
<1>2. CASE Rebuild \/ Render \/ Idle \/ Winch
  BY <1>2 DEF Rebuild, Render, Idle, Winch
<1>3. CASE Unblock \/ QuitSmall \/ Ended
  BY <1>3 DEF Unblock, QuitSmall, Ended, vars
<1>4. CASE InfoClose \/ InfoOpen
  BY <1>4 DEF InfoClose, InfoOpen, PaneKey, Handled
<1>5. CASE FocusShell \/ FocusFiles \/ FocusNext \/ FocusPrev
  BY <1>5 DEF FocusShell, FocusFiles, FocusNext, FocusPrev, Focus, PaneKey, Handled
<1>6. CASE QuickshellCancel \/ AnswerYes \/ AnswerNo
  BY <1>6 DEF QuickshellCancel, AnswerYes, AnswerNo, Execute, Asked, Handled
<1>7. ASSUME NEW outcome \in Outcomes, QuickshellExecute(outcome)
      PROVE  InfoRemembersPane'
  BY <1>7 DEF QuickshellExecute, Execute, Asked, Outcomes
<1>8. ASSUME NEW outcome \in Outcomes, ShellEnter(outcome)
      PROVE  InfoRemembersPane'
  BY <1>8 DEF ShellEnter, Execute, Asked, Outcomes
<1>9. CASE PreviewClose \/ PreviewQuickshell
  BY <1>9 DEF PreviewClose, PreviewQuickshell, Handled
<1>10. CASE CommandKey
  BY <1>10 DEF CommandKey, InFiles, Handled
<1>11. CASE FilesCommand
  BY <1>11 DEF FilesCommand, FilesKey, InFiles
<1>12. CASE FilesBlock
  BY <1>12 DEF FilesBlock, FilesKey, InFiles, Blocks
<1>13. CASE VisualToggle \/ PreviewToggle
  BY <1>13 DEF VisualToggle, PreviewToggle, FilesKey, InFiles, Handled
<1>14. CASE GotoBegin \/ RenameBegin \/ QuickshellBegin \/ OverlayEnd
  BY <1>14 DEF GotoBegin, RenameBegin, QuickshellBegin, OverlayEnd,
           FilesKey, InFiles, Handled
<1>15. CASE UNCHANGED vars
  BY <1>15 DEF vars
<1> QED BY <1>1, <1>2, <1>3, <1>4, <1>5, <1>6, <1>7, <1>8, <1>9, <1>10, <1>11,
           <1>12, <1>13, <1>14, <1>15
           DEF Next, Loop

\* The preview is closed from the preview, which gives the focus away, or
\* from the files pane, where the help is not open and remembers nothing.
LEMMA PreviewHasFocusStep ==
  ASSUME TypeOK, InfoRemembersPane, PreviewHasFocus, [Next]_vars
  PROVE  PreviewHasFocus'
<1> USE DEF PreviewHasFocus, TypeOK, loop, panes, overlays, InfoRemembersPane
<1>1. CASE ResizeCheck
  BY <1>1 DEF ResizeCheck
<1>2. CASE Rebuild \/ Render \/ Idle \/ Winch
  BY <1>2 DEF Rebuild, Render, Idle, Winch
<1>3. CASE Unblock \/ QuitSmall \/ Ended
  BY <1>3 DEF Unblock, QuitSmall, Ended, vars
<1>4. CASE InfoClose \/ InfoOpen
  BY <1>4 DEF InfoClose, InfoOpen, PaneKey, Handled
<1>5. CASE FocusShell \/ FocusFiles \/ FocusNext \/ FocusPrev
  BY <1>5 DEF FocusShell, FocusFiles, FocusNext, FocusPrev, Focus, PaneKey, Handled
<1>6. CASE QuickshellCancel \/ AnswerYes \/ AnswerNo
  BY <1>6 DEF QuickshellCancel, AnswerYes, AnswerNo, Execute, Asked, Handled
<1>7. ASSUME NEW outcome \in Outcomes, QuickshellExecute(outcome)
      PROVE  PreviewHasFocus'
  BY <1>7 DEF QuickshellExecute, Execute, Asked, Outcomes
<1>8. ASSUME NEW outcome \in Outcomes, ShellEnter(outcome)
      PROVE  PreviewHasFocus'
  BY <1>8 DEF ShellEnter, Execute, Asked, Outcomes
<1>9. CASE PreviewClose \/ PreviewQuickshell
  BY <1>9 DEF PreviewClose, PreviewQuickshell, Handled
<1>10. CASE CommandKey
  BY <1>10 DEF CommandKey, InFiles, Handled
<1>11. CASE FilesCommand
  BY <1>11 DEF FilesCommand, FilesKey, InFiles
<1>12. CASE FilesBlock
  BY <1>12 DEF FilesBlock, FilesKey, InFiles, Blocks
<1>13. CASE VisualToggle \/ PreviewToggle
  BY <1>13 DEF VisualToggle, PreviewToggle, FilesKey, InFiles, Handled
<1>14. CASE GotoBegin \/ RenameBegin \/ QuickshellBegin \/ OverlayEnd
  BY <1>14 DEF GotoBegin, RenameBegin, QuickshellBegin, OverlayEnd,
           FilesKey, InFiles, Handled
<1>15. CASE UNCHANGED vars
  BY <1>15 DEF vars
<1> QED BY <1>1, <1>2, <1>3, <1>4, <1>5, <1>6, <1>7, <1>8, <1>9, <1>10, <1>11,
           <1>12, <1>13, <1>14, <1>15
           DEF Next, Loop

\* The keys that open the goto and the rename line drop what was typed before
\* them, and while the line is open nothing reaches file_cmd.
LEMMA NoDigitsUnderOverlayStep ==
  ASSUME TypeOK, NoDigitsUnderOverlay, [Next]_vars
  PROVE  NoDigitsUnderOverlay'
<1> USE DEF NoDigitsUnderOverlay, TypeOK, loop, panes, overlays
<1>1. CASE ResizeCheck
  BY <1>1 DEF ResizeCheck
<1>2. CASE Rebuild \/ Render \/ Idle \/ Winch
  BY <1>2 DEF Rebuild, Render, Idle, Winch
<1>3. CASE Unblock \/ QuitSmall \/ Ended
  BY <1>3 DEF Unblock, QuitSmall, Ended, vars
<1>4. CASE InfoClose \/ InfoOpen
  BY <1>4 DEF InfoClose, InfoOpen, PaneKey, Handled
<1>5. CASE FocusShell \/ FocusFiles \/ FocusNext \/ FocusPrev
  BY <1>5 DEF FocusShell, FocusFiles, FocusNext, FocusPrev, Focus, PaneKey, Handled
<1>6. CASE QuickshellCancel \/ AnswerYes \/ AnswerNo
  BY <1>6 DEF QuickshellCancel, AnswerYes, AnswerNo, Execute, Asked, Handled
<1>7. ASSUME NEW outcome \in Outcomes, QuickshellExecute(outcome)
      PROVE  NoDigitsUnderOverlay'
  BY <1>7 DEF QuickshellExecute, Execute, Asked, Outcomes
<1>8. ASSUME NEW outcome \in Outcomes, ShellEnter(outcome)
      PROVE  NoDigitsUnderOverlay'
  BY <1>8 DEF ShellEnter, Execute, Asked, Outcomes
<1>9. CASE PreviewClose \/ PreviewQuickshell
  BY <1>9 DEF PreviewClose, PreviewQuickshell, Handled
<1>10. CASE CommandKey
  BY <1>10 DEF CommandKey, InFiles, Handled
<1>11. CASE FilesCommand
  BY <1>11 DEF FilesCommand, FilesKey, InFiles
<1>12. CASE FilesBlock
  BY <1>12 DEF FilesBlock, FilesKey, InFiles, Blocks
<1>13. CASE VisualToggle \/ PreviewToggle
  BY <1>13 DEF VisualToggle, PreviewToggle, FilesKey, InFiles, Handled
<1>14. CASE GotoBegin \/ RenameBegin \/ QuickshellBegin \/ OverlayEnd
  BY <1>14 DEF GotoBegin, RenameBegin, QuickshellBegin, OverlayEnd,
           FilesKey, InFiles, Handled
<1>15. CASE UNCHANGED vars
  BY <1>15 DEF vars
<1> QED BY <1>1, <1>2, <1>3, <1>4, <1>5, <1>6, <1>7, <1>8, <1>9, <1>10, <1>11,
           <1>12, <1>13, <1>14, <1>15
           DEF Next, Loop

\* The flag is lowered before the size is read.
LEMMA NoLostResizeStep ==
  ASSUME TypeOK, NoLostResize, [Next]_vars
  PROVE  NoLostResize'
<1> USE DEF NoLostResize, TypeOK, loop, panes, overlays
<1>1. CASE ResizeCheck
  BY <1>1 DEF ResizeCheck
<1>2. CASE Rebuild \/ Render \/ Idle \/ Winch
  BY <1>2 DEF Rebuild, Render, Idle, Winch
<1>3. CASE Unblock \/ QuitSmall \/ Ended
  BY <1>3 DEF Unblock, QuitSmall, Ended, vars
<1>4. CASE InfoClose \/ InfoOpen
  BY <1>4 DEF InfoClose, InfoOpen, PaneKey, Handled
<1>5. CASE FocusShell \/ FocusFiles \/ FocusNext \/ FocusPrev
  BY <1>5 DEF FocusShell, FocusFiles, FocusNext, FocusPrev, Focus, PaneKey, Handled
<1>6. CASE QuickshellCancel \/ AnswerYes \/ AnswerNo
  BY <1>6 DEF QuickshellCancel, AnswerYes, AnswerNo, Execute, Asked, Handled
<1>7. ASSUME NEW outcome \in Outcomes, QuickshellExecute(outcome)
      PROVE  NoLostResize'
  BY <1>7 DEF QuickshellExecute, Execute, Asked, Outcomes
<1>8. ASSUME NEW outcome \in Outcomes, ShellEnter(outcome)
      PROVE  NoLostResize'
  BY <1>8 DEF ShellEnter, Execute, Asked, Outcomes
<1>9. CASE PreviewClose \/ PreviewQuickshell
  BY <1>9 DEF PreviewClose, PreviewQuickshell, Handled
<1>10. CASE CommandKey
  BY <1>10 DEF CommandKey, InFiles, Handled
<1>11. CASE FilesCommand
  <2>1. UNCHANGED <<term, size>> /\ pc = "getch"
    BY <1>11 DEF FilesCommand
  <2>2. needs_resize' = needs_resize \/ needs_resize' = TRUE
    BY <1>11 DEF FilesCommand
  <2>3. size # term => needs_resize
    BY <2>1
  <2> QED BY <2>1, <2>2, <2>3
<1>12. CASE FilesBlock
  BY <1>12 DEF FilesBlock, FilesKey, InFiles, Blocks
<1>13. CASE VisualToggle \/ PreviewToggle
  BY <1>13 DEF VisualToggle, PreviewToggle, FilesKey, InFiles, Handled
<1>14. CASE GotoBegin \/ RenameBegin \/ QuickshellBegin \/ OverlayEnd
  BY <1>14 DEF GotoBegin, RenameBegin, QuickshellBegin, OverlayEnd,
           FilesKey, InFiles, Handled
<1>15. CASE UNCHANGED vars
  BY <1>15 DEF vars
<1> QED BY <1>1, <1>2, <1>3, <1>4, <1>5, <1>6, <1>7, <1>8, <1>9, <1>10, <1>11,
           <1>12, <1>13, <1>14, <1>15
           DEF Next, Loop

----------------------------------------------------------------------------
\* The inductive invariant is the conjunction of what is promised.
ModesInv ==
  /\ TypeOK
  /\ OverlayHasTheKeys
  /\ InfoRemembersPane
  /\ PreviewHasFocus
  /\ NoDigitsUnderOverlay
  /\ NoLostResize

\* The modes are consistent in every reachable state.
THEOREM ModesAlwaysConsistent == Spec => []ModesInv
<1>1. Init => ModesInv
  BY DEF Init, ModesInv, TypeOK, OverlayHasTheKeys, InfoRemembersPane, PreviewHasFocus,
         NoDigitsUnderOverlay, NoLostResize, Panes, Sizes
<1>2. ModesInv /\ [Next]_vars => ModesInv'
  BY TypeOKStep, OverlayHasTheKeysStep, InfoRemembersPaneStep, PreviewHasFocusStep,
     NoDigitsUnderOverlayStep, NoLostResizeStep
     DEF ModesInv
<1> QED BY <1>1, <1>2, PTL DEF Spec

\* Type correctness of the modes.
THEOREM TypeCorrect == Spec => []TypeOK
<1>1. ModesInv => TypeOK
  BY DEF ModesInv
<1> QED BY <1>1, ModesAlwaysConsistent, PTL

\* An open line is in the pane whose handler feeds it.
THEOREM OverlayAlwaysHasTheKeys == Spec => []OverlayHasTheKeys
<1>1. ModesInv => OverlayHasTheKeys
  BY DEF ModesInv
<1> QED BY <1>1, ModesAlwaysConsistent, PTL

\* Closing the help leads to a pane that is there.
THEOREM InfoAlwaysRemembersPane == Spec => []InfoRemembersPane
<1>1. ModesInv => InfoRemembersPane
  BY DEF ModesInv
<1> QED BY <1>1, ModesAlwaysConsistent, PTL

\* The focus is never on a preview that is not shown.
THEOREM PreviewAlwaysShown == Spec => []PreviewHasFocus
<1>1. ModesInv => PreviewHasFocus
  BY DEF ModesInv
<1> QED BY <1>1, ModesAlwaysConsistent, PTL

\* No index or dot typed before is left when the goto or rename line opens.
THEOREM DigitsAlwaysGone == Spec => []NoDigitsUnderOverlay
<1>1. ModesInv => NoDigitsUnderOverlay
  BY DEF ModesInv
<1> QED BY <1>1, ModesAlwaysConsistent, PTL

\* A size not yet seen is flagged, or about to be read.
THEOREM ResizeNeverLost == Spec => []NoLostResize
<1>1. ModesInv => NoLostResize
  BY DEF ModesInv
<1> QED BY <1>1, ModesAlwaysConsistent, PTL

----------------------------------------------------------------------------
\* The question before an rm is raised where it can be answered.
THEOREM AlwaysAskedInTheShell == Spec => AskedInTheShell
<1> DEFINE A == ~rm_confirm_mode /\ rm_confirm_mode' => active_buffer' = "SHELL"
<1>1. ModesInv /\ [Next]_vars => [A]_vars
  <2> SUFFICES ASSUME ModesInv, Next, ~rm_confirm_mode, rm_confirm_mode'
               PROVE  active_buffer' = "SHELL"
    BY DEF vars, loop, panes, overlays
  <2>1. \/ \E outcome \in Outcomes : QuickshellExecute(outcome) \/ ShellEnter(outcome)
        \/ AnswerYes
    BY DEF Next, Loop, ResizeCheck, Rebuild, Render, Idle, Winch, Unblock, QuitSmall, Ended,
           InfoClose, InfoOpen, FocusShell, FocusFiles, FocusNext, FocusPrev, Focus,
           QuickshellCancel, AnswerNo, PreviewClose, PreviewQuickshell, CommandKey,
           FilesCommand, FilesBlock, VisualToggle, PreviewToggle, GotoBegin, RenameBegin,
           QuickshellBegin, OverlayEnd, vars, PaneKey, Handled
  <2>2. ~AnswerYes
    BY DEF AnswerYes
  <2>3. ASSUME NEW outcome \in Outcomes, QuickshellExecute(outcome)
        PROVE  active_buffer' = "SHELL"
    BY <2>3 DEF QuickshellExecute, Execute, Asked, Outcomes
  <2>4. ASSUME NEW outcome \in Outcomes, ShellEnter(outcome)
        PROVE  active_buffer' = "SHELL"
    BY <2>4 DEF ShellEnter, panes
  <2> QED BY <2>1, <2>2, <2>3, <2>4
<1>2. QED
  BY <1>1, ModesAlwaysConsistent, PTL DEF Spec, AskedInTheShell
============================================================================
