----------------------------- MODULE ShellLine -----------------------------
(***************************************************************************)
(* The line of the shell pane: the editing keys, the history, completion   *)
(* with Tab and the grey text that announces it, and what else writes to   *)
(* the line or clears it: running it, the question before an rm, the       *)
(* quickshell.  Completion of the goto line is here too, for it is the     *)
(* same.                                                                   *)
(*                                                                         *)
(* A text is a sequence of characters.  What running a command does is the *)
(* subject of Navigation, RmConfirm and FileOps; here it is only known     *)
(* which commands may ask before they run.                                 *)
(***************************************************************************)
EXTENDS Integers, Sequences, FiniteSets, SequencesExt, FiniteSetsExt

CONSTANTS Chars,      \* the characters of names and lines
          Typed,      \* those typed, for TLC
          Blank, Slash, Dot, Yes,
          Lower(_),   \* tolower
          Inside,     \* the names in a directory that opens, <<>> being cwd
          InputMax,   \* SHELL_MAX_INPUT - 1
          HistMax,    \* SHELL_MAX_HIST
          Commands,   \* the lines run, for TLC
          Questions,  \* those that may ask first: r and rm
          GotoTexts,  \* what is typed into the goto line, for TLC
          MaxRuns     \* bound on commands run, for TLC

ASSUME ShellLineAssumption ==
  /\ InputMax \in Nat \ {0} /\ HistMax \in Nat \ {0} /\ MaxRuns \in Nat
  /\ {Blank, Slash, Dot, Yes} \cup Typed \subseteq Chars
  /\ Questions \subseteq Commands
  /\ \A text \in Commands \cup GotoTexts :
       text \in Seq(Chars) /\ text # <<>> /\ Len(text) <= InputMax
  /\ \A dir \in DOMAIN Inside : \A n \in Inside[dir] :
       n \in Seq(Chars) /\ n # <<>> /\ \A i \in DOMAIN n : n[i] # Slash

VARIABLES current_input,
          input_pos,       \* how many characters are before the cursor
          history,
          history_index,   \* -1, or how far back from the newest
          rm_confirm_mode, rm_pending_cmd,
          goto_buf,        \* <<>> when the goto line is closed
          ran,             \* ghost: every command run
          touched          \* ghost: changed since it was recalled

line == <<current_input, input_pos>>
recall == <<history, history_index, ran>>
question == <<rm_confirm_mode, rm_pending_cmd>>
vars == <<line, recall, question, goto_buf, touched>>

Before == SubSeq(current_input, 1, input_pos)
After == SubSeq(current_input, input_pos + 1, Len(current_input))

----------------------------------------------------------------------------
(* Completion.                                                             *)

Agree(s, t) == Len(s) = Len(t) /\ \A i \in DOMAIN s : Lower(s[i]) = Lower(t[i])

Begins(prefix, s) == Len(prefix) <= Len(s) /\ Agree(prefix, SubSeq(s, 1, Len(prefix)))

\* The visible names in a directory that begin with prefix.
Matches(dir, prefix) ==
  {n \in IF dir \in DOMAIN Inside THEN Inside[dir] ELSE {} :
     n[1] # Dot /\ Begins(prefix, n)}

\* How much the names have in common.
Common(names) ==
  Max({k \in 0..Min({Len(n) : n \in names}) :
         \A m, n \in names : Agree(SubSeq(m, 1, k), SubSeq(n, 1, k))})

\* The first name that matches, in full.
CompletionsToFirst(dir, prefix) == Matches(dir, prefix)

\* complete_in_dir: as far as all names agree, spelled as readdir's first.
Completions(dir, prefix) ==
  LET names == Matches(dir, prefix)
  IN  {SubSeq(n, 1, Common(names)) : n \in names} \ {<<>>}

\* Where the token before the cursor starts.
TokenStart(text) == 1 + Max({0} \cup {i \in DOMAIN text : text[i] = Blank})

LastSlash(token) == Max({0} \cup {i \in DOMAIN token : token[i] = Slash})

\* Empty for a token with no slash, and for one with a slash in front only.
DirPart(token) == SubSeq(token, 1, LastSlash(token) - 1)
NamePart(token) == SubSeq(token, LastSlash(token) + 1, Len(token))

Completed(token) ==
  {IF DirPart(token) = <<>> THEN c ELSE DirPart(token) \o <<Slash>> \o c :
     c \in Completions(DirPart(token), NamePart(token))}

Cut(text) == SubSeq(text, 1, Min({Len(text), InputMax}))

\* What Tab may make of a line that has text before the cursor.
TabLines(text) ==
  LET from == TokenStart(text)
  IN  {Cut(SubSeq(text, 1, from - 1) \o t) :
         t \in Completed(SubSeq(text, from, Len(text)))}

\* A suggestion that begins with the last character typed.
GhostsFromLast(text) ==
  LET name == NamePart(text)
  IN  IF TokenStart(text) = 1 /\ LastSlash(text) > 0 /\ name # <<>>
      THEN {SubSeq(c, Len(name), Len(c)) : c \in {d \in Completions(DirPart(text), name) :
                                                   Len(d) > Len(name)}}
      ELSE {}

\* compute_ghost on a path: a name in the first token is completed.  What it
\* says of a command or an index is text of another kind and left out.
Ghosts(text) ==
  LET name == NamePart(text)
  IN  IF TokenStart(text) = 1 /\ LastSlash(text) > 0 /\ name # <<>>
      THEN {SubSeq(c, Len(name) + 1, Len(c)) : c \in {d \in Completions(DirPart(text), name) :
                                                       Len(d) > Len(name)}}
      ELSE {}

----------------------------------------------------------------------------
(* The editing keys.                                                       *)

Init ==
  /\ current_input = <<>> /\ input_pos = 0
  /\ history = <<>> /\ history_index = -1 /\ ran = <<>>
  /\ rm_confirm_mode = FALSE /\ rm_pending_cmd = <<>>
  /\ goto_buf = <<>>
  /\ touched = FALSE

\* The keys reach the shell when no other line is open.
Key == goto_buf = <<>> /\ UNCHANGED <<question, goto_buf>>

Edit(text, pos) ==
  /\ Key
  /\ current_input' = text
  /\ input_pos' = pos
  /\ touched' = TRUE
  /\ UNCHANGED recall

Insert(ch) ==
  /\ Len(current_input) < InputMax
  /\ Edit(Before \o <<ch>> \o After, input_pos + 1)

Backspace ==
  /\ input_pos > 0
  /\ Edit(SubSeq(current_input, 1, input_pos - 1) \o After, input_pos - 1)

DeleteKey ==
  /\ input_pos < Len(current_input)
  /\ Edit(Before \o SubSeq(current_input, input_pos + 2, Len(current_input)), input_pos)

\* Left, Right, Home, End
MoveCursor ==
  /\ Key
  /\ input_pos' \in {input_pos - 1, input_pos + 1, 0, Len(current_input)}
                    \cap (0..Len(current_input))
  /\ UNCHANGED <<current_input, recall, touched>>

\* Tab: what is after the cursor is lost.
Tab ==
  /\ ~rm_confirm_mode
  /\ \E text \in TabLines(Before) : Edit(text, Len(text))

----------------------------------------------------------------------------
(* The history.                                                            *)

\* A recall that leaves the cursor where it was.
RecallInPlace(i) ==
  /\ Key
  /\ history_index' = i
  /\ current_input' = IF i = -1 THEN <<>> ELSE history[Len(history) - i]
  /\ touched' = FALSE
  /\ UNCHANGED <<input_pos, history, ran>>

\* The entry i before the newest one, or an empty line.
Recall(i) ==
  /\ Key
  /\ history_index' = i
  /\ current_input' = IF i = -1 THEN <<>> ELSE history[Len(history) - i]
  /\ input_pos' = Len(current_input')
  /\ touched' = FALSE
  /\ UNCHANGED <<history, ran>>

HistoryUp == history_index < Len(history) - 1 /\ Recall(history_index + 1)
HistoryDown == history_index >= 0 /\ Recall(history_index - 1)

\* A full history that puts the command in the place of the newest.
AddedOverNewest(cmd) ==
  IF history # <<>> /\ Last(history) = cmd THEN history
  ELSE Append(IF Len(history) < HistMax THEN history ELSE Front(history), cmd)

\* shell_add_history
Added(cmd) ==
  IF history # <<>> /\ Last(history) = cmd THEN history
  ELSE Append(IF Len(history) < HistMax THEN history ELSE Tail(history), cmd)

----------------------------------------------------------------------------
(* Running a line.                                                         *)

Trimmed(text) ==
  SubSeq(text, 1, Max({0} \cup {i \in DOMAIN text : text[i] # Blank}))

\* execute_given: whatever the line held is gone.  A blank line starts a
\* shell.  With a question pending any rm is taken for the confirmed one.
Execute(text) ==
  LET cmd == Trimmed(text)
  IN  /\ current_input' = <<>> /\ input_pos' = 0 /\ history_index' = -1
      /\ touched' = FALSE
      /\ UNCHANGED goto_buf
      /\ IF cmd = <<>> THEN UNCHANGED <<history, ran, question>>
         ELSE /\ Len(ran) < MaxRuns
              /\ history' = Added(cmd)
              /\ ran' = Append(ran, cmd)
              /\ IF cmd \notin Questions THEN UNCHANGED question
                 ELSE IF rm_confirm_mode
                 THEN rm_confirm_mode' = FALSE /\ UNCHANGED rm_pending_cmd
                 ELSE \/ rm_confirm_mode' = TRUE /\ rm_pending_cmd' = cmd
                      \/ UNCHANGED question

Enter ==
  /\ goto_buf = <<>> /\ ~rm_confirm_mode
  /\ Trimmed(current_input) \in Commands \cup {<<>>}
  /\ Execute(current_input)

\* quickshell_execute, from another pane: the line being typed is gone.
Quickshell(text) == goto_buf = <<>> /\ Execute(text)

\* Enter with y, or with a recalled line that begins so
AnswerYes ==
  /\ goto_buf = <<>> /\ rm_confirm_mode
  /\ current_input # <<>> /\ Lower(current_input[1]) = Yes
  /\ Execute(rm_pending_cmd)

\* Escape, or Enter with anything else: the index into the history stays.
AnswerNo ==
  /\ goto_buf = <<>> /\ rm_confirm_mode
  /\ rm_confirm_mode' = FALSE
  /\ current_input' = <<>> /\ input_pos' = 0
  /\ touched' = TRUE
  /\ UNCHANGED <<recall, rm_pending_cmd, goto_buf>>

----------------------------------------------------------------------------
(* The goto line.                                                          *)

GotoTyped(text) ==
  /\ goto_buf = <<>>
  /\ goto_buf' = text
  /\ UNCHANGED <<line, recall, question, touched>>

\* goto_tab_complete: the whole line is one token.
GotoTab ==
  /\ goto_buf # <<>>
  /\ goto_buf' \in {Cut(t) : t \in Completed(goto_buf)}
  /\ UNCHANGED <<line, recall, question, touched>>

\* goto_confirm or goto_cancel
GotoEnd ==
  /\ goto_buf # <<>>
  /\ goto_buf' = <<>>
  /\ UNCHANGED <<line, recall, question, touched>>

Next ==
  \/ \E ch \in Typed : Insert(ch)
  \/ Backspace \/ DeleteKey \/ MoveCursor \/ Tab
  \/ HistoryUp \/ HistoryDown
  \/ Enter \/ AnswerYes \/ AnswerNo
  \/ \E text \in Commands \cup {<<Blank>>} : Quickshell(text)
  \/ \E text \in GotoTexts : GotoTyped(text)
  \/ GotoTab \/ GotoEnd

Spec == Init /\ [][Next]_vars

----------------------------------------------------------------------------
(* Properties.                                                             *)

\* The cursor and the index into the history are in range, and what was
\* recalled and not changed is the entry the index stands for: Up and Down go
\* on from what is seen, whatever ran from another pane in between.
LineInStep ==
  /\ Len(current_input) <= InputMax /\ input_pos \in 0..Len(current_input)
  /\ history_index \in -1..(Len(history) - 1)
  /\ history_index >= 0 /\ ~touched
       => current_input = history[Len(history) - history_index]

\* The runs that did not repeat the one before, and how many of them there are
\* from one on.
Fresh(runs) == {i \in DOMAIN runs : i = 1 \/ runs[i] # runs[i - 1]}
Age(runs, i) == Cardinality({k \in Fresh(runs) : k >= i})

\* The history is the end of all that was run, in order, each command
\* repeated at once counted once: nothing that ran is missing below what is
\* kept, whichever pane it was typed in (shell_add_history).
HistoryIsWhatRan ==
  /\ Len(history) = Min({Cardinality(Fresh(ran)), HistMax})
  /\ \A i \in Fresh(ran) :
       Age(ran, i) <= HistMax => history[Len(history) + 1 - Age(ran, i)] = ran[i]

\* A slash in front and no other: the directory part is empty, so the name is
\* looked for in cwd and the slash is lost (shell.c:206, tui.c:1287).
InRoot(token) == LastSlash(token) = 1

\* Completing old to new keeps every character typed, but for its case, and
\* excludes no name that was meant so far.
Extends(old, new) ==
  /\ Begins(old, new)
  /\ Matches(DirPart(new), NamePart(new)) = Matches(DirPart(old), NamePart(old))

\* Tab in the shell and in the goto line keeps what stands before the cursor
\* and adds to it only what all candidates have in common (complete_in_dir
\* cuts the first name down to that as it reads on).  What stands after the
\* cursor is dropped (shell.c:226).
TabKeepsCandidates ==
  [][/\ Tab => LET from == TokenStart(Before)
                   token == SubSeq(Before, from, input_pos)
                   tail == SubSeq(current_input', from, Len(current_input'))
               IN  /\ SubSeq(current_input', 1, from - 1) = SubSeq(Before, 1, from - 1)
                   /\ InRoot(token) \/ Extends(token, tail)
     /\ GotoTab => InRoot(goto_buf) \/ Extends(goto_buf, goto_buf')]_vars

\* In the shell pane the grey text after the cursor is what Tab would add, and
\* there is none where Tab would add nothing: compute_ghost and
\* shell_tab_complete take the line apart each for itself.
GhostIsWhatTabAdds ==
  TokenStart(Before) = 1 /\ LastSlash(Before) > 1 /\ NamePart(Before) # <<>>
    => \A new \in TabLines(Before) :
         IF Ghosts(Before) = {} THEN Agree(new, Before)
         ELSE \A ghost \in Ghosts(Before) : Agree(new, Cut(Before \o ghost))

=============================================================================
