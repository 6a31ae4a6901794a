----------------------------- MODULE RmConfirm -----------------------------
(***************************************************************************)
(* The two phases of r and rm in the shell (execute_given) and the         *)
(* question between them: the first lists the targets and keeps the text   *)
(* of the command, the second resolves that text again, against what is    *)
(* then listed and, for the word sel, selected.  The question is answered  *)
(* in the shell pane; nothing makes the user answer it before doing        *)
(* something else.                                                         *)
(*                                                                         *)
(* Names are numbers in alphabetical order.  A directory of the file       *)
(* system is a function from the names in it to what they are; the listing *)
(* keeps both as they were when it was loaded.                             *)
(***************************************************************************)
EXTENDS Naturals, Sequences, FiniteSets, SequencesExt

CONSTANTS Dirs, Names,
          SelName,    \* the name that is spelled sel
          Blanks,     \* names with a blank in them
          InitDisk,   \* what each directory holds at the start
          Commands,   \* the rm commands typed
          ListMax,    \* how many names fit the question
          MaxChanges  \* bound on changes by other processes, for TLC

Kinds == {"FILE", "DIR"}
Contents == UNION {[names -> Kinds] : names \in SUBSET Names}

(***************************************************************************)
(* A word is an index, quoted names (what the bare word sel is replaced by *)
(* when something is selected, or one name, quoted or no number), sel      *)
(* itself, or a pattern: a glob or a path, no entry's name to the scan but *)
(* standing for names when the shell runs it.                              *)
(***************************************************************************)
Words == ({"index"} \X (Nat \ {0})) \cup ({"names"} \X SUBSET Names)
           \cup {<<"sel">>} \cup ({"pattern"} \X SUBSET Names)

ASSUME RmConfirmAssumption ==
  /\ Names \subseteq Nat /\ IsFiniteSet(Names)
  /\ SelName \in Nat \ Blanks /\ Blanks \subseteq Names
  /\ InitDisk \in [Dirs -> Contents]
  /\ Commands \subseteq [verb : {"r", "rm", "rm -r"}, words : Seq(Words) \ {<<>>}]
  /\ ListMax \in Nat \ {0} /\ MaxChanges \in Nat

VARIABLES disk, cwd, active_buffer,
          entries,          \* [name, type], the directories first
          selection,        \* multi_sel: the names selected
          rm_confirm_mode,
          rm_pending_cmd,   \* the command kept
          asked,            \* the paths the question listed
          strayed,          \* ghost: the listing was reloaded since
          changes

buffer == <<cwd, entries, selection>>
question == <<rm_confirm_mode, rm_pending_cmd, asked, strayed>>
vars == <<disk, buffer, active_buffer, question, changes>>

Before(e, f) == IF e.type = f.type THEN e.name < f.name ELSE e.type = "DIR"

Listing(dk, dir) ==
  SetToSortSeq({[name |-> n, type |-> dk[dir][n]] : n \in DOMAIN dk[dir]}, Before)

\* files_load_directory: nothing stays selected.
Load(dir) == cwd' = dir /\ entries' = Listing(disk', dir) /\ selection' = {}

----------------------------------------------------------------------------
(* Resolving a command.                                                    *)

\* sel becomes what is selected; with nothing selected it stays a word.
Expanded(cmd) ==
  [cmd EXCEPT !.words =
     [i \in DOMAIN @ |-> IF @[i] = <<"sel">> /\ selection # {}
                         THEN <<"names", selection>> ELSE @[i]]]

\* The names a word stands for when the shell runs it.
Meaning(word) ==
  CASE word[1] \in {"names", "pattern"} -> word[2]
    [] word[1] = "sel" -> {SelName}
    [] word[1] = "index" -> {}

\* Those the scan finds in it: no pattern, and a quoted name with a blank is
\* broken in two.
Spelled(word) == IF word[1] = "pattern" THEN {} ELSE Meaning(word) \ Blanks

\* Which word refers to which entry.
Hits(cmd) ==
  {hit \in (DOMAIN cmd.words) \X (DOMAIN entries) :
     LET word == cmd.words[hit[1]]
     IN  IF word[1] = "index" THEN word[2] = hit[2]
         ELSE entries[hit[2]].name \in Spelled(word)}

Targets(cmd) == {entries[hit[2]] : hit \in Hits(cmd)}

\* The scan of the first phase ends when the question is full.
Room(hits) == Cardinality(hits) < ListMax

Shown(cmd) ==
  {hit \in Hits(cmd) :
     Room({h \in Hits(cmd) : h[1] < hit[1] \/ (h[1] = hit[1] /\ h[2] < hit[2])})}

\* An index past the listing makes the first phase give up.
BadIndex(cmd) ==
  \E i \in DOMAIN cmd.words :
    /\ cmd.words[i][1] = "index" /\ cmd.words[i][2] \notin DOMAIN entries
    /\ Room({h \in Hits(cmd) : h[1] < i})

Paths(dir, names) == {dir} \X names

\* The paths the question lists.
Listed(cmd) == Paths(cwd, {entries[hit[2]].name : hit \in Shown(cmd)})

Subdirectories == {n \in DOMAIN disk[cwd] : disk[cwd][n] = "DIR"}

\* rm or rm -rf by the type listed: rm leaves what is a directory by now.
Left(target) == target.type = "FILE" /\ target.name \in Subdirectories

\* The names in the text of a command.
Meant(cmd) == UNION {Meaning(word) : word \in ToSet(cmd.words)}

\* What the text removes when the shell runs it: there is no command
\* r, and rm removes files only.
Literal(cmd) ==
  CASE cmd.verb = "r" -> {}
    [] cmd.verb = "rm" -> Meant(cmd) \ Subdirectories
    [] cmd.verb = "rm -r" -> Meant(cmd)

Unlink(names) ==
  disk' = [disk EXCEPT ![cwd] = Restrict(@, (DOMAIN @) \ names)]

Init ==
  /\ disk = InitDisk
  /\ cwd \in Dirs
  /\ entries = Listing(InitDisk, cwd) /\ selection = {}
  /\ active_buffer = "FILES"
  /\ rm_confirm_mode = FALSE
  /\ rm_pending_cmd = [verb |-> "rm", words |-> <<>>]
  /\ asked = {} /\ strayed = FALSE
  /\ changes = 0

----------------------------------------------------------------------------
(* execute_given on an rm command, sel expanded.                           *)

\* A first phase that keeps one word of the command only.
AskTruncated(cmd) ==
  /\ UNCHANGED <<disk, buffer, changes>>
  /\ ~BadIndex(cmd) /\ Shown(cmd) # {}
  /\ rm_confirm_mode' = TRUE
  /\ rm_pending_cmd' = [cmd EXCEPT !.words = <<Head(@)>>]
  /\ asked' = Listed(cmd)
  /\ strayed' = FALSE
  /\ active_buffer' = "SHELL"

\* The first phase, something listed is meant: list it and ask.
Ask(cmd) ==
  /\ UNCHANGED <<disk, buffer, changes>>
  /\ ~BadIndex(cmd) /\ Shown(cmd) # {}
  /\ rm_confirm_mode' = TRUE
  /\ rm_pending_cmd' = cmd
  /\ asked' = Listed(cmd)
  /\ strayed' = FALSE
  /\ active_buffer' = "SHELL"

\* The first phase otherwise, and the refresh after it: complain about an
\* index, or leave the command to the shell at once.
Refer(cmd) ==
  /\ \/ BadIndex(cmd) /\ UNCHANGED disk
     \/ ~BadIndex(cmd) /\ Shown(cmd) = {} /\ Unlink(Literal(cmd))
  /\ Load(cwd)
  /\ UNCHANGED <<active_buffer, question, changes>>

\* A second phase that leaves the command to the shell too.
RunFallingThrough(cmd) ==
  /\ rm_confirm_mode' = FALSE
  /\ Unlink({e.name : e \in {t \in Targets(cmd) : ~Left(t)}} \cup Literal(cmd))
  /\ Load(cwd)
  /\ UNCHANGED <<rm_pending_cmd, asked, strayed, changes>>

\* The second phase and the refresh after it: remove what the command stands
\* for now, or leave it to the shell when that is nothing.
Run(cmd) ==
  /\ rm_confirm_mode' = FALSE
  /\ Unlink(IF Targets(cmd) = {} THEN Literal(cmd)
            ELSE {e.name : e \in {t \in Targets(cmd) : ~Left(t)}})
  /\ Load(cwd)
  /\ UNCHANGED <<rm_pending_cmd, asked, strayed, changes>>

\* Enter in the shell pane, or in the quickshell with no question pending.
Type(cmd) == ~rm_confirm_mode /\ (Ask(Expanded(cmd)) \/ Refer(Expanded(cmd)))

\* An rm in the quickshell while a question is pending is taken for the
\* second phase (tui.c:1447).
TypeOver(cmd) ==
  /\ rm_confirm_mode
  /\ active_buffer = "FILES"
  /\ Run(Expanded(cmd))
  /\ UNCHANGED active_buffer

\* Enter with y: the text kept is executed like one just typed.
AnswerYes ==
  /\ rm_confirm_mode
  /\ active_buffer = "SHELL"
  /\ Run(Expanded(rm_pending_cmd))
  /\ UNCHANGED active_buffer

\* Escape, or Enter with anything else
AnswerNo ==
  /\ rm_confirm_mode
  /\ active_buffer = "SHELL"
  /\ rm_confirm_mode' = FALSE
  /\ UNCHANGED <<disk, buffer, active_buffer, rm_pending_cmd, asked, strayed, changes>>

----------------------------------------------------------------------------
(* Everything else.                                                        *)

\* J, and K or H, pending or not
Switch ==
  /\ active_buffer' = IF active_buffer = "FILES" THEN "SHELL" ELSE "FILES"
  /\ UNCHANGED <<disk, buffer, question, changes>>

\* s and visual mode; an operation on the selection ends with a Refresh.
Select(names) ==
  /\ active_buffer = "FILES"
  /\ selection' = names
  /\ UNCHANGED <<disk, cwd, entries, active_buffer, question, changes>>

\* The shell pane takes nothing but the answer.
Free == rm_confirm_mode => active_buffer = "FILES"

Reloaded ==
  /\ strayed' = rm_confirm_mode
  /\ UNCHANGED <<disk, rm_confirm_mode, rm_pending_cmd, asked, changes>>

\* Another directory: the keys of the files pane, or cd in the quickshell,
\* which ends in the shell pane while a question is pending.
Visit(dir) ==
  /\ Free
  /\ dir # cwd
  /\ Reloaded
  /\ Load(dir)
  /\ active_buffer' \in IF rm_confirm_mode THEN {"FILES", "SHELL"} ELSE {active_buffer}

\* Any command that ends with a refresh.
Refresh ==
  /\ Free
  /\ Reloaded
  /\ Load(cwd)
  /\ UNCHANGED active_buffer

\* Another process
FilesChange(dir, files) ==
  /\ changes < MaxChanges
  /\ changes' = changes + 1
  /\ disk' = [disk EXCEPT ![dir] = files]
  /\ UNCHANGED <<buffer, active_buffer, question>>

Next ==
  \/ \E cmd \in Commands : Type(cmd)
  \/ \E cmd \in Commands : TypeOver(cmd)
  \/ AnswerYes \/ AnswerNo
  \/ Switch \/ Refresh
  \/ \E names \in SUBSET {e.name : e \in ToSet(entries)} : Select(names)
  \/ \E dir \in Dirs : Visit(dir)
  \/ \E dir \in Dirs, files \in Contents : FilesChange(dir, files)

Spec == Init /\ [][Next]_vars

----------------------------------------------------------------------------
(* Properties.                                                             *)

\* What is on disk now and will not be after the step.
Removed ==
  UNION {Paths(dir, (DOMAIN disk[dir]) \ DOMAIN disk'[dir]) : dir \in Dirs}

\* The text kept is executed as the question was asked about it: the word
\* sel in it, if any, has still nothing selected to stand for.
SaysTheSame == Expanded(rm_pending_cmd) = rm_pending_cmd

\* The question had room for all that the text refers to.
ListedInFull == Shown(rm_pending_cmd) = Hits(rm_pending_cmd)

\* With the listing the question was about still there, a yes removes all
\* the question listed, whatever other processes put in its place, but for
\* a file that is a directory by now, which plain rm refuses (shell.c:691),
\* and for an entry spelled sel if something was selected meanwhile.
YesRemovesAllAsked ==
  [][AnswerYes /\ ~strayed
       => \A p \in asked : \/ p[2] \notin DOMAIN disk'[p[1]]
                           \/ \E e \in ToSet(entries) : e.name = p[2] /\ Left(e)
                           \/ p[2] = SelName /\ ~SaysTheSame]_vars

\* And it removes nothing else, whatever other processes did: no index or name
\* has come to refer to another entry, and the text is not left to the shell.
\* Both conditions are needed: sel in the text kept is expanded again, with
\* what was selected since (shell.c:442), and the scan ends when the question
\* is full but the second phase does not (shell.c:603).
YesRemovesOnlyAsked ==
  [][AnswerYes /\ ~strayed /\ SaysTheSame /\ ListedInFull => Removed \subseteq asked]_vars

\* The first phase asks before any listed entry is removed (shell.c:596).
\* Does not hold: a command with patterns only is run at once.
NothingListedGoesUnasked ==
  [][(\E cmd \in Commands : Type(cmd))
       => Removed \cap Paths(cwd, {e.name : e \in ToSet(entries)}) = {}]_vars

\* While a question is pending the shell removes nothing the question did
\* not list (shell.c:596).  Does not hold: the user may leave the question
\* unanswered and type another rm first.
RemovesWhatWasListed ==
  [][rm_confirm_mode /\ ~rm_confirm_mode' => Removed \subseteq asked]_vars

============================================================================
