# quickfish in TLA+

quickfish is a terminal file manager: a files pane with vim motions over a
listing of the current directory, a shell pane below it, an optional preview,
selection, a move register, trash, undo and redo. It is one process with one
thread; what is hard in it is not parallelism but *state that is kept twice*
(positions and names, a count and the flags it counts, two stacks and the
history they stand for, the text of a command and what it was resolved to), and
a world that changes between two key presses: other processes, signals, and the
user himself, who need not do the next thing the program expects.

Line numbers are those of the files under `src/`.

## The system

| Component | State | Operations | Hard part |
|---|---|---|---|
| Undo history (`file.c`) | `undo_stack`, `redo_stack`, `move_batch_id` | `push_undo`, `files_undo`, `files_redo`, pushes of rename, trash, delete, paste | eviction at `UNDO_MAX`, batches recognised by comparing ids of neighbours, operations dropped when the other stack is full |
| File operations (`file.c`, `tui.c`) | the files, the listing, `move_reg` | rename, trash, delete, mark, mark all, clear, paste, undo, redo | the listing and the register are old when used, results of `rename(2)` are ignored, name collisions, partial failure of a paste |
| Files buffer (`file.c`) | `entries`, `selected`, `multi_sel`, `sel_count`, `in_move_reg`, `visual_mode` | load, refresh, change directory, cursor keys, toggles, sweeps | everything points into the listing by index and the listing is replaced under it |
| TUI (`tui.c`, `main.c`) | focus, overlays, help, preview, pending digits, resize flag | the main loop, the dispatch of keys, popups, SIGWINCH | independent flags that must agree, a signal between any two steps, handlers that block |
| Shell, remove (`shell.c`) | `rm_confirm_mode`, `rm_pending_cmd` | the two phases of `r` and `rm`, the answer | the command is resolved twice, and anything may happen in between |
| Shell, line and history (`shell.c`, `tui.c`) | `current_input`, `input_pos`, `history`, `history_index`, `goto_buf` | editing keys, Up and Down, Tab, ghost text | four panes' worth of code write to the one line; eviction and repeats in the history; completion written three times |
| Shell, jumplist and cd (`shell.c`, `tui.c`) | `cwd`, `dir_jumplist` | push, `..`, `cd`, numbers, goto, h, l | three pieces of code move and push, each with its own test; links; directories that vanish |
| Preview (`tui.c`) | `preview_scroll`, `preview_last_selected`, the bat cache | render, scroll keys | caches keyed by index or path only, a scroll nothing bounds but the next frame |
| Pane layout (`file.c`) | `col_offset` | the column arithmetic of `files_render` | drawing changes state; an offset is saved and brought back over other listings and sizes |
| Shell, running commands (`shell.c`) | `last_output` | `run_shell`, `do_spawn` | output longer than the buffer |

The TUI owns the files buffer and the shell buffer and calls into both; the
shell calls the files buffer (`cd`, `sel`, indices), and both change the same
files through the kernel and through `system(3)`. Nothing is persisted, so
there is no recovery to model: a crash loses the history and nothing else.

## Modules

    UndoHistory --- MCUndoHistory            Navigation --- MCNavigation
        |   \                                    |    \
        |    UndoHistory_proofs                Panes    Navigation_proofs
        |          |                             |  \        |
    FileOps --- FileOps_proofs               MCPanes  Panes_proofs
     |  |  \
     |  |   MCFileOps                        FilesBuffer --- MCFilesBuffer
     |  Timeline                                 |
    FileSystem                               FilesBuffer_proofs

    ShellLine --- MCShellLine                RmConfirm --- MCRmConfirm
        |                                        |
    ShellLine_proofs                         RmConfirm_proofs

    TuiModes --- TuiModes_proofs

**UndoHistory** is the stack discipline alone. `undo_top` and `redo_top` are
the lengths of two sequences; what an operation carries is an opaque `item`.
One action is one call with all of its pushes or pops, because nothing runs
between them: `Record` (rename, trash, delete), `Paste`, `Undo(k)` and
`Redo(k)`, where `k` is the length of the group the `do ... while` takes.

**FileSystem** is the part of the operating system the code uses, taken from
its calls: `rename(2)`, and `mv`, `rm` and `mkdir -p` under `system(3)`. A file
system is a function from existing paths to a content or `Dir`. The doubled
slash that `path_join` produces at the root is kept, since the code compares
strings. It is external and has no state of its own.

**FileOps** is the operations on such a file system, with the stacks of
UndoHistory instantiated on the same variables (`H`): every operation of
FileOps that records is a conjunction with the action of UndoHistory, so every
behaviour of the stacks in FileOps is one of UndoHistory. The listing is a
snapshot; `ForeignRemove` and `ForeignCreate` change the files under it. A
popup that asks for confirmation is not a separate step: all it adds is time,
in which the foreign actions happen anyway. A name is a first letter and the
times it was stamped with in the trash, so that the trash can hold the same name
any number of times; `Letters` gives the order of the letters, `NameBefore` is
`strcasecmp` on such names and `InOrder` puts a set into that order by counting
what comes before. A path of the register is as `path_join` spelled it
(`Written`), with the slash doubled or not. `Undone` is the loop of `files_undo`.

**Timeline** is what undo and redo promise: the states of the files form a
line with a cursor. FileOps implements it under the mapping `behind` = the
states reached by reverting the groups of the undo stack one after the other,
`ahead` = those reached by reapplying the groups of the redo stack.

**FilesBuffer** is the listing with the cursor, the selection, its count, the
move flags and the visual mode. What the operations do to the files is reduced
to names appearing in and vanishing from directories; what each handler does
with the indices afterwards is modelled in full (`Load`, `Reload`, the sweep,
the toggles, `return_to`). `Sorted` is `files_sort_entries`, with
numbers for names. `selected` may be -1 and then `multi_sel[-1]` is the
word before the array: the index -1 of `multi_sel` stands for it. `Announced` is
what the delete dialog says it is about to remove, `Targets` what it removes.

**TuiModes** is the main loop, as resize check, rebuild, render and getch with
its handler, and the modes that decide where a key goes. SIGWINCH is an action
enabled at any point. Text is abstracted away, except the digits and dots
before a command. `execute_given` appears by its outcome: quit, an rm, an
external program that blocks, anything else.

**RmConfirm** is `r` and `rm`: both phases, the answer, and what can happen
in between. A command is a verb and words, and a word an index, names, `sel`, or a
pattern. Both phases begin where `execute_given` does: `Expanded` puts the
selection in the place of `sel`, if there is one, and the second phase does so
with the text the first kept. `Hits` is the scan, which the first phase leaves when the
question is full (`Shown`, `ListMax`) and the second does not (`Targets`). An
entry has the type it had when it was listed, by which the code chooses `rm`
or `rm -rf`; `Left` are the entries that plain `rm` then refuses. `Literal` is
what the text removes when it is left to the user's shell, where there is no
command `r`. `asked` (the paths the question listed) and `strayed` (the listing
was loaded again since) are ghosts that no action reads.

**Navigation** is where the user is and the way back. A place is a pair of a
directory and a jumplist; `Tracked` and `Changed` are the two ways the TUI moves
and pushes, `ShellGo` is that of the shell, which pushes always. A path is one
spelling and `Real` says where it leads, so links, dots and doubled slashes are
paths of their own. Which real paths exist changes between any two steps;
nothing looks again before it goes back to a directory that is gone.

**Panes** adds to Navigation the cursor, the column offset, the preview and its
scroll and cache, and the size of the terminal; it EXTENDS it and conjoins its
actions. A `Frame` is a pass of the main loop up to `getch` without a key, and
is where `files_render` and `preview_render` clamp what the keys moved. `phase`
says whether anything happened since the last frame; `title` and `preview` are
what the frame shows and are forgotten by the next event. The cursor is
`Adrift` on -1 when a refresh filled a directory in which half a page down was
pressed while it was empty; the path the preview then reads is never set, so it
may be any in every frame (`PreviewStray`).

**ShellLine** is the line of the shell pane and all that writes to it: the
editing keys, the history, completion (`complete_in_dir`, as a function of the
names in a directory, `Inside`, in any order readdir gives them), the pending question,
and the quickshell, which borrows the line. The completion of the goto line is
the same and in here too. `ran` and `touched` are ghosts that no action reads. `Age(line)` is how far back
from the newest an entry of the history is, and the history is the end of what ran at the
places `Fresh(ran)`, those that do not repeat the one before.

### Correspondence

`map` in `PROJECT.json` gives the lines of every definition. Names of variables
are those of the struct fields; names of actions are those of the functions,
without prefix where the module says it. Definitions that no action uses and
that state a deliberate mistake (`PushKeepingRedo`, `SweepTwice`, ...) stand
before the definition they vary: each is a bug the named property is there to
catch, and each was seen to be caught.

## Model checking

All runs explore their whole state space. Deadlock is checked except in the
FileOps runs, where the bounds on commands really end the behaviour.

| Run | Question | Bounds and why they are enough |
|---|---|---|
| `undo_history` | Do the stacks keep the history? | Three slots, calls of up to two entries, three pastes: evictions, a batch half evicted, two batches next to each other, and walks over the whole history all occur; two payloads so that order shows |
| `fileops_timeline` | Do rename, paste, undo and redo implement Timeline? | A stack of two with three commands, so that the oldest state is forgotten; one place is the root, so that doubled slashes occur; one tick of the clock |
| `fileops_foreign` | What do stale listings and registers break, and does every undo lead back while nobody else is there? | Two commands of any kind, one foreign change at any point, register of two, no eviction; two files of one name so that the second trash collides |
| `files_buffer` | Do the indices stay in step with the listing? | Two directories, three names, three changes; half a page is two, so that it goes past either end of the listing; register of two so that it fills |
| `tui_modes` | Do the flags agree, is a resize seen? | None: the state space is finite |
| `rm_confirm` | Is a yes what the question said? | Two directories with different files and a directory, each file of which may become the other kind; `r`, `rm` and `rm -r` with an index, a name, both, a name with a blank, `sel` with any selection, and a name with a pattern; a question of two entries, which fills; one foreign change (with two nothing new shows and the run takes longer) |
| `navigation` | Is every move on the way back? | Three directories in a line, a link to the lowest, a file, another spelling and a path that is never there; every set of them that vanishes; a list of three, which fills |
| `panes` | What does a frame show, what does it change? | Rows of two and three, one to three columns, a terminal that is too small; listings of zero to four entries, one that is empty with the cursor on -1 and filled again included; files of zero to four lines, a file without text; a jumplist of one, since Navigation has its own run |
| `shell_line` | Is the line what the history, Tab and the ghost say? | Lines of up to four of three characters, history of two, three commands run; a directory with two names that agree but for case, one beside a name it begins, a hidden name, names in the root |

What they show:

* **History.** The two stacks together never hold more than `UNDO_MAX`
  operations (`StacksFit`), which is why the guards that would silently drop
  an operation never do, and why walking with `u` and `U` keeps the history
  (`HistoryKept`). Batches stay whole (`BatchNotSplit`), are never merged
  (`BatchesOrdered`) and one `u` takes back one paste (`PasteIsOneGroup`).
* **Files.** With the user alone rename, trash and move can be undone to exactly
  the earlier states (`UndoableWhenAlone`; not past a permanent delete or a
  rename onto a file) and
  rename and move form a line of states (`FollowsTimeline`). With other
  processes a paste still loses nothing (`PasteLosesNothing`), and a path
  leaves the register only when it is accounted for (`PasteAccountsForAll`); and
  if nothing happens in between, undoing a paste that fits the stack, or a rename
  to a name that was free, restores every path (`UndoRestores`). Of an undo
  after another process took the name nothing is claimed: the code replaces its file.
* **Indices.** The cursor is on an entry, 0 or -1, and only half a page down
  in an empty directory makes it -1. The count is the number of marks, a
  selection never survives its listing, and the flags are those of the register.
  The delete dialog says what will be removed, except that with one entry
  selected it names the one under the cursor (`DialogTellsTargets`).
* **Moves.** Whatever key leaves a directory, it is the next on the list, and
  `..` pressed to the end leads to where the program was started, since a full
  list drops the newest (`MoveRecorded`, `WayBackToStart`).
* **Frames.** The column of the cursor is always drawn. With the cursor on an
  entry the preview is of that entry, and it is never scrolled past its end. The count in the title
  can be wrong for one frame, because it is computed before the offset is
  clamped, and is right in the next (`TitleRightWhenIdle`); otherwise a second
  frame changes nothing (`FrameSettles`), but for a preview with the cursor on -1.
* **Line.** What was recalled and not touched is the entry the index stands for,
  the history is the end of what ran, whichever pane it ran from. Tab keeps what stands before the cursor and adds
  what all candidates agree in, and the ghost of the shell pane shows just that
  (in the quickshell, where Tab does nothing, it is not claimed); what stands
  after the cursor Tab drops (`shell.c:226`). Excepted is a
  token with a slash in front only, which Tab replaces by a name of the current
  directory (`shell.c:219`).
* **Modes.** An open line has the keys, the help returns to a pane that is
  there, the focus is not on a hidden preview, no digit survives into a line,
  an rm asked from the quickshell moves the focus to where it is answered, and
  from the main loop on no resize is lost. (The handler is installed at the end of
  `tui_init`, `tui.c:325`, after the size was read at `tui.c:302`; a signal in
  between goes unseen until the next one.)
* **Remove.** A yes given with no reload since the question removes all that was
  listed (`YesRemovesAllAsked`), but for a file that is a directory by now, which
  the `rm` chosen by its old type refuses, and for an entry spelled `sel` if
  something was selected meanwhile. It removes nothing else
  (`YesRemovesOnlyAsked`) if the question had room for all and `sel` in the text
  has not come to stand for a selection, whatever other processes did. Both conditions are
  needed. `sel` in a question asked with nothing selected stands for what is
  selected when it is answered: type `rm 1 sel`, select another entry, answer y,
  and it is removed too (`shell.c:442`). And the scan stops without a word when the
  question is full, while the yes removes the entries after that as well
  (`shell.c:603`). The run reaches both cases; with either condition left out of
  the property TLC finds it violated.

Three runs show where the code does not do what it says:

* `rename_onto_existing`: `rename_commit` replaces a file of the new name and
  records an operation whose undo does not bring it back (`tui.c:1349`, against
  `docs/keybinds.md:23`).
* `rm_over_pending`: with a question pending the user can leave the shell pane
  and type another rm in the quickshell, which is taken for the confirmed one;
  or go to another directory first, where the yes is about entries that were
  never listed (`shell.c:656`, against the comment at `shell.c:596`).
* `rm_pattern`: the first phase splits at blanks even within quotes, and when no
  piece is the name or index of an entry the command runs at once: `rm sel` on a
  file whose name has a blank, a glob, a path (`shell.c:723`, against the comment
  at `shell.c:596`). `r` goes the same way, but there is no such command.

Other things the models have because the code does, and the properties put
bounds to: a paste of more entries than `UNDO_MAX` evicts its own first
operations, and one undo takes back what is left of it (`file.c:788`,
`PasteIsOneGroup`); Ctrl+D in an empty directory leaves the cursor on -1, and
nothing else does (`file.c:188`, `CursorLostOnlyByPaging`); if a refresh finds
files there, the cursor stays on -1 and an open preview reads `entries[-1]` and a
path nobody set (`tui.c:829`), so that `PreviewIsOfCursor` speaks of a cursor on an
entry only; a refused question
clears the line but not the place in the history (`tui.c:1932`); without bat the
preview of a file starts at its first line however far it is scrolled, although
the comment says "Respects tui->preview_scroll" (`tui.c:667`); with bat, a file
that gives no output is passed to bat again by every frame (`tui.c:714`).

### Fairness

Only TuiModes states any, `WF_vars(Loop)`: the steps of the loop that wait for
nobody. They are scheduled because the process is, and `getch` returns within
50 ms (`timeout(50)`, `tui.c:257`). No key is ever assumed to be pressed and no
popup answered, so `ResizeShown` promises a redraw only while no popup or
external program holds the loop.

## Proofs

TLAPS checks, for every value of the constants that the modules' assumptions allow:

* **UndoHistory_proofs**, from `BoundsAssumption` only (`UndoMax` and `MaxItems`
  positive). `Fits` (types and `StacksFit`) is inductive: a push empties redo,
  a walk moves `k` operations from one stack to the other, so their sum never
  grows past `UndoMax`; hence `Capped` never cuts and both walks keep the line
  `undo_stack \o Reverse(redo_stack)` (`UndoKeepsLine`, `RedoKeepsLine`), which
  is `HistoryAlwaysKept`. Batches need more: `BatchNotSplit` alone is not
  inductive, because a walk by a whole group only separates different batches
  if equal ids are next to each other. `IInv` adds `BatchesOrdered`: ids grow
  along the line and stay within the counter. From it follow
  `BatchesAlwaysOrdered`, `BatchNeverSplit` and `PasteAlwaysOneGroup`.
* **TuiModes_proofs**, from no assumption. `ModesInv` is the conjunction of the
  type invariant and the five invariants of the run. Given the types each is
  inductive alone except `PreviewHasFocus`, which needs `InfoRemembersPane`: the
  preview is closed from the files pane only when the help is not open over it.
  `AskedInTheShell` is proved as an action property.
* **RmConfirm_proofs**, from `RmConfirmAssumption`. The inductive invariant is
  `Typed` (types of the files, and the text kept is a command),
  `QuestionIsCurrent` (as long as nothing was loaded again, what was asked is
  what the scan of the text kept would list now) and `AskedSomething` (a
  question that has not strayed is about at least one entry; a question about
  nothing would let the second phase leave the command to the shell,
  shell.c:723). The second phase works on that text with `sel` expanded again:
  `HitsKept` says that it still refers to all it referred to, but for the entry
  spelled `sel`, from which `YesAlwaysRemovesAll` follows with the exception of
  what plain `rm` refuses. If the text says the same and the question had
  room for all, what the second phase takes is what the question listed
  (`YesAlwaysRemovesOnly`).
* **Navigation_proofs**, from `NavigationAssumption` (`Real` leads to a path that
  leads to itself, the root is its own parent, `Sorted` gives a sequence of
  paths). `WayBackToStart` is inductive with the types: a push leaves the first
  element alone unless the list was empty, and then pushes where the user was,
  which was the start; `Front` of a list of one leads back to it. For
  `MoveRecorded` each way of moving is shown to record (`Recorded`), and the two
  moves of goto one after the other.
* **Panes_proofs**, from `PanesAssumption` too. `PanesNavigate`: every step of
  Panes is a step of Navigation or leaves it alone, so what is proved of
  Navigation holds of Panes (`PanesWayBack`). `CursorTyped` is inductive given
  the types of Navigation: the cursor is below the number of entries if there are any, the scroll
  a natural number. On -1 the column is 0, as C rounds, so that the clamps hold there too. It is what makes the clamps work: `ClampedType` says that a
  clamped offset has the cursor's column among those drawn, `ScrolledType` that a
  clamped scroll leaves no row empty that could be used. `Shown`, the three
  invariants, then holds after every frame, and an event forgets the frame.

  `FrameSettles` and `TitleRightWhenIdle` need two facts kept from a frame on
  (`Settled`, `TitleSettled`): as long as nothing happened the offset is what the
  clamp would make of it again, because the cursor's column is drawn already, and
  the title is the count for it. The offset itself is a natural number (`OffsetsNat`).
* **FilesBuffer_proofs**, from `FilesBufferAssumption` (finitely many names, in
  listing order the numbers they are; one directory below the top; half a page is
  at least a line). The inductive invariant is `TypeOK`, `CursorInRange`,
  `SelectionCounted`, `FlagsMatchRegister` and `Distinct`: no name is listed
  twice. The last is why a mark changes the flag of exactly one entry, where the
  code sets just that one and looks at no other; it holds because `Sorted` of any
  set of names exists (`Sortable`). The count of marks is a cardinality that every toggle and
  every step of a sweep moves by one (`MarkCounts`, `UnmarkCounts`).
  `DialogAlwaysTells` then follows: a count of zero means no mark.
* **ShellLine_proofs**, from `ShellLineAssumption` (names have no slash and are
  not empty, what is run fits the line). The inductive invariant has the types,
  `Recalled` (a line not touched since it was recalled is the entry of its
  index), `NewestIsLastRun` (the newest entry is what ran last, which is what
  `shell_add_history` compares with) and `HistoryIsWhatRan`. For the ghost and
  Tab the work is in `Common`: it is reached, so every completion begins as the
  token does and is no longer than any candidate. `Fresh` and `Common` are
  computed over sequences of any length; what they give is proved by looking at the
  smallest place where it would fail.
* **FileOps_proofs**, from `FileOpsAssumption` (the files at the start are a
  finite tree, the register and stacks have room for one, a register is not
  larger than a listing). The inductive invariant is
  `FilesOK /\ move_reg \in Register /\ CountersOK /\ StacksNamed`. `FilesOK` says
  that the files are a finite tree under every operation, so it has a lemma per
  system call (`RenamedOK`, `MvOK`, `RemoveTreeOK`, `MkdirPOK`, ...); `Register`
  that it has no path twice (`RegisterHasNoDuplicates`), which a paste keeps
  because what stays is a selection of what was there (`KeptOK`). `StacksNamed` says that
  a rename on a stack has a name to go back from: the stacks' type alone
  allows one to the empty name, whose redo would make a path of it.
  The loops of mark all, trash, delete, paste, undo and redo are folds over
  sequences of any length; each has a lemma that gives its run, round by round,
  and `Climb` carries a fact along it. That a listing is sorted entries, each
  once, is `RankOnto`: in a finite linear order the number of those before is a
  position. From there:
  * *FileOps implements UndoHistory* (`FileOpsKeepsHistory`), step by step, so
    what UndoHistory_proofs proves of the stacks holds with real files under them
    (`FileOpsStacksFit`, `FileOpsHistoryKept`).
  * `PasteNeverLoses`: a rename to a place that is free is a bijection between the
    paths before and after with the same contents (`MovedIsAll`), and the test of
    the code for a free place makes every round one or nothing.
  * `PasteAlwaysAccounts`: what a round put into the target directory is still
    there at the end (`StaysThere`), since no later round moves the directory
    pasted into or takes anything out of it; every round keeps every path
    accounted for (`AccountedOn`); and the operation is on the stack unless the batch filled it (`BatchOnStack`).
  * `UndoAlwaysRestores`: going back from a free place gives the very same files
    (`MovedBack`), so the rounds of a paste unwind one by one from the last
    (`PasteUnwinds`), and what `u` takes is exactly these (`OneGroup`,
    `TopIsPushed`).

Induction as a rule of its own is not available (the library states it with an operator for
the property, which no prover here instantiates); where a loop or a recursion is
of any length the proofs take the smallest round or place at which the
claim would fail.

Only model-checked: `ResizeShown` (liveness under fairness); `FollowsTimeline` and
`UndoableWhenAlone`. These two compare all the states the whole stack leads
to, and hold for the instances of their runs only: with a full stack the oldest
state is forgotten, and a first trash that makes the trash directory leaves it
there when it is undone, unless it was there at the start. What
`UndoRestores` says of one step is the part that is proved for all.

## Abstractions

* Text is not modelled, except in ShellLine: names and tokens are values, `PATH_MAX` and the lengths
  of buffers never cut anything, except the question of rm (`ListMax`), and no name contains a quote (the commands run
  by `system(3)` are built with single quotes).
* `rm` and `mv` succeed when the files are there and permit it by their kind;
  permissions, full disks and several file systems are left out.
* `strcasecmp` decides the order of a listing; names that differ only in case
  have no order of their own in `qsort`, and the models have none.
* A directory that opens but cannot be read to its end, and listings of more
  than `MAX_FILES` entries, are left out.
* In FilesBuffer directories are not renamed; there is one below the root.
* Redo of a trash is not supported by the code and says so in the shell; the
  line of states is claimed for rename and move only.
* In Navigation and Panes a path keeps its kind and where it leads; only what
  exists changes. A link that leads nowhere is not counted by the preview of a
  directory, where the code lists it.
* In RmConfirm a name with a blank has no piece that is a name or an index, no name is a
  number, the word `sel` does not occur inside a quoted name, and directories
  open. A question longer than its buffer is left out: the next `snprintf` would
  write behind it, which is undefined; the model has it end exactly full.
* In Panes the focus is left out (TuiModes has it), the path nobody set with the
  cursor on -1 is any path of the model, and a file keeps its number of lines:
  a cache that is older than the file is not modelled.
* In ShellLine only the commands listed are run, `sel` is not expanded, names
  have no blanks, and the ghost text that names a command or an index is left
  out. The goto line is typed in one step.

### Not modelled

* Running commands: `run_shell` and `do_spawn` do not return before the command
  has ended, so they are single steps of the models that have their outcome. The
  text of their output, cut to `SHELL_OUTPUT_MAX`, is read by nothing.
* The stat command, opening files, drawing and colours: formatting, external
  programs and output, with no state that a handler reads.
* `edit_handle_ch`, the editor of the rename and quickshell lines: its own
  buffer and cursor only.
* Lengths of names against the sizes of buffers.

## Plan

Done: UndoHistory, FileOps on FileSystem with Timeline, FilesBuffer, TuiModes,
RmConfirm, Navigation, Panes on Navigation, ShellLine; proofs for all of them;
every property a passing run checks is a theorem but `ResizeShown`,
`FollowsTimeline` and `UndoableWhenAlone`.

1. The same as `UndoRestores` for redo, and for the undo of a trash when the trash
   directory is there.
2. From these a refinement of Timeline in the cases where it holds for all constants.
3. The lengths: the expansion of `sel`, the buffer of `run_shell`, the results
   printed by trash and delete.
