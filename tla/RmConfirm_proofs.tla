-------------------------- MODULE RmConfirm_proofs --------------------------
(***************************************************************************)
(* For every set of directories, names and commands, every size of the     *)
(* question and whatever other processes do: what a yes removes of what    *)
(* the question listed, and when it removes nothing else.                  *)
(***************************************************************************)
EXTENDS RmConfirm, TLAPS

\* The question pending lists what the scan of the text kept would list now,
\* unless the listing was reloaded since.  That is the text as it was kept:
\* the second phase works on this text with sel expanded again.
QuestionIsCurrent == rm_confirm_mode /\ ~strayed => asked = Listed(rm_pending_cmd)

\* And it lists at least one entry: a question about nothing would make the
\* second phase leave the command to the shell (shell.c:723).
AskedSomething == rm_confirm_mode /\ ~strayed => Shown(rm_pending_cmd) # {}

\* A command is a verb and words, the one kept too.
IsCommand(cmd) == cmd = [verb |-> cmd.verb, words |-> cmd.words]

Typed == disk \in [Dirs -> Contents] /\ cwd \in Dirs /\ IsCommand(rm_pending_cmd)

Inv == Typed /\ QuestionIsCurrent /\ AskedSomething

----------------------------------------------------------------------------
(* Resolving.                                                              *)

\* To have sel expanded changes no word but sel.
LEMMA ExpandedWords ==
  ASSUME NEW cmd, IsCommand(cmd)
  PROVE  /\ IsCommand(Expanded(cmd))
         /\ DOMAIN Expanded(cmd).words = DOMAIN cmd.words
         /\ \A i \in DOMAIN cmd.words :
              Expanded(cmd).words[i] # cmd.words[i] => cmd.words[i] = <<"sel">>
BY DEF Expanded, IsCommand

\* What the command referred to when it was kept, it refers to with sel
\* expanded again, but for the entry spelled sel.
LEMMA HitsKept ==
  ASSUME NEW cmd, IsCommand(cmd), NEW hit \in Hits(cmd)
  PROVE  \/ hit \in Hits(Expanded(cmd))
         \/ entries[hit[2]].name = SelName /\ Expanded(cmd) # cmd
<1> DEFINE w == cmd.words[hit[1]]
<1>0. /\ hit \in (DOMAIN cmd.words) \X (DOMAIN entries)
      /\ IF w[1] = "index" THEN w[2] = hit[2] ELSE entries[hit[2]].name \in Spelled(w)
  BY DEF Hits
<1>1. CASE Expanded(cmd).words[hit[1]] = w
  BY <1>0, <1>1, ExpandedWords DEF Hits
<1>2. CASE Expanded(cmd).words[hit[1]] # w
  <2>1. w = <<"sel">>  BY <1>0, <1>2, ExpandedWords
  <2>2. Spelled(w) \subseteq {SelName}  BY <2>1 DEF Spelled, Meaning
  <2> QED  BY <1>0, <1>2, <2>1, <2>2
<1> QED  BY <1>1, <1>2

\* To remove is to take names out of the directory listed.
LEMMA Unlinked ==
  ASSUME disk \in [Dirs -> Contents], cwd \in Dirs, NEW names, Unlink(names)
  PROVE  /\ disk' \in [Dirs -> Contents]
         /\ DOMAIN disk'[cwd] = (DOMAIN disk[cwd]) \ names
         /\ \A dir \in Dirs : dir # cwd => disk'[dir] = disk[dir]
<1> DEFINE rest == Restrict(disk[cwd], (DOMAIN disk[cwd]) \ names)
<1>1. disk' = [disk EXCEPT ![cwd] = rest]  BY DEF Unlink
<1>2. PICK S \in SUBSET Names : disk[cwd] \in [S -> Kinds]  BY DEF Contents
<1>3. rest = [x \in S \ names |-> disk[cwd][x]]  BY <1>2 DEF Restrict
<1>4. rest \in [S \ names -> Kinds] /\ S \ names \in SUBSET Names  BY <1>2, <1>3
<1>5. rest \in Contents  BY <1>4 DEF Contents
<1>6. DOMAIN rest = (DOMAIN disk[cwd]) \ names  BY <1>2, <1>3
<1> QED  BY <1>1, <1>5, <1>6

----------------------------------------------------------------------------
(* The invariant.                                                          *)

LEMMA InitInv == Init => Inv
<1> SUFFICES ASSUME Init PROVE Inv  OBVIOUS
<1>1. Typed  BY RmConfirmAssumption DEF Init, Typed, IsCommand
<1> QED  BY <1>1 DEF Init, Inv, QuestionIsCurrent, AskedSomething

LEMMA NextTyped == Inv /\ [Next]_vars => Typed'
<1> SUFFICES ASSUME Inv, [Next]_vars PROVE Typed'  OBVIOUS
<1> USE DEF Inv, Typed
<1>1. ASSUME NEW cmd \in Commands, Type(cmd) PROVE Typed'
  <2>1. IsCommand(cmd)  BY RmConfirmAssumption DEF IsCommand
  <2>2. IsCommand(Expanded(cmd))  BY <2>1, ExpandedWords
  <2>3. CASE Ask(Expanded(cmd))  BY <2>2, <2>3 DEF Ask, buffer, IsCommand
  <2>4. CASE Refer(Expanded(cmd))
    BY <2>4, Unlinked DEF Refer, Load, question, IsCommand
  <2> QED  BY <1>1, <2>3, <2>4 DEF Type
<1>2. ASSUME NEW cmd, Run(cmd) PROVE Typed'
  BY <1>2, Unlinked DEF Run, Load, IsCommand
<1>3. CASE AnswerNo \/ Switch \/ Refresh \/ \E names : Select(names)
  BY <1>3 DEF AnswerNo, Switch, Refresh, Select, Reloaded, Load, buffer, question, IsCommand
<1>4. ASSUME NEW dir \in Dirs, Visit(dir) PROVE Typed'
  BY <1>4 DEF Visit, Reloaded, Load, IsCommand
<1>5. ASSUME NEW dir \in Dirs, NEW files \in Contents, FilesChange(dir, files) PROVE Typed'
  BY <1>5 DEF FilesChange, buffer, question, IsCommand
<1>6. CASE UNCHANGED vars  BY <1>6 DEF vars, buffer, question, IsCommand
<1> QED
  BY <1>1, <1>2, <1>3, <1>4, <1>5, <1>6 DEF Next, TypeOver, AnswerYes

\* The listing, the question and its text change together or not at all; to
\* select is no change of the listing.
LEMMA NextInv == Inv /\ [Next]_vars => Inv'
<1> SUFFICES ASSUME Inv, [Next]_vars PROVE (QuestionIsCurrent /\ AskedSomething)'
  BY NextTyped DEF Inv
<1> DEFINE Kept == QuestionIsCurrent /\ AskedSomething
<1>0. Kept  BY DEF Inv
<1> USE DEF QuestionIsCurrent, AskedSomething
<1>1. ASSUME NEW cmd, Ask(cmd) PROVE Kept'
  <2>1. cwd' = cwd /\ entries' = entries /\ rm_pending_cmd' = cmd
    BY <1>1 DEF Ask, buffer
  <2>2. Shown(rm_pending_cmd)' = Shown(cmd) /\ Listed(rm_pending_cmd)' = Listed(cmd)
    BY <2>1 DEF Listed, Shown, Hits
  <2> QED  BY <1>1, <2>2 DEF Ask
<1>2. ASSUME NEW cmd, ~rm_confirm_mode, Refer(cmd) PROVE Kept'
  BY <1>2 DEF Refer, question
<1>3. ASSUME NEW cmd, Run(cmd) PROVE Kept'  BY <1>3 DEF Run
<1>4. CASE AnswerNo  BY <1>4 DEF AnswerNo
<1>5. ASSUME UNCHANGED <<cwd, entries, question>> PROVE Kept'
  <2>1. Shown(rm_pending_cmd)' = Shown(rm_pending_cmd)
        /\ Listed(rm_pending_cmd)' = Listed(rm_pending_cmd)
    BY <1>5 DEF Listed, Shown, Hits, question
  <2> QED  BY <1>0, <1>5, <2>1 DEF question
<1>6. ASSUME Reloaded PROVE Kept'  BY <1>6 DEF Reloaded
<1>7. CASE Switch \/ (\E names : Select(names)) \/ UNCHANGED vars
  BY <1>5, <1>7 DEF Switch, Select, vars, buffer
<1>8. ASSUME NEW dir, NEW files, FilesChange(dir, files) PROVE Kept'
  BY <1>5, <1>8 DEF FilesChange, buffer
<1> QED
  BY <1>1, <1>2, <1>3, <1>4, <1>6, <1>7, <1>8
  DEF Next, Type, TypeOver, AnswerYes, Visit, Refresh

----------------------------------------------------------------------------
(* The answer.                                                             *)

\* What a yes to a question about the listing still there has to go by.
LEMMA Answered ==
  ASSUME Inv, AnswerYes, ~strayed
  PROVE  /\ asked = Paths(cwd, {entries[hit[2]].name : hit \in Shown(rm_pending_cmd)})
         /\ Shown(rm_pending_cmd) # {} /\ Shown(rm_pending_cmd) \subseteq Hits(rm_pending_cmd)
         /\ Run(Expanded(rm_pending_cmd))
BY DEF Inv, QuestionIsCurrent, AskedSomething, AnswerYes, Listed, Shown

\* A yes removes every entry of the question, a file that has become a
\* directory and an entry spelled sel excepted.
THEOREM YesAlwaysRemovesAll == Spec => YesRemovesAllAsked
<1> DEFINE A == AnswerYes /\ ~strayed
                  => \A p \in asked : \/ p[2] \notin DOMAIN disk'[p[1]]
                                      \/ \E e \in ToSet(entries) : e.name = p[2] /\ Left(e)
                                      \/ p[2] = SelName /\ ~SaysTheSame
<1>1. Inv => A
  <2> SUFFICES ASSUME Inv, AnswerYes, ~strayed, NEW p \in asked,
                      ~(\E e \in ToSet(entries) : e.name = p[2] /\ Left(e)),
                      ~(p[2] = SelName /\ ~SaysTheSame)
               PROVE  p[2] \notin DOMAIN disk'[p[1]]
    OBVIOUS
  <2> DEFINE cmd == rm_pending_cmd
  <2>1. PICK hit \in Hits(cmd) : p = <<cwd, entries[hit[2]].name>>
    BY Answered DEF Paths
  <2>2. hit \in Hits(Expanded(cmd))
    BY <2>1, HitsKept DEF Inv, Typed, SaysTheSame
  <2>3. entries[hit[2]] \in Targets(Expanded(cmd)) /\ entries[hit[2]] \in ToSet(entries)
    BY <2>2 DEF Targets, Hits, ToSet
  <2>4. ~Left(entries[hit[2]])  BY <2>1, <2>3
  <2>5. Unlink({e.name : e \in {t \in Targets(Expanded(cmd)) : ~Left(t)}})
    BY <2>3, Answered DEF Run
  <2> QED  BY <2>1, <2>3, <2>4, <2>5, Unlinked DEF Inv, Typed
<1> QED  BY <1>1, InitInv, NextInv, PTL DEF Spec, YesRemovesAllAsked

\* A yes removes no other entry, of this directory or another, if the question
\* listed all that the text refers to and the text is executed as it was kept.
THEOREM YesAlwaysRemovesOnly == Spec => YesRemovesOnlyAsked
<1> DEFINE A == AnswerYes /\ ~strayed /\ SaysTheSame /\ ListedInFull
                  => Removed \subseteq asked
<1>1. Inv => A
  <2> SUFFICES ASSUME Inv, AnswerYes, ~strayed, SaysTheSame, ListedInFull,
                      NEW dir \in Dirs, NEW n \in (DOMAIN disk[dir]) \ DOMAIN disk'[dir]
               PROVE  <<dir, n>> \in asked
    BY DEF Removed, Paths
  <2> DEFINE cmd == rm_pending_cmd
             gone == {e.name : e \in {t \in Targets(cmd) : ~Left(t)}}
  <2>1. Targets(cmd) # {}  BY Answered DEF Targets
  <2>2. Unlink(gone)  BY <2>1, Answered DEF Run, SaysTheSame
  <2>3. dir = cwd /\ n \in gone  BY <2>2, Unlinked DEF Inv, Typed
  <2>4. PICK hit \in Hits(cmd) : n = entries[hit[2]].name  BY <2>3 DEF Targets
  <2> QED  BY <2>3, <2>4, Answered DEF ListedInFull, Paths
<1> QED  BY <1>1, InitInv, NextInv, PTL DEF Spec, YesRemovesOnlyAsked

=============================================================================
