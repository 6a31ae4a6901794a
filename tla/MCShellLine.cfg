\* Every key of the shell line, with commands run from other panes too.
SPECIFICATION Spec
CONSTANTS
  Chars = {"x", "y", "Y", "z", "/", " ", "."}
  Typed = {"y", "/", " "}
  Blank = " "
  Slash = "/"
  Dot = "."
  Yes = "y"
  Lower <- MCLower
  Inside <- MCInside
  InputMax = 4
  HistMax = 2
  Commands <- MCCommands
  Questions <- MCQuestions
  GotoTexts <- MCGotoTexts
  MaxRuns = 3
INVARIANTS
  LineInStep
  HistoryIsWhatRan
  GhostIsWhatTabAdds
PROPERTIES
  TabKeepsCandidates
