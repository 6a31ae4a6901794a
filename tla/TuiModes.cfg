\* The whole state space; there is nothing to bound.
SPECIFICATION Spec
INVARIANTS
  OverlayHasTheKeys
  InfoRemembersPane
  PreviewHasFocus
  NoDigitsUnderOverlay
  NoLostResize
PROPERTIES
  AskedInTheShell
  ResizeShown
