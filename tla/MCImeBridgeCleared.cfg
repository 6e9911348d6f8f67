SPECIFICATION Spec
CONSTANTS
  ka = ka
  kz = kz
  Letters <- MCLetters
  Strokes <- MCStrokes
  AppTexts <- MCCleared
  Notifies = {FALSE}
  MaxLen = 2
  MaxActs = 2
  MaxMoves = 1
  None = None
PROPERTY OutsideEditsArePushed
CHECK_DEADLOCK FALSE
