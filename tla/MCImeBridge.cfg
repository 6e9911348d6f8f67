SPECIFICATION Spec
CONSTANTS
  ka = ka
  kz = kz
  Letters <- MCLetters
  Strokes <- MCStrokes
  AppTexts <- MCAppTexts
  Notifies = {TRUE, FALSE}
  MaxLen = 2
  MaxActs = 3
  MaxMoves = 1
  None = None
INVARIANTS ImeTypeOK SessionFollowsKeyboard PlainTypingIsExact
PROPERTY ImeConverges
CHECK_DEADLOCK FALSE
