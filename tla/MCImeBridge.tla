---------------------------- MODULE MCImeBridge ----------------------------
EXTENDS ImeBridge

CONSTANTS ka, kz   \* two characters

MCLetters == {ka, kz}
MCStrokes == {<<ka>>, <<ka, kz>>}
MCAppTexts == {<<kz>>}
MCCleared == {<<>>}
=============================================================================
