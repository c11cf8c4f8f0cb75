\* Four or five bytes written in any chunks, two lines of scrollback kept at
\* least, and three items typed or replied.
CONSTANTS
  Programs <- ThreePrograms
  MaxScrollLines = 1
  MaxLineBytes = 3
  TailLines = 2
  Keys <- TypedOrReplied
  MaxItems = 3
SPECIFICATION TerminalSpec
CHECK_DEADLOCK FALSE
INVARIANTS
  RecordingKeepsCharacters
  ViewsSeeOneStream
  KeysRead
