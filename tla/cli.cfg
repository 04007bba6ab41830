SPECIFICATION Spec
CONSTANTS
  None = None
  Client = {1, 2}
  Line <- MCLine
  Size <- MCSize
  BufLen = 2
  SockBuf = 3
  MaxLines <- MCMaxLines
INVARIANTS TypeOK AnswerMatches BlockedByOverrun
PROPERTIES Answered
CHECK_DEADLOCK FALSE
