SPECIFICATION ParserSpec
CONSTANTS
  BufferSize = 9
  DegMax = 2
  TokenSize = 4
  Alphabet = {"hash", "dollar", "comma", "digit", "dot", "junk"}
INVARIANTS
  TypeOK
  NothingLeaksBetweenFrames
  PostedIsEndOfFrame
  WellFormedIsPosted
