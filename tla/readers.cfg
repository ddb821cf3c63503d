SPECIFICATION FairSpec
CONSTANTS
  alice = alice
  bob = bob
  NoUser = NoUser
  Users = {alice, bob}
  ReplyLen <- ShortAndLong
  LoginLen = 2
  CmdLens = {1, 3}
  VerifyBuf = 2
  RecvBuf = 2
  MaxLogins = 4
  MaxCmds = 1
  MaxTexts = 0
INVARIANTS
  OneReader
  AnswerComes
PROPERTIES
  VeriFyReturns
CHECK_DEADLOCK FALSE
