SPECIFICATION Spec
CONSTANTS
  alice = alice
  bob = bob
  NoUser = NoUser
  Users = {alice, bob}
  ReplyLen <- ShortAndLong
  LoginLen = 2
  CmdLens = {1, 5}
  VerifyBuf = 2
  RecvBuf = 4
  MaxLogins = 3
  MaxCmds = 2
  MaxTexts = 1
INVARIANTS
  FriendsNotBelieved
  IdentityIsWelcomed
  HandledInOrder
  LoginOnce
CHECK_DEADLOCK FALSE
