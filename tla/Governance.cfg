\* Three users, voters and guardians; two proposals each. A quorum that nobody
\* need vote for, one of two in three, and ties. In the phased governance, what
\* happens within one second, within the delay, and in every phase.
CONSTANTS
  ann = ann
  bob = bob
  cid = cid
  None = None
  Users = {ann, bob, cid}
  Deployer = ann
  SignerLists <- Lists
  Thresholds = {0, 2}
  Tiers = {5, 7}
  MaxProposals = 2
  Voters = {ann, bob, cid}
  Quorums = {0, 2}
  Deadlines = {1}
  VotingEnd = 2
  MaxVotings = 2
  Guardians = {g1, g2, g3}
  Admin = admin
  Others = {}
  Threshold = 2
  Month = 10
  Delay = 2
  Fees = {30, 50}
  Sizes = {1, 2}
  FirstFee = 30
  FirstSize = 1
  Times = {0, 2, 31, 59, 60, 121}
  MaxLog = 5
  Params = {fee, cap}
  NewValues = {0, 1, 2}
  InRange <- Positive
  Unset = Unset
  Delays = {0, 1, 2}
  MinDelay = 1
  DefaultDelay = 2
  MaxUpdates = 2
  ParamEnd = 4
  Accounts = {a1, a2, a3}
  NoAccount = NoAccount
SYMMETRY Symmetries
SPECIFICATION Spec
INVARIANTS LogTellsState ParametersSound RolesSound
PROPERTIES SettingsByQuorum VotesDecide ChangesEarned
\* Times, proposals and the log are bounded.
CHECK_DEADLOCK FALSE
