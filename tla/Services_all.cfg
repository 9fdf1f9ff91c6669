SPECIFICATION Spec
CONSTANTS
  Clients = {c1, c2}
  S3Clients = {c1, c2}
  Viewers = {c1, c2}
  Writers = {c1, c2}
  Admins = {c1, c2}
  Watchers = {c1, c2}
  MaxSets = 3
  MaxFailures = 2
  Env = Env
  None = None
  Names = {1, 2}
  Uids = {1, 2}
  Tokens = {t1, t2}
  MaxAccountRequests = 4
  Uploads = {u1}
  Parts = {1, 2}
  Chunks = 2
  MaxGatewayCalls = 4
  MaxRestarts = 1
  Absent = Absent
  Ranks = {1, 2, 3}
  MountRanks = {2, 5}
  SelfRank = 6
  UpRank = 7
  PageSizes = {1, 2, 8}
  DirPages = {1, 2}
  MaxChanges = 2
  MaxPages = 7
  Start = Start
  Stamps = {s1, s2}
  MaxVersions = 3
  MaxViews = 2
  Missing = Missing
  MaxStates = 4
  Silent = Silent
  MaxNotices = 3
  RemotePage = 2
  MaxSyncs = 2
  MaxName = 1
  Nothing = Nothing
  MaxRows = 2
  MaxEdits = 3
  Gone = Gone
  MaxCalls = 2
  MaxPerTurn = 2
  MaxChatRequests = 3
  MaxRounds = 2
  p1 = p1
  p2 = p2
  Plugins = {p1, p2}
  Builtin = {"b"}
  MaxPluginRequests = 3
SYMMETRY Symmetry
INVARIANTS SettingsServed UploadsWhole WalksExact ThumbsFresh RoomInStep WritesKept BackupsRestore
  CallsAnswered PluginsWhole
PROPERTIES AccountsKept NoticesKept
CHECK_DEADLOCK FALSE
