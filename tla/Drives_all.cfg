SPECIFICATION Spec
CONSTANTS
  DrivesUsed = {"local", "ftp", "sftp", "webdav", "dropbox", "alist", "foxel", "onedrive"}
  New = New
  Other = Other
  CopyPages = {1, 2}
  Dir = Dir
  None = None
  IdDrivesUsed = {"googledrive", "quark", "pikpak"}
  Callers = {c1, c2}
  MaxId = 4
  MaxEvents = 2
  Alias = "z"
  Nil = Nil
  Gone = Gone
  MaxParts = 2
  Void = Void
  Users = {c1, c2}
  MaxMessage = 3
  PageSize = 1
  Batch = 2
  Length = 2
  MaxJobs = 3
  Nobody = Nobody
  TokenKinds = {"dropbox", "alist", "foxel", "google", "pikpak"}
  Requesters = {c1, c2}
  MaxRequests = 3
  MaxTrouble = 2
  NoToken = NoToken
  Streamers = {"local", "ftp", "sftp", "alist", "googledrive", "onedrive", "s3",
               "telegram", "pikpak", "quark", "dropbox", "foxel", "webdav"}
  MaxSize = 3
  SegmentSize = 2
  MaxBreaks = 2
  Blank = Blank
  MaxUploads = 3
  MaxUploadSize = 3
  PartSize = 2
  Unknown = Unknown
SYMMETRY Sym
INVARIANTS IdDrivesExact ChannelServed TokensRenewed StreamsExact QuarkUploadsWhole
PROPERTIES PathDrivesExact BucketKept
CHECK_DEADLOCK FALSE
