SPECIFICATION FairSpec
CONSTANTS
  Scans = {s1, s2, s3}
  NoScan = NoScan
  Remote = {plex, emby, odd}
  Local = {disk}
  Unscannable = {odd}
  Tidy = {emby}
  MaxPaths = 2
INVARIANTS
  TypeOK
  OneScanPerTarget
  ProgressShown
PROPERTIES
  LocksComeBack
  ServedInTurn
