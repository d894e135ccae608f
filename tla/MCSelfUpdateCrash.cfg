SPECIFICATION Spec
CONSTANTS
  Caller = {cron, command}
  Server = {command}
  Enabled = TRUE
  Version = {1, 2, 3}
  NoFile = NoFile
  Depth = 2
  FollowsRename = TRUE
INVARIANTS StartsAgain
