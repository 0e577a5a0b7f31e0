CONSTANTS
  Profiles = {"home", "away", "guest"}
  NoSsid = {"guest"}
  Configs <- MCCrowded
  MaxSta = 2
  Cooldown = 3
  MaxShift = 1
  Jitter = {0, 1}
  Confirm = 2
  StartStagger = 1
  ReloadDelay = 1
  ReloadStagger = 1
  Elapsed = {1}
  LoadFails = FALSE
SPECIFICATION Spec
INVARIANT DisabledLeftAlone
