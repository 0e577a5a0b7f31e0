CONSTANTS
  Profiles = {"home", "guest"}
  NoSsid = {"guest"}
  Configs <- MCReordered
  MaxSta = 2
  Cooldown = 2
  MaxShift = 1
  Jitter = {1}
  Confirm = 2
  StartStagger = 1
  ReloadDelay = 1
  ReloadStagger = 1
  Elapsed = {1}
  LoadFails = TRUE
SPECIFICATION FairSpec
PROPERTIES
  NoEarlyRetry
  FailuresForgottenWhenStable
  RetriedForever
  LastConfigLoaded
