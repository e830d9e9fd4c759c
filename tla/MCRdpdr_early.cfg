CONSTANTS
  scard = scard
  d1 = d1
  d2 = d2
  SCARD_DEVICE_ID = scard
  DriveIds <- MCDriveIds
  MaxRounds = 2
  SharingConfigs = {TRUE}
  EarlyDriveAnnounce = TRUE
SPECIFICATION Spec
INVARIANT ScardRouting
