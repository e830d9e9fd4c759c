CONSTANTS
  scard = scard
  d1 = d1
  d2 = d2
  SCARD_DEVICE_ID = scard
  DriveIds <- MCDriveIds
  MaxRounds = 2
  SharingConfigs = {TRUE, FALSE}
  EarlyDriveAnnounce = FALSE
SPECIFICATION Spec
INVARIANT TypeOK
INVARIANT ScardRouting
INVARIANT SessionSurvives
PROPERTY DevicesEventuallyAcknowledged
INVARIANT DriveGate
