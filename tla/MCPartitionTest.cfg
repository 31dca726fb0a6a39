CONSTANTS
  NOTIFICATION_MAX_SERVICES = 2
  NOTIFICATION_MAX_MAPPINGS = 10
  MAPPING_MAX = 7
  INT_BITS = 10
  WORD_BYTES = 1
  BYTE = 8
  Cookies = {0, 1, 2, 3, 4, 5}
  Ids = {0, 1, 2, 3, 4, 5, 6, 7, 8}
  Sources = {0, 32770}
  Mappings <- MappingsMC
  Counts = {0, 1, 3, 5, 8}
  UuidWords <- UuidWordsMC
  MsgInfos = {2, 3}
  UINT32_BITS = 10
  SP_ID = 32769
  PEER_ID = 32770
  LEGACY_ID = 1
  APP_ID = 0
  NotificationGuid <- NotificationGuidMC
  TestGuid <- TestGuidMC
  Tpm2Guid <- Tpm2GuidMC
  PeerRequests <- PeerRequestsMC
  LegacyArgs <- LegacyArgsMC
  MaxDisturbances = 2
  Systems <- SystemsMC
  ARM_FFA_MAJOR_VERSION = 1
  ARM_FFA_MINOR_VERSION = 2
  BATTERY_HI = 7
  THERMAL_HI = 6
  UUID_LO = 1
SPECIFICATION FairAppSpec
INVARIANTS
  AppTypeOK
  RequestIntact
  AnswerFitsRequest
  NotificationsConserved
  FreshRunPasses
  AllPassedSound
PROPERTIES
  SuiteEnds
CHECK_DEADLOCK FALSE
