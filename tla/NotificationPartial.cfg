CONSTANTS
  NOTIFICATION_MAX_SERVICES = 2
  NOTIFICATION_MAX_MAPPINGS = 2
  MAPPING_MAX = 2
  INT_BITS = 2
  WORD_BYTES = 2
  BYTE = 2
  Cookies = {0, 1}
  Ids = {0, 1, 2}
  Sources = {1, 2}
  Mappings <- MappingsAll
  Counts = {0, 1, 258, 3}
  UuidWords <- WordsAll
  MsgInfos = {1, 2, 7}
SPECIFICATION HistorySpec
INVARIANT FailureLeavesTables
