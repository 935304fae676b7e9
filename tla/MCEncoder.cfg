SPECIFICATION EncoderSpec
CONSTANTS
  DEBOUNCE_COUNT = 2
  DOUBLE_CLICK_COUNT = 5
  Range32 = 9
INVARIANTS
  ReportIsDebounced
  ReportsAreSpaced
  DoubleClickIsTimely
PROPERTY
  LevelIsFollowed
