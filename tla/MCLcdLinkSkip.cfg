SPECIFICATION LinkSpec
CONSTANTS
  MaxAttempts = 2
  MaxKeys = 2
  MaxUnread = 2
  MaxArrived = 2
  Displays <- Sizes
  TimeTexts = {11, 12}
  StatusTexts = {17, 21}
  Preserved = FALSE
PROPERTY OnlySuccessSkipped
CHECK_DEADLOCK FALSE
