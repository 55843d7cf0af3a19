SPECIFICATION PageSpec
CONSTANTS
  q1 = q1
  q2 = q2
  Documents = {1, 2}
  Requests = {q1, q2}
  PageLimit = 2
  MaxUploads = 1
  MaxFaults = 0
PROPERTIES
  UploadSettlesOnScreen
CHECK_DEADLOCK FALSE
