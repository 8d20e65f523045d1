SPECIFICATION WebUiSpec
CONSTANTS
  Client = {"c1", "c2"}
  File = {"manifest", "pages"}
  MaxUploads = 2
  MaxFailures = 0
  MaxRestarts = 0
PROPERTY ActiveUntouched
CHECK_DEADLOCK FALSE
