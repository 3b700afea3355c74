CONSTANTS
  Months = {1}
  Notes = {n1, n2}
  None = None
  MaxPosts = 2
  MaxTries = 2
  MaxVersion = 1
  MaxFailures = 3
  MaxReexports = 1
SPECIFICATION Spec
PROPERTY PublishedOrArchived
CHECK_DEADLOCK FALSE
