CONSTANTS
  Months = {1, 2}
  Notes = {n1}
  None = None
  MaxPosts = 2
  MaxTries = 2
  MaxVersion = 1
  MaxFailures = 1
  MaxReexports = 1
SPECIFICATION Spec
INVARIANTS TypeOK NotesOnceUndisturbed ConsumedStaysShown IndexExact
PROPERTIES StationsNeverOlder ImplementsDataset
CHECK_DEADLOCK FALSE
