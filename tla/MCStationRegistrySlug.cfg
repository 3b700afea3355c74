CONSTANTS
  None = None
  Evas <- MCEvas
  Names = {"Hbf", "Ost", "Hbf 2", "--"}
  Fetched = {"1"}
  Slugs <- MCSlugs
  BaseSlug <- MCBaseSlug
  Suffixed <- MCSuffixed
  Hash <- MCHash
  Universes <- MCLists
  Cadences = {2, 3}
SPECIFICATION Spec
INVARIANT ImportNeverClashes
CHECK_DEADLOCK FALSE
