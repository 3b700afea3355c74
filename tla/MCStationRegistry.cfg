CONSTANTS
  None = None
  Evas <- MCEvas
  Names = {"Hbf", "Ost", "Hbf 2", "--"}
  Fetched = {"1"}
  Slugs <- MCSlugs
  BaseSlug <- MCBaseSlug
  Suffixed <- MCSuffixed
  Hash <- MCHash
  Universes <- MCUniverses
  Cadences = {2, 3}
SPECIFICATION Spec
INVARIANTS TypeOK 
PROPERTY ProvenanceKept
CHECK_DEADLOCK FALSE
