SPECIFICATION Spec
CONSTANTS
  Procs = {p1, p2}
  Names = {"hello", "other"}
  Manifests <- MCManifests
  Sources <- MCSources
  Edits = 1
INVARIANTS
  BuildTypeOK
  ManifestAsWritten
  InitLeavesAPackage
PROPERTIES
  SuccessIsCurrent
  CommandsEnd
CHECK_DEADLOCK FALSE
