SPECIFICATION Spec
CONSTANTS
  Models = {m1, m2}
  Names = {"i", "j"}
  Entries = {{"k = v"}}
INVARIANTS ViewInStep RowForEveryInstance IndexParent
PROPERTIES Discovers ForgetsFound
