SPECIFICATION Spec
CONSTANTS
  Objects = {o1, o2, o3}
  Callbacks = {c1, c2}
  None = None
  Impls = {a1, a2, a3}
  Null = Null
  Absent = Absent
INVARIANT OwnedOnce
PROPERTY RefinesNotifier
