\* Two variables, one of them on the preserve list.
SPECIFICATION Spec
CONSTANTS
  Names = {n1, n2}
  Values = {v1, v2}
  Absent = Absent
  Preserved = {n1}
  NoRequest = NoRequest
  Garbage = Garbage
INVARIANTS
  TypeOK
  AlwaysRecoverable
  RuntimeAgreesWithBoot
PROPERTY RefinesVariableStore
