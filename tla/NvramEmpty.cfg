\* A store without any variable.
SPECIFICATION Spec
CONSTANTS
  setup = setup
  Names = {setup, n1}
  Values = {v1}
  Absent = Absent
  Preserved = {setup}
  NoRequest = NoRequest
  Large = {}
  Capacity = 3
  Shipped <- MCEmpty
  ShippedData = v1
  Calls <- MCCalls
  ShortOfMemory = {}
INVARIANT FirstVarValid
