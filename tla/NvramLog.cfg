\* Two of three variables are on the preserve list, which may fill the store;
\* setup is never deleted.
SPECIFICATION StoreSpec
CONSTANTS
  setup = setup
  Names = {setup, n1, n2}
  Values = {v1, v2}
  Absent = Absent
  Preserved = {setup, n1}
  NoRequest = NoRequest
  Large = {v2}
  Capacity = 5
  Shipped <- MCShipped
  ShippedData = v1
  Calls <- MCCalls
  ShortOfMemory = {"Recover"}
INVARIANTS
  SuccessDurable
  ReadsMatchFlash
PROPERTIES
  PreservedKept
  DroppedOnlyWhenFull
  RefinesVariableStore
