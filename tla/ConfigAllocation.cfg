SPECIFICATION Spec
CONSTANTS
  N = 4
  Generic = 2
  MaxNodes = 2
  MaxValidators = 2
  Suffixes = {2, 4}
  Offsets = {0, 3}
  Presets = 1
  FirstPreset = 3
  Absent = Absent
CHECK_DEADLOCK FALSE
INVARIANTS IInv AssignedAddressesDisjoint NoOtherOverlap AssignedValidatorsDisjoint AtMostOneShared
