SPECIFICATION ListSpec
CONSTANTS
  Lists <- XFieldLists
  AnyLengths = {0, 8, 65535}
  MaxKeyLen = 512
INVARIANT
  FieldsAreStored
