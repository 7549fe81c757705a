CONSTANT MaxLen = 4
SPECIFICATION Spec
INVARIANT TryParseMatchesWireFormat
