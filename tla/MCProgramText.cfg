CONSTANT Jsons <- MCJsons
SPECIFICATION Spec
INVARIANT ConstructorMatchesFormat
