\* Two calls on one Processor: every slice with every rule, offset and length.
SPECIFICATION Spec
CONSTANTS
  Unit = 2
  MaxExact = 4
  MaxInt = 8
  NoInt <- MCNoInt
  Lower <- MCLower
  Language <- MCLanguage
  TypeString <- UniqueStrings
  Elem <- MCElem
  Lookup <- MCLookup
  Unexported <- MCUnexported
  maxRules = 2
  maxResults = 2
  Slices <- MCSlices
  RuleSets <- MCRuleSets
  Offsets = {0, 1}
  Lengths = {0, 2, 3}
  MaxCalls = 2
INVARIANTS ReturnsReference ReadsWhatWasGiven RuleTypesAgree
CHECK_DEADLOCK FALSE
