\* Two files with up to six definitions in all, of either alphabet.
CONSTANTS
  Alphabets <- AlphabetsDef
  Number <- NumberDef
  MaxDefinitions = 6
  MaxFiles = 2
  Word = 16
SPECIFICATION Spec
INVARIANTS
  AbortsFound
  EmittedBeforeUsed
  SizesAgree
PROPERTY
  NameKeepsMeaning
