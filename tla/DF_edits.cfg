SPECIFICATION Spec
CONSTANTS
  None = None
  Length <- MCLength
  Parts <- MCParts
  Images <- MCImages
  BadParts <- MCBad
  Untagged <- MCUntagged
  Names <- MCNames
  Creates <- MCCreates
  Patches <- MCPatches
  Updates <- MCImages
  Backups <- MCBackups
INVARIANTS
  TypeOK
  ReadsBack
  AllAddressable
