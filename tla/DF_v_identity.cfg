SPECIFICATION Spec
CONSTANTS
  None = None
  Length <- MCLength
  Parts <- MCParts
  Images <- MCImages
  BadParts <- MCBad
  Untagged <- MCUntagged
  Names <- MCNames
  Creates <- MCTwoSchools
  Patches <- MCPatches
  Updates <- MCImages
  Backups <- MCNoBackups
PROPERTY
  NamesIdentify
