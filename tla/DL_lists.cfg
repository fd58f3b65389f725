SPECIFICATION Spec
CONSTANTS
  Threads = {t1}
  Loop = loop
  Entrypoint = entrypoint
  NoFile = NoFile
  Names <- MCNames
  Digits <- MCDigits
  Hexes <- MCHexes
  Dashed <- MCDashed
  Edited <- MCEdited
  ByHand <- MCByHand
  Fetched <- MCFetched
  MinLines = 1
INVARIANTS TypeOK  ReloadTakesEffect 
PROPERTIES OnlyEnsureLosesAdds
