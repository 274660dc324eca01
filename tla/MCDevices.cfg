CONSTANTS
  vgabiostext = vgabiostext
  vgabmtext = vgabmtext
  Files = {vgabiostext, vgabmtext}
  Scripts <- MCScripts
  Garbage <- MCGarbage
  MaxDisks = 2
SPECIFICATION FairSpec
CHECK_DEADLOCK FALSE
INVARIANTS RegistryConsistent ResidentWhileUsed
PROPERTY CallsEnd
