CONSTANTS
  Plain <- MCPlain
  BareSafe <- MCBareSafe
  ModKeys <- MCModKeys
  Mods <- MCMods
  ModOf <- MCModOf
  Clients <- MCClients
  Ring <- MCRing
  Configs <- MCConfigs
  Captures <- MCAnyCapture
  MaxHeld = 3
  MaxLost = 1
SPECIFICATION Spec
INVARIANTS NothingOwed FreeKeysAreReleased
PROPERTY ChordIsTyped
