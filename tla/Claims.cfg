SPECIFICATION Spec
CONSTANTS
  Exports <- MCExports
  Trinamic = {"left", "right"}
  Configurations <- MCConfigurations
  Transmissions <- MCTransmissions
  Interfaces <- MCInterfaces
  Foreign <- MCForeign
  MaxStart = 2
INVARIANTS TypeOK FirstClaimWins HandleLeadsToClaim PreparedIsPerformed ModeMatchesClaims
PROPERTIES OnlyNamedSlavesSwitch
