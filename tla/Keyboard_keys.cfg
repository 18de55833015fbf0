SPECIFICATION Spec
CONSTANTS
  Keys <- MCKeys
  KBD_BYTES = 2
INVARIANTS TypeOK NoStuckModifier EscapeInStep RebootsByThreeKeys
PROPERTIES CapitalsAreMeant
CHECK_DEADLOCK FALSE
