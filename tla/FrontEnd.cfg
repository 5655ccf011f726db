CONSTANTS
  c1 = c1
  Callers = {c1, c2}
  Uses <- MCUses
  Settings <- MCSettings
  StructuredSinks <- MCStructuredSinks
  Nil = Nil
SPECIFICATION Spec
INVARIANTS TypeOK StructuredForGood SevereIsFlushed
PROPERTIES OfferedToAll FatalMessageFrozen FatalKills
CHECK_DEADLOCK FALSE
