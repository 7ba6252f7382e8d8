SPECIFICATION Spec
CONSTANTS
  mine = mine
  ours = ours
  notes = notes
  None = None
  Spaces = {mine, ours}
  Collections = {notes}
  Home <- InOne
  Loads = {1, 2}
  Events = {"navigate", "spaces", "create", "others", "lock", "reload", "lose"}
  MaxEvents = 2
INVARIANTS TypeOK TreeOfOpenSpace
PROPERTIES UnlockedByPin TreeCatchesUp EventuallyMember
CHECK_DEADLOCK FALSE
