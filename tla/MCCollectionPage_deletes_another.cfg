SPECIFICATION Spec
CONSTANTS
  None = None
  Collections = {notes, plans}
  Links = {one}
  Loads = {1, 2}
  Jobs = {1}
  Does = {"delete"}
PROPERTY DeletesWhatItNames
CHECK_DEADLOCK FALSE
