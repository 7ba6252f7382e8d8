SPECIFICATION Spec
CONSTANTS
  None = None
  here = here
  there = there
  yonder = yonder
  Keys <- Three
  text <- Texts
  Requests = {1, 2, 3}
  Chosen <- AllViews
INVARIANTS TypeOK SettledShowsOpened EditsLoaded
PROPERTIES RestoresWhatItShows LoadingEnds
