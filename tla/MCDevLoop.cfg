SPECIFICATION FairSpec
CONSTANTS
  Kinds = {"go", "css", "script"}
  Tabs = {t}
  Cap = 1
  Scenes <- DefaultScenes
  t = t
INVARIANT HeldRequestsAnswered
PROPERTIES
  EditsReach
  PagesFollow
