SPECIFICATION TabsSpec
CONSTANTS
  Keys = {"q1", "q2"}
  Views <- MCViews
  Creations = {c1}
  NoTab = NoTab
PROPERTIES TopicTabsClosed
CHECK_DEADLOCK FALSE
