SPECIFICATION MCSpec
CONSTANTS
  Scenarios = {"local", "remote", "slack", "hooks", "canvas", "sockets"}
  Runner = {r1, r2}
  Interrupter = {i1}
  Resumer = {c1}
  MaxSteps = 2
  MaxAttempts = 2
  MaxSockets = 2
  MaxRequests = 2
  SlackMessage = {1, 2}
  SlackHandler = {h1, h2}
  Asked = {"resolve"}
  MaxSwitches = 3
  NoHook = NoHook
  MaxHookChanges = 3
  Artist = {1, 2}
  Page = {1, 2}
  CanvasSocket = {1, 2}
  Component = {1}
  MaxDrawn = 2
  MaxIds = 3
  MaxSessions = 2
  NoSocket = NoSocket
  MaxPrompts = 1
CHECK_DEADLOCK FALSE
INVARIANTS
  EndIsRecorded
  OneLateStep
  EverybodyHears
PROPERTIES
  NothingHangs
  GivesUpLast
