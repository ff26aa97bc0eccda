SPECIFICATION Spec
INVARIANTS
  TypeOK
  NoButtonIsLost
  OthersLinesGo
PROPERTIES
  AlarmSounds
  SilenceAfterCancel
  PanelFollowsMenu
