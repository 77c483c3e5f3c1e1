SPECIFICATION Spec
CONSTANTS
  Projects = {p1}
  ControlIds <- mcControls
  Base <- mcControls
  AiPrefixed <- mcControls
  HighRisk = {}
  EuOnly = {}
  Frameworks = {"iso-42001"}
  Generic = "generic-ssdlc"
  Overlay <- mcOverlay
  Region <- mcRegion
  NoRegion = "any"
  Listed <- mcListed
  Required = {"involves_ai_ml", "geographic_scope"}
  ForeignKeys = FALSE
  NoAnswer = "none"
  Profiles <- mcProfiles
  MaxChanges = 4
PROPERTY ListedControlsFollow
CHECK_DEADLOCK FALSE
