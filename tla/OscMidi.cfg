CONSTANTS
  Pads <- MCPads
  Buttons <- MCButtons
  Keys = {64}
  Velocities <- MCVelocities
  Faders <- MCFaders
  Positions <- MCPositions
  Switches <- MCSwitches
  Others <- MCOthers
  Stray <- MCStray
  Layout <- MCLayout
  Defaults <- MCDefaults
  Settings <- MCSettings
  StaleTags <- MCStale
  AirMax = 2
SPECIFICATION Spec
INVARIANTS SoundsAsHeld
PROPERTIES PlayedAsMeant ConfigAsMeant
