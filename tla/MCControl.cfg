\* One administrator, one program with two requests at the server; every window but
\* Slack is one unit.
SPECIFICATION ControlSpec
CONSTANTS
  Editors = {e1}
  Slots = {r1, r2}
  Bodies <- Asked
  Releases = {2}
  Version = 1
  Unset = Unset
  Never = Never
  Grace = 1
  Retention = 1
  Patience = 1
  Slack = 0
  Horizon = 4
SYMMETRY ControlSymmetry
INVARIANTS
  KilledProgramsStop
  NewcomersStop
