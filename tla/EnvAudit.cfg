SPECIFICATION Spec
CONSTANTS
  Sites <- MCSites
  Limit <- MCLimit
  Defaults = {"A", "B"}
  TerminalNames = {"Done"}
  AdminNames = {"admins"}
  ScreenCap = 2
  GroupCap = 2
  OptionCap = 2
  BoardCap = 10
  ListCap = 3
  MacroRisk <- MCMacroRisk
  CountCap = 3
  PermCap = 2
  MemberCap = 2
  MaxFaults = 2
INVARIANTS TypeOK NeverAccusesUsed NothingHidden DangersDisclosed
