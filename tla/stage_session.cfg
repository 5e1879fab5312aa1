SPECIFICATION Spec
CONSTANTS
  None = None
  NoFile = NoFile
  Unsaid = Unsaid
  Tasks <- MCTasks
  Plans <- MCPlans
  Registries <- MCRegistries
  Constraints = {"C1"}
  Files <- MCFiles
  Base <- MCBase
  Absent <- MCAbsent
  Versions <- MCVersions
  Kind <- MCKind
  DependencyFiles <- MCDependencyFiles
  ModuleOf <- MCModuleOf
  Changed <- MCChanged
  Hints <- MCHints
  Flaws <- MCFlaws
  Order <- MCOrder
  Analyzers = {"gitleaks", "osv-scanner", "semgrep"}
  OnDependency = {"osv-scanner"}
  WholeRepo = {"gitleaks"}
  Installed = {"gitleaks", "osv-scanner", "semgrep"}
  Configured = {"gitleaks", "osv-scanner"}
  Severity <- MCSeverity
  Text <- MCText
  Commands = {"test"}
  MaxEdits = 2
INVARIANT AttributionIsRight
INVARIANT MachineBlockersStand
INVARIANT WritersKeepApart
INVARIANT RiskIsVerified
INVARIANT RoutableWhenOrdered
CHECK_DEADLOCK FALSE
