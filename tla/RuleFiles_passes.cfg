CONSTANTS
  Word <- MCWord
  Targets <- MCTargets
  RuleNames <- MCRuleNames
SPECIFICATION RulesSpec
INVARIANTS
  CommandsOfTarget
  LateFiles
  FailsExactly
PROPERTIES
  PassesEnd
