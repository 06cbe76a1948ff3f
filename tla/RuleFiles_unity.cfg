CONSTANTS
  Word <- MCWord
  Targets <- MCTargets
  RuleNames <- MCRuleNames
SPECIFICATION RulesSpec
INVARIANTS
  UnityBuilds
