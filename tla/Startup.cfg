SPECIFICATION FairSpec
CONSTANTS
  m1 = m1
  t1 = t1
  Metrics = {m1}
  MaxSamples = 2
  MaxRaised = 1
  Tokens = {t1}
  Blank = Blank
  SettingsSpace <- MCSettings
  RulesFiles <- MCRulesFiles
  PolicyFiles <- MCPolicyFiles
  MaxAge = 2
INVARIANTS Authenticated HumanFirst AnnouncedInOrder JobsOfServingOnly
PROPERTIES LaterChangesTakeEffect
