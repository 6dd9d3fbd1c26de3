SPECIFICATION FairSpec
CONSTANTS
  None = None
  Workers = {w1, w2}
  Concepts = {tort, contract}
  Pool <- MCPool
  Actions <- MCActions
  Prose <- MCProse
  Citations <- MCCitations
  ParaphraseTenths = 6
  MaxRecords = 2
INVARIANTS TypeOK FramingRemembered  FollowUpStaysOnConcept
 
CHECK_DEADLOCK FALSE
