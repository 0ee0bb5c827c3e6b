SPECIFICATION Spec
CONSTANTS
    Doc <- MCDoc
    NameOf <- MCNameOf
    BoundName = "N"
    Capability <- MCCapability
    Condition <- MCCondition
    Language <- MCLanguage
    FirstContents <- MCFirstContents
    Proposals <- MCProposals
    SignalSets <- MCSignalSets
    Intents <- MCIntents
    NoDoc = NoDoc
    NoContent = NoContent
    MaxChanges = 2
    MaxFaults = 1
CONSTRAINT Scope
CHECK_DEADLOCK FALSE
 
INVARIANT AuthorizedUnderGovernance
INVARIANT UnreportedRulesAreDisjoint
INVARIANT NotifiedIsCurable
 
