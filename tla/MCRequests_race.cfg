\* Two callers, every command.
SPECIFICATION FairSpec
CONSTANTS
    c1 = c1
    c2 = c2
    Clients = {c1, c2}
    Commands <- Mixed
    MaxFaults = 1
INVARIANTS OncePerKey CorrelationsDisjoint CompletionHonest
PROPERTIES SubmittedLawfully CommandAnswered
