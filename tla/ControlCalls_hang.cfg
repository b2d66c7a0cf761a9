SPECIFICATION FairSpec
CONSTANTS
    Clients = {c1}
    Methods <- MCTimed
PROPERTIES EveryCallReturns
