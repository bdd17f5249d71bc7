SPECIFICATION FairSpec
CONSTANTS
  Message = {t1, t2}
  MaxRetries = 2
INVARIANTS SendsCounted SentWasAccepted
PROPERTIES TerminalIsFinal Settled
