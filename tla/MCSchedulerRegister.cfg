\* Is every registered collector sampled?
CONSTANTS
  Collectors = {c1, c2}
  Frequencies <- TwoAndNone
  Nobody = Nobody
SPECIFICATION FairSpec
PROPERTY RegisteredIsSampled
