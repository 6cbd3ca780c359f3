\* Two words, two values, three requests.
CONSTANTS
  Word = {w1, w2}
  Data = {d1, d2}
  None = None
  MaxRequests = 3
SPECIFICATION FairSpec
INVARIANTS
  HostReplayed
  AnswersTheRequest
PROPERTIES
  HostAsSaved
  RequestSurvives
