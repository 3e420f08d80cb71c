SPECIFICATION Spec
CONSTANTS
  MaxEvents = 2
  SampleSize = 2
  MaxPolls = 2
  Facts <- MCFacts
PROPERTIES
  StaysLive
