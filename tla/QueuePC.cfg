\* One consumer.
SPECIFICATION FairSpec
CONSTANTS
  Consumers = {c1}
  NodeSize = 2
  MaxItems = 4
PROPERTIES
  RefinesChannel
  EveryItemTaken
  StopReleases
CHECK_DEADLOCK FALSE
