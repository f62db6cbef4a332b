\* Two builds of the crawler.
CONSTANT LastBuild = 2
SPECIFICATION Spec
INVARIANT RollsBackToPassed
CHECK_DEADLOCK FALSE
