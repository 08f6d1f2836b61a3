\* One run id and two requests: whatever two requests do about one id.
SPECIFICATION FairSpec
CONSTANTS
  r1 = r1
  p1 = p1
  p2 = p2
  c1 = c1
  c2 = c2
  Nothing = Nothing
  Runs = {r1}
  Projects = {p1, p2}
  Calls = {c1, c2}
  RoutesOf <- MCRoutesOf
  Configs <- MCConfigs
INVARIANTS
  AnswersTrue
PROPERTIES
  BoundAuthority
  RequestsReturn
