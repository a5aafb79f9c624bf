CONSTANTS
  Keys = {1, 2, 3, 4, 5}
  Records = {MODIFIED, SHARE}
  NULL = NULL
SPECIFICATION Spec
INVARIANTS TypeOK LinksAgree NearestFound
PROPERTIES ImplementsMap
