CONSTANTS
  None = None
  MaxWalkDepth = 2
  MaxWalkFiles = 4
  MaxServerNames = 3
  MaxCertFiles = 2
  MinimumHeadroom = 2
  app = app
  shop = shop
  blog = blog
  wiki = wiki
  img = img
  hub = hub
  certbot = "certbot"
  plesk = plesk
  Families <- Everything
SPECIFICATION Spec
INVARIANTS TypeOK ProblemIsThere FineIsTrue WalkIsTold RenewalRuns
CHECK_DEADLOCK FALSE
