SPECIFICATION Spec
CONSTANTS
  h1 = h1
  h2 = h2
  h3 = h3
  root = root
  u1 = u1
  u2 = u2
  k1 = k1
  k2 = k2
  a1 = a1
  ca1 = ca1
  ca2 = ca2
  url1 = url1
  url2 = url2
  Handlers = {h1, h2, h3}
  Nobody = Nobody
  Users = {root, u1, u2}
  Sunet = {root}
  Contracts = {k1, k2}
  NoAlias = NoAlias
  Aliases = {NoAlias, a1}
  Bundles = {ca1, ca2}
  Urls = {url1, url2}
  None = None
  MaxCreds = 3
  MaxFaults = 2
  Plans <- AllPlans
SYMMETRY Symmetry
CHECK_DEADLOCK FALSE
INVARIANTS
  LostAccessIsLost
  CredentialsAccounted
  GitCoversCluster
  DecommissionedIsGone
  RepositoryBound
PROPERTIES
  CreatedAsPublished
