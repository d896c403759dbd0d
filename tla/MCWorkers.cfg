\* Two of three lives serve at once and together may ask for more connections than PostgreSQL has; the third follows one that is drained or killed.
CONSTANTS
  post = post
  get = get
  ready = ready
  Workers = {w1, w2, w3}
  Requests = {post, get, ready}
  Nobody = Nobody
  Kind <- MCKind
  PoolSize = 1
  MaxOverflow = 1
  MaxServing = 2
  MaxConnections = 2
SPECIFICATION Spec
CHECK_DEADLOCK FALSE
INVARIANTS
  TypeOK
  NoConnectionLeaks
  RefusedOnlyInOverflow
PROPERTY
  SlowClientsStarveNobody
