\* Runs of reviewed, article, gated, scheduled and source item automations with
\* crashes, replays, failures and operator retries; two clients that edit,
\* activate, pause and archive one definition; every graph the builder can draw
\* with four nodes; two requests that publish or schedule the revisions of a
\* draft; plans for publication by hand, their calendar and history; items
\* grouped into stories page by page, by two workers, with captures in between.
CONSTANTS
  w1 = w1
  w2 = w2
  w3 = w3
  client1 = client1
  client2 = client2
  graph1 = graph1
  graph2 = graph2
  Nobody = Nobody
  NoJob = NoJob
  Clients = {client1, client2}
  NoRequest = NoRequest
  Graphs = {graph1, graph2}
  Valid = {graph1, graph2}
  Scheduled = {graph2}
  MaxVersions = 3
  MaxKeys = 4
  Jobs = {}
  Workers = {w1, w2}
  MaxAttempts = 2
  MaxRetries = 1
SPECIFICATION MCSpec
SYMMETRY MCSymmetry
INVARIANTS
  AllTypesOK
  RunsProduce
  VersionsChain
  PublishedOnce
  EveryItemOnce
  GraphsSound
PROPERTIES
  OnlyWhatWasMeant
CHECK_DEADLOCK FALSE
