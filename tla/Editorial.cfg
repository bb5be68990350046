\* Generation and regeneration of packs by two workers that crash or lose their
\* leases, research shared by two dispatches and a pack, exports that expire
\* and are built again, LLM providers, the gateway of paired agents, and the calls
\* of a research and of Codex.
CONSTANTS
  w1 = w1
  w2 = w2
  w3 = w3
  telegram = telegram
  blog = blog
  shorter = shorter
  longer = longer
  page = page
  page2 = page2
  laptop = laptop
  phone = phone
  k1 = k1
  k2 = k2
  Nobody = Nobody
  Jobs <- PackJobs
  NoJob <- NoPackJob
  Workers = {w1, w2}
  MaxAttempts = 2
  MaxRetries = 0
  PackPlatforms <- Both
  Telegram = telegram
  Instructions = {shorter}
  MaxRevision = 2
  MaxCalls = 2
  Disturbances = {"lease", "crash"}
SPECIFICATION MCSpec
SYMMETRY MCSymmetry
INVARIANTS
  AllTypesOK
  OutputUsedOnce
  AcceptedIsServed
PROPERTIES
  ResultsKept
CHECK_DEADLOCK FALSE
