\* Two jobs of one conversation under fairness, one crash, one intervention of a
\* person (also a resume with catch-up), one ambiguous outcome; no symmetry.
\* The system stops once both jobs are closed.
SPECIFICATION FairSpec
CONSTANTS
  Jobs = {j1, j2}
  c1 = c1
  Conversations = {c1}
  ConvOf <- OneConversation
  Slots = {s1, s2}
  Texts = {t1}
  MaxUnknown = 1
  MaxStalls = 0
  MaxAborts = 1
  MaxMoves = 1
  NoText = NoText
  NoJob = NoJob
  NoToken = NoToken
  Orphan = Orphan
INVARIANT OneJobAtATime
PROPERTY EveryJobSettles
CHECK_DEADLOCK FALSE
