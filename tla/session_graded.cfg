SPECIFICATION LiveSpec
CONSTANTS
  Points <- TwoCoreOneBonus
  Quotes = {"q1", "q2", "not", "invented"}
  Verbatim = {"q1", "q2", "not"}
  Negations = {"not"}
  NoQuote = NoQuote
  Candidates = {c1}
  Admins = {a1}
  Sessions <- SomeSessions
  Ballots <- SomeBallots
  Opinions <- SomeOpinions
  MaxFaults = 2
  MaxClaims = 3
  NoLabel = NoLabel
  None = None
INVARIANTS
  OneGrader ReportIsSound AnsweringNeverHurts VerdictIsEarned
PROPERTIES
  ReportComes
CHECK_DEADLOCK FALSE
