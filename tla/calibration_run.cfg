SPECIFICATION FairSpec
CONSTANTS
    Runs = {r1}
    Essays = {1, 2, 3, 4}
    Limit = 3
    Categories <- MCCategories
    Bands = {16, 20}
    Answers <- MCAnswers
    Consensus <- MCConsensus
    Requests = {q1, q2}
    NoRun = NoRun
INVARIANTS TypeOK ScoredOnce ProgressTracksRows VerdictsHaveEvidence
PROPERTY RequestsEnd
