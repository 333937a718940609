SPECIFICATION Spec
CONSTANTS
    Runs = {r1}
    Essays = {1, 2, 3, 4}
    Limit = 4
    Categories <- MCCategories
    Bands = {16}
    Answers <- MCAnswers
    Consensus <- MCConsensus
    Requests = {q1}
    NoRun = NoRun
INVARIANT AbortsAfterThree
