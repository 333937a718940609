SPECIFICATION Spec
CONSTANTS
    e1 = e1  e2 = e2  e3 = e3  x1 = x1  x2 = x2
    Essays = {e1, e2, e3}
    Slots = {x1, x2}
    Answers <- SomeAnswers
    NoEssay = NoEssay
    NoScores = NoScores
    NoDelta = NoDelta
SYMMETRY Symmetry
CHECK_DEADLOCK FALSE
INVARIANTS TypeOK DeltasChain ResultsAgree
PROPERTY TowardsScore
