SPECIFICATION Spec
CONSTANTS
    t1 = t1  t2 = t2  t3 = t3  t4 = t4  c1 = c1  c2 = c2  a = a  b = b
    s1 = s1  s2 = s2  j1 = j1  j2 = j2  u1 = u1  u2 = u2
    Tx = {t1, t2, t3, t4}
    Ledger = {a, b}
    None = None
    Request = {u1, u2}
    Job = {j1, j2}
    Statement = {s1, s2}
    Vague = {}
    Answer = {a, b}
    Configured = {1, 3}
    BatchSize = 2
    Limit = 2
    MaxRetries = 2
    MaxRuleChanges = 1
    MaxSessions = 3
    MaxOpen = 2
    ClientOf <- MCClientOf
    Raw <- MCRaw
    Clean <- MCClean
    Similar <- MCSimilar
    Bulk <- MCBulk
    Lines <- MCLines
    Hash <- MCHash
    Hint <- MCHint
    Chart <- MCChart
    RuleChoice <- MCRuleChoice
    Matches <- MCMatches
SYMMETRY MCSymmetry
INVARIANTS
    TypeOK
    JobsAreAtomic
    HitsWereRecorded
    ModelLedgersWereAllowed
    ForcedIsFresh
    NoneIsStuck
    RecurringWasConfirmed
CHECK_DEADLOCK FALSE
