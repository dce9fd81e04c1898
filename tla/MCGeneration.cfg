SPECIFICATION FairSpec
CONSTANTS
    p1 = p1
    p2 = p2
    halluc = halluc
    d1 = d1
    d2 = d2
    o1 = o1
    n1 = n1
    n2 = n2
    n3 = n3
    s1 = s1
    s2 = s2
    Limits = {"cpu", "memory", "processes", "files"}
    Hosts <- MCHosts
    Share = 3
    Whole = 10
    Papers = {p1, p2}
    Halluc = halluc
    Dois = {d1, d2}
    OldIds = {o1}
    Tail8 <- MCTail8
    Sentences = {s1, s2}
    NumbersOf <- MCNumbersOf
    Gain = n1
    Specs = {"claude", "gpt", "gem", "typo"}
    StyleOf <- MCStyleOf
    Chains <- MCChains
    Retries = 3
INVARIANTS BudgetMet UnsetIsReported
PROPERTIES EveryGenerationEnds
