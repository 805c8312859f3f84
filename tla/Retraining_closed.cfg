CONSTANTS
    Servers = {s1, s2}
    Jobs = {j1, j2}
    Investigations = {i1}
    Editors = {e1, e2}
    NoJob = NoJob
    NoInvestigation = NoInvestigation
SPECIFICATION RetrainSpec
PROPERTY ClosedIsFinal
CHECK_DEADLOCK FALSE
