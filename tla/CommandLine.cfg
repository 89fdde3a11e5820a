CONSTANTS
    Compilers = {c1, c2}
    OldWriter = OldWriter
    SourceText = SourceText
    Nonces = {t1, t2}
    TimesDiffer = FALSE
    Parts = 2
    MaxArtifact = 2
    OutputLength = 2
    Platforms = {"unix", "windows"}
    Directories <- MCDirectories
SYMMETRY CommandLineSymmetry
SPECIFICATION Spec
INVARIANTS
    OutputIsWhole
    OutputTellsOutcome
    NoLitter
    SourceIsKept
    RunnerReportsTruth
CHECK_DEADLOCK FALSE
