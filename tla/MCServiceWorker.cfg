SPECIFICATION WorkerFairSpec
CONSTANTS
    Document = html
    Precached = {html, app}
    Late = {tip}
    MaxVersion = 3
    MaxOutages = 2
INVARIANT
    ShellInv
PROPERTY
    ShellCatchesUp
