\* One administrator's panel, two updates at a time.
SPECIFICATION Spec
CONSTANTS
    Plans       = {basic, extra}
    DefaultPlan = basic
    Posts       = {m1, m2}
    Handlers    = {h1, h2}
    None        = None
    Agendas     <- MCAgendas
SYMMETRY Symmetric
INVARIANTS
    Inv
    DefaultPlanStands
    PreviewedIsSent
CHECK_DEADLOCK FALSE
