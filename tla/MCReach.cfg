SPECIFICATION FairSpec
CONSTANTS
    a = a  b = b  m = m  h = h  x = x  y = y  t = t  u = u  g = g  s = s  i = i
    Start = Start
    Subjects = {x, y}
    Fns = {a, b, m, h}
    Sigs = {s}
    Ifaces = {i}
    Types = {t, u, g}
    Programs <- AllPrograms
INVARIANTS NothingForeign NothingLost EdgesAreAttributed

CHECK_DEADLOCK FALSE
PROPERTY AnalysisEnds
