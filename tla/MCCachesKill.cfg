CONSTANTS
  main = main  near = near  far = far  util = util
  plain = plain  importing = importing  other = other
  None = None  Nothing = Nothing  Partial = Partial  Absent = Absent
  Processes = {p1, p2}
  Runs = {r1, r2}
  Configs = {debug, release}
  Sources = {s1, s2, bad}
  Headers = {h1, h2}
  Broken = {bad}
  EditsDuringBuilds = FALSE
  Faults = TRUE
  Concurrent = FALSE
  Files = {main, near}
  Main = main
  Texts = {plain, importing, other}
  Modules = {util}
  EditsDuringRuns = FALSE
  Versions <- MCVersions
  ImportsOf <- MCImports
  Search <- MCSearch
  Subjects = {"bundle"}
SYMMETRY Symmetry
SPECIFICATION CachesSpec
INVARIANT HitIsRight
