\* Every program of up to three references, compiled twice by any two commands,
\* and every order of edits and resolutions of five files.
CONSTANTS
  main = main
  user = user
  s1 = s1
  s2 = s2
  inst = inst
  late = late
  lamU = lamU
  lamS = lamS
  b1 = b1
  b2 = b2
  bl = bl
  c1 = c1
  c2 = c2
  t1 = t1
  t2 = t2
  tl = tl
  v = v
  n = n
  m = m
  kw = kw
  test = test
  glue = glue
  look = look
  sig = sig
  type = type
  bare = bare
  named = named
  None = None
  app = app
  util = util
  near = near
  wrap = wrap
  decl = decl
  Util = Util
  Wrap = Wrap
  none = none
  utilOnly = utilOnly
  wrapOnly = wrapOnly
  utilWrap = utilWrap
  wrapUtil = wrapUtil
  Absent = Absent
  Nil = Nil
  Changes = {}
  CacheMax = 1
  MaxEdges = 3
  MaxCalls = 2
  Surprises = {}
  Weaves <- MCWeaves
  Lambdas <- MCLambdas
  Blocks <- MCBlocks
  Consts <- MCConsts
  Types <- MCTypes
  Variants <- MCVariants
  Shorts <- MCShorts
  Keywords <- MCKeywords
  Programs <- MCPrograms
  Files <- MCFiles
  Entries <- MCEntries
  Modules <- MCModules
  ModuleTexts <- MCModuleTexts
  ImportsOf <- MCImports
  Search <- MCSearch
  Companion <- MCCompanion
  Versions <- MCVersions
  Buffers <- MCBuffers
SPECIFICATION BundleSpec
INVARIANTS BundleIsClosed KeepsOnlyReachable AnswerIsRight
PROPERTY SameBundleAgain
CHECK_DEADLOCK FALSE
