SPECIFICATION FairSpec
CONSTANTS
  Threads = {t1, t2, t3}
  Objs = {o1, o2}
  Ctx = ctx
INVARIANTS TypeOK NoUseAfterFree
PROPERTIES ImplementsShared NothingLeaks
