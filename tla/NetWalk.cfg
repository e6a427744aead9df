SPECIFICATION FairSpec
CONSTANTS
  top = top mid = mid u = u w = w a = a b = b p = p expr = expr None = None
  Scopes <- MCScopes Bases <- MCBases Texts <- MCTexts Bits = {0, 1} FanoutCap = 1 Order <- MCOrder
  Designs <- MCDesigns Views <- MCViews Questions <- MCQuestions MaxAsks = 2
INVARIANTS TypeOK YesIsPath NoIsNoPath ServedIsOfItsClass TraceIsWhole TextCoversLogical
PROPERTIES Answers
CHECK_DEADLOCK FALSE
