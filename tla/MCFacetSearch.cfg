\* Three products, addresses of every kind, those read in two ways among them.
SPECIFICATION Spec
CONSTANTS
  laptop = laptop
  mouse = mouse
  radio = radio
  cat = cat
  manu_exact = manu_exact
  stamp = stamp
  foo = foo
  computers = computers
  electronics = electronics
  apple = apple
  wordMark = wordMark
  word = word
  broken = broken
  joined = joined
  Joined = joined
  None = None
  Products = {laptop, mouse, radio}
  AllFacetFields = {cat, manu_exact}
  Mapped = {cat, manu_exact}
  SolrFields = {cat, manu_exact, stamp}
  Fields = {cat, manu_exact, stamp, foo}
  Values = {computers, electronics, apple, wordMark}
  Queries = {word, broken}
  Texts <- MCTexts
  Before <- MCBefore
  BadQueries = {broken}
  MaxInt = 7
  Attr <- MCAttr
  Finds <- MCFinds
  Typed <- MCTyped
INVARIANTS TypeOK OnlyTypedAreMisread
PROPERTIES FacetLinkKeepsItsPromise RemovalOnlyWidens
