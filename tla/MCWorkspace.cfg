\* Two tabs, two slugs, three requests and one publication.
SPECIFICATION WorkSpec
CONSTANTS
  t1 = t1
  t2 = t2
  Tabs = {t1, t2}
  Slugs = {"a", "b"}
  Words = {"x"}
  None = None
  MaxRequests = 3
  MaxVersion = 2
SYMMETRY Symmetry
INVARIANT
  EditorsHonest
PROPERTY
  NothingUnseenReplaced
