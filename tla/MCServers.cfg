\* Two site files with every combination of faults, on the same port or not.
CONSTANTS
  Sites = {s1, s2}
  Options <- SiteOptions
  DnsConfigs <- DnsSet
  Queries <- QuerySet
  MinSize = 1
  None = None
  Failed = Failed
  Unbound = Unbound
SYMMETRY Symmetry
SPECIFICATION Spec
INVARIANTS TypeOK InitBeforeServe OwnSite ValidatedIsServed DnsReplies
CHECK_DEADLOCK FALSE
