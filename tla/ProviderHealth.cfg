SPECIFICATION FairSpec
CONSTANTS
  Providers = {p1}
  Checked = {p1}
  Tests = {t1}
  NoProvider = NoProvider
INVARIANT UnhealthyJustified
PROPERTIES RecoveryShown FailingIsMarked
