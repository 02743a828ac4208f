\* Two processes, two profiles, crashes, dying flows; operations without the
\* lock do not overlap.
SPECIFICATION Spec
CONSTANTS
  Proc = {p1, p2}
  Profile = {sim, real}
  Ref = {r1, r2}
  Nobody = Nobody
  NoProfile = NoProfile
  Serialised = TRUE
  ListMayFail = FALSE
  MaxStarts = 3
INVARIANTS TypeOK StoppedMeansDown
PROPERTIES OwnStart ImplementsLifecycle
