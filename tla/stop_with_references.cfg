\* A task of the Agent is bound while the CLI stops the Runtime or asks its status.
SPECIFICATION Spec
CONSTANTS
  Proc = {cli, agent}
  Profile = {sim}
  Ref = {r1}
  Nobody = Nobody
  NoProfile = NoProfile
  Serialised = FALSE
  ListMayFail = FALSE
  MaxStarts = 1
PROPERTY NormalStopRefused
