CONSTANTS
  me = me
  ann = ann
  bob = bob
  Me = me
  Users = {me, ann, bob}
  MaxKey = 2
  MaxChanges = 1
  Nil = Nil
SPECIFICATION ScreensSpec
SYMMETRY Others
INVARIANTS ScreensKeepTheirWord AllowedIsOffered
PROPERTY StalePagesGiveNothingAway
