SPECIFICATION Spec
CHECK_DEADLOCK FALSE
CONSTANTS
  Items = {1, 2}
  SeedItems = {1, 2}
  MaxStarts = 2
  MaxEdits = 2
  Tasks = {t1, t2}
  Policies = {2, 3}
  MaxFree = 3
  MaxSaves = 3
  Uploaders = {u1}
  Names = {n1, n2}
  MaxBytes = 2
  RouteSpecs <- MCRouteSpecs
  MaxSpecs = 3
  CoreRoutes <- MCCoreRoutes
  PathOrder <- MCPathOrder
  Normal <- MCNormal
INVARIANT SessionKeyStays
INVARIANT ForgottenLeavesNothing
INVARIANT AnsweredUploadsLeaveNothing
PROPERTY StartUpKeepsData
PROPERTY SavedSettingsStay
PROPERTY PolicySurvivesRestart
PROPERTY UploadsAreAnswered
INVARIANT DocumentIsTrue
