\* Any number of jobs and configures over one directory; everything may fail.
SPECIFICATION Spec
CONSTANTS
  Fixed = Fixed
  None = None
  Draws = 2
INVARIANTS TypeOK OpenMeansComplete UnfinishedIsInTheMaking
PROPERTIES RoleGetsTheSitesPassword
