SPECIFICATION PathsSpec
CONSTANTS
  Characters <- MCCharacters
  Nul <- MCNul
  ServedRoots <- MCServedRoots
  JobPaths <- MCJobPaths
  Names <- MCNames
  Targets <- MCTargets
  NoLink = nolink
  Nothing = nothing
  Dest <- MCDest
  MaxDepth = 1
INVARIANTS
  OpensNamesAsked
  PathIsNames
  EndsForReason
