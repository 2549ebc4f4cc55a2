\* Two prebuilt packages; two commits; every tarball is built again once.
CONSTANTS
  Targets = {"linux-x64", "win32-x64"}
  Commits = {"first", "second"}
  MaxBuilds = 6
  MaxReruns = 1
SPECIFICATION Spec
INVARIANTS
  TypeOK
  PublishedIsTested
  PublicIsInstallable
  ReleaseMatchesRegistry
PROPERTIES
  ReleaseIsTagged
