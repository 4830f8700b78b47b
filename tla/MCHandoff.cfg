CONSTANTS
 Layouts <- MCLayouts
 Others <- MCOthers
 Profiles <- MCProfiles
SPECIFICATION Spec
PROPERTIES
 NeverGroundsAloft
 NoCircle
