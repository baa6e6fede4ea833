SPECIFICATION Spec
CONSTANTS
  MaxEvents = 2
INVARIANTS
  TypeOK
  SkeletonEnds
  OffersFit
  CallsAdmitted
  
  NobodyStuck
PROPERTIES
  LinksLead
CHECK_DEADLOCK FALSE
