SPECIFICATION Spec
CONSTANTS
  adm1 = adm1
  adm2 = adm2
  Providers <- MCProviders
  Models <- MCModels
  ProviderOf <- MCProviderOf
  NamesOf <- MCNamesOf
  Files <- MCFiles
  Asked <- MCAsked
  Grouped = {"m1"}
  Assigned <- MCAssigned
  Recorded <- MCRecorded
  Routes = {"r1"}
  Groups = {"g1"}
  Admins = {adm1, adm2}
SYMMETRY MCSymmetry
INVARIANTS
  ChainSound
  ShadowAgrees
  ShownIsServed
