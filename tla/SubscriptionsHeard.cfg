\* Configurations posted and refused while requests are under way and fail.
SPECIFICATION FairSpec
CONSTANTS
  Source = {s1}
  Id = {i1, i2, i3, i4}
  MaxSettings = 2
  MaxMishaps = 1
  Null = Null
INVARIANT SubscriptionTypeOK
PROPERTIES EventuallyHeard EventuallySilent
