\* One process of two workers that share a mixed list.
SPECIFICATION Spec

CONSTANTS
  Urls <- MCUrls
  Mixes <- MCMixes
  Plans <- MCMixedPlans
  Forever = Forever
  Unlimited = Unlimited
  MaxTeam = 2
  MaxItems = 4

INVARIANT SharesAreDisjoint
