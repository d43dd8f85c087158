CONSTANTS
  MAX_FRIENDS = 3
  FRIENDS_INIT_CREDIT = 1
  FRIENDS_MAX_CREDIT = 3
  FRIENDS_SORT_HYSTERESIS = 1
  Name = {1, 2, 3, 4}
  NULL = NULL
SPECIFICATION FairSpec
INVARIANTS TypeOK NoDuplicates CursorInList
PROPERTIES NearbyFriendsStay LinesKeepFriends SelectAsksWhoIsShown SilentFriendsFade
