SPECIFICATION DeliverySpec
CONSTANTS
  Trigger = {t1}
  MaxTab = 2
  MaxSocket = 2
INVARIANTS ShownOnce
