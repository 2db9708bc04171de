SPECIFICATION DeliverySpec
CONSTANTS
  Trigger = {t1}
  MaxTab = 2
  MaxSocket = 3
INVARIANTS PendingUntilReceived PendingIsOnItsWay
PROPERTIES AckedWhileConnected
