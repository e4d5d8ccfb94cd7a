SPECIFICATION OutboxFairSpec
CONSTANTS
    Events = {e1}
    Publishers = {p1, p2, p3}
    Limit = 1
    Visibility = 2
    Backoffs = {1, 3}
    Retention = 1
    PublishAttempts = 3
    MaxDelivery = 3
INVARIANTS NeverLost DeliveryBound
PROPERTY Settles
