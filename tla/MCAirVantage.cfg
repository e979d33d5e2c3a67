SPECIFICATION FairSpec

CONSTANTS
    QoS = 1
    Commands <- FirstTwo
    MaxHandlers = 2
    MaxCalls = 2
    MaxPushes = 2

INVARIANT CommandsInOrder
INVARIANT OnlyNestedPublishDisturbs
INVARIANT CommandAckFirst
INVARIANT AnswersToCome
PROPERTY CallsReturn
