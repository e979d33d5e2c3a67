CONSTANTS
    r1 = r1
    h1 = h1
    h2 = h2
    topic = topic
    TASKS = TASKS
    NULL = NULL
    Refs <- OneRef
    Handlers <- TwoHandlers
    Topics <- OneTopic
    MAX_MESSAGE_HANDLERS = 3
SPECIFICATION Spec
INVARIANTS
    SoleHandlerIsInstalled
    NoUserDataLeaks
    GrantedTasksArrive
    OnlyRegisteredAreCalled
    TwoAcksAtMost
