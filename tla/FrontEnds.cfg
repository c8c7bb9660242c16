\* The background loop with a command of the desktop, or with the command line.
CONSTANTS
    loop = loop
    main = main
    command = command
    ui = ui
    rx = rx
    Background = {loop, main}
    Commands = {command}
    Subs = {ui, rx}
    Ui = ui
    Rx = rx
    Main = main
    Capacity <- Places
    MaxChanges = 2
    MaxOthers = 1
SPECIFICATION Spec
INVARIANTS
    EveryEmissionHeard
    SubscribersKept
    UpdateIsPrinted
    WindowIsCurrent
PROPERTIES
    EmittersReturn
    UiSettles
    CommandsEnd
