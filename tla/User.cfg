SPECIFICATION MCSpec
CONSTANTS
    QSize = 3
    MaxWin = 3
    MaxPlain = 2
    MaxTimer = 2
    TimerIds = {1, 2}
    Elapses = {1}
    Apis = {"W"}
    Posts = {"lbuttonup", "tab", "enter"}
    MaxDepth = 3
    FocusInKill = FALSE
    DestroyInCall = FALSE
    SilentClick = FALSE
    Templates <- MCTemplates
    Styles <- MCStyles
INVARIANTS FocusTold WindowsSound
PROPERTIES MessagesInOrder GetMessageReturns
