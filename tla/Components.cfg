CONSTANTS
    peer1 = peer1
    peer2 = peer2
    peer3 = peer3
    answer1 = answer1
    task1 = task1
    task2 = task2
    task3 = task3
    none = none
SPECIFICATION Spec
INVARIANTS
    OneContactPerPeer
    CopiesExcused
    NothingForgotten
    LoginsInTurn
    TokenKept
    NewLoginStays
    AnswersFindPeer
PROPERTIES
    ContactKeepsPeer
    NotIntoResolved
    OwnEditsStayOut
    OrderKept
    NamesStay
    RemovalLeavesMoved
SYMMETRY Symmetry
CHECK_DEADLOCK FALSE
