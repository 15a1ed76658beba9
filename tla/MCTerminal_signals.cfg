SPECIFICATION FairTSpec
CONSTANTS
    x1 = x1
    Char = {x1}
    Escape <- ArrowKey
    Reader = {4, 5}
    InitTid = 4
    BUF_SIZE = 2
    Word = 5
    Letter = {"c"}
    Sign = {}
    Arrow = {"up"}
    Unshifted <- MCGlyph
    Shifted <- MCGlyph
    CtrlByte <- MCCtrl
    Key <- MCKey
    Signal = {"INT", "KILL"}
    Acts <- MCActs
    Serial = {"nl", "erase", "kill", "susp", "intr"}
CHECK_DEADLOCK FALSE
INVARIANT ModifiersFollowKeys
PROPERTY ImplementsLineQueue
PROPERTY KilledLeaves
