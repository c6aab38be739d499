SPECIFICATION FairSpec
CONSTANTS
    Word = 2
    MainItems = 6
    Lines = 2
    MAX_FILES = 3
INVARIANTS
    ScreenShowsSelection
PROPERTIES
    OncePerPress
    RunsWhatIsShown
    ReadsAgain
