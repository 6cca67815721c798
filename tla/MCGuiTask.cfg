CONSTANTS
    UI = UI
    Render = Render
    Worker = Worker
    Nobody = Nobody
    Thread <- MCThread
    Tasks <- MCTasks
    UserMay = {"start", "pause", "play", "stop", "click"}
    MaxJobs = 2
SPECIFICATION FairSpec
INVARIANTS TypeOK LockDiscipline ReadsAlone NoCircularWait ButtonsMeanTask
PROPERTY UiNotStarved
