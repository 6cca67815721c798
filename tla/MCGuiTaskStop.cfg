CONSTANTS
    UI = UI
    Render = Render
    Worker = Worker
    Nobody = Nobody
    Thread <- MCThread
    Tasks <- MCTasks
    UserMay = {"start", "pause", "play", "stop", "click"}
    MaxJobs = 1
SPECIFICATION Spec
INVARIANT StopReachesTask
