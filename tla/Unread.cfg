SPECIFICATION FairUnreadSpec
CONSTANTS
    Games = {1, 2}
    NoGame = 0
    SeenAfter = 2
    MaxSeconds = 2
    MaxMessages = 2
    MaxReplies = 1

    
PROPERTIES
    WatchedIsRead
