\* Two commands, with one title or two; chunks of two slides, one retry.
CONSTANTS
    first = first
    second = second
    Requests = {first, second}
    Titles = {"algebra 10:00:00", "geometry 10:00:00"}
    MaxSlides <- SlidesOf
    ChunkSize = 2
    MaxRetries = 1
    DiskMayFail = TRUE
SPECIFICATION Spec
INVARIANTS
    PagesInOrder
    PdfWhole
    SavedIsThere
PROPERTY Returns
