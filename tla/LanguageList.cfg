\* Two languages at first, three behind the More item; names of four characters.
CONSTANTS
    de = de
    en = en
    fr = fr
    af = af
    az = az
    ja = ja
    Locales = {de, en, fr, af, az}
    Offered = {de, en, ja}
    SortKey <- MCSortKey
    Id <- MCId
    More = More
    Stages = {"Checking for updates", "Update failed"}
    MaxChars = 4
SPECIFICATION PageSpec
INVARIANTS RowsRight OneMark InTheLanguage IsUnaccented
CHECK_DEADLOCK FALSE
