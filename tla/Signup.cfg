SPECIFICATION FairSpec
CONSTANTS
    ann = ann
    Ann = Ann
    mailbox = mailbox
    Spellings = {ann, Ann}
    Mailbox <- MCMailbox
    Forms = {f1}
    Nobody = Nobody
    Passwords = {letmein1, xkcd936}
    Leaked = {letmein1}
    Padding = {xkcd936}
    letmein1 = letmein1
    xkcd936 = xkcd936
    range = range
    Prefix <- MCPrefix
    Blank = Blank
    Basic = Basic
    Family = Family
    NoPlan = NoPlan
    MaxEdits = 4
    MaxLosses = 1
    MaxVisits = 1
INVARIANTS OneAccountPerMailbox ConfirmsAStoredPlan LeakFlagIsEarned NoticeIsAboutThePassword
PROPERTIES Settles AccountsAreAnnounced
CHECK_DEADLOCK FALSE
