------------------------------- MODULE MCPages -------------------------------
EXTENDS Pages

CONSTANTS none, passwords, adobe

(* Two searches, one typed bare or with a space after it.                  *)
MCTexts == {"", "a", "a ", "b"}
MCQueries == {"a", "b"}
MCTrimmed == [t \in MCTexts |-> 
    CASE t = "" -> none [] t = "b" -> "b" [] OTHER -> "a"]
MCDataClasses == {passwords}

(* One breach of two accounts, read west of Greenwich.                      *)
MCStrings == {passwords, adobe}
MCYearOf(day) == 1970 + day \div 365
MCOffset == -300
MCBreach == [name |-> adobe, title |-> adobe, breachDate |-> 365, pwnCount |-> 2]
MCSummaryBody ==
    [totalBreaches |-> 1, totalAccountsExposed |-> 2, breachesLast12Months |-> 0,
     shareExposingPasswords |-> <<1, 1>>,
     topDataClasses |-> <<[dataClass |-> passwords, breachCount |-> 1]>>,
     largestBreach |-> MCBreach, mostRecentBreach |-> MCBreach, syncedAt |-> 0]
=============================================================================
