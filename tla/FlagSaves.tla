------------------------------ MODULE FlagSaves ------------------------------
(***************************************************************************)
(* The flag console: operators editing one feature flag in several tabs,   *)
(* and the optimistic lock that keeps their saves from overwriting each    *)
(* other.                                                                  *)
(*                                                                         *)
(* A flag's content is the set of edits it carries: a toggle, a weight or  *)
(* a line of copy is one edit, and the seeded flag carries none.  The form *)
(* is sent whole, so a save that is not built on the stored flag would     *)
(* drop what others stored.                                                *)
(***************************************************************************)
EXTENDS HttpClient, FiniteSets
LOCAL INSTANCE FiniteSetsExt

CONSTANTS Tabs,       \* browser tabs showing the console
          Nobody,     \* the sender of a request whose page is gone
          Edits,      \* bound: the edits operators will ever make
          Weights,    \* the edits of a weight, one for each variant
          Typed,      \* Typed[e]: the number typed into a weight's box, if it is one
          Seeded,     \* Seeded[e]: that variant's weight before
          MaxWrites,  \* bound on stored saves
          MaxReloads, \* bound on page loads after the first
          MaxLosses,  \* bound on requests or answers lost on the way
          MaxHasty    \* bound on edits made between an answer and its render

VARIABLES row,      \* the stored flag: its lock token, its edits, who wrote it
          page,     \* each tab's list: "loading", "ready" or "failed"
          form,     \* the flag each tab holds: lock token and edits
          save,     \* each tab's SaveStatus
          edited,   \* each tab's editedSinceSaveStarted
          rendered, \* the flag each tab's handlers close over, from its last render
          wire,     \* PATCH requests and their answers on the way
          made,     \* bound: the edits made so far
          reloads, losses, hasty

bounds == <<made, reloads, losses, hasty>>
vars == <<row, page, form, save, edited, rendered, wire, bounds>>

ASSUME SavesAssumption ==
    /\ Nobody \notin Tabs
    /\ IsFiniteSet(Edits) /\ Weights \subseteq Edits
    /\ DOMAIN Typed = Weights
    /\ \A e \in Weights : Typed[e] \subseteq Int /\ Cardinality(Typed[e]) <= 1
    /\ Seeded \in [Weights -> 0..100]
    /\ {MaxWrites, MaxReloads, MaxLosses, MaxHasty} \subseteq Nat

WEIGHT_TOTAL == 100

SaveStatus == {"idle", "saving", "saved", "conflict", "failed"}

Flag == [token : Nat, edits : SUBSET Edits]

(* Wire to model, and the model's immutable updates.                       *)
fromDTO(stored) == [token |-> stored.token, edits |-> stored.edits]

withEdit(flag, e) == [flag EXCEPT !.edits = @ \cup {e}]

setLockToken(flag, token) == [flag EXCEPT !.token = token]

(* A request carries the whole form; `stage` becomes its answer.           *)
Request == [from : Tabs \cup {Nobody}, token : Nat, edits : SUBSET Edits,
            stage : {"sent", "ok", "conflict", "refused"}, newToken : Nat]

Init ==
    /\ row = [token |-> 0, edits |-> {}, by |-> Nobody]
    /\ page = [t \in Tabs |-> "loading"]
    /\ form = [t \in Tabs |-> [token |-> 0, edits |-> {}]]
    /\ save = [t \in Tabs |-> "idle"]
    /\ edited = [t \in Tabs |-> FALSE]
    /\ rendered = form
    /\ wire = {}
    /\ made = {}
    /\ reloads = 0 /\ losses = 0 /\ hasty = 0

-----------------------------------------------------------------------------
(* The list: one load per attempt, replaced whole by a reload.             *)

LoadFlags(t) ==
    /\ page[t] = "loading"
    /\ page' = [page EXCEPT ![t] = "ready"]
    /\ form' = [form EXCEPT ![t] = fromDTO(row)]
    /\ rendered' = [rendered EXCEPT ![t] = fromDTO(row)]
    /\ UNCHANGED <<row, save, edited, wire, bounds>>

LoadFails(t) ==
    /\ page[t] = "loading"
    /\ losses < MaxLosses
    /\ page' = [page EXCEPT ![t] = "failed"]
    /\ losses' = losses + 1
    /\ UNCHANGED <<row, form, save, edited, rendered, wire, made, reloads, hasty>>

(* "Try again" over a failed list, or the browser's own reload: the editor *)
(* mounts afresh, and a save still out is nobody's -- the server may have  *)
(* it, and its answer lands on no page.                                    *)
Reload(t) ==
    /\ page[t] # "loading"
    /\ reloads < MaxReloads
    /\ reloads' = reloads + 1
    /\ page' = [page EXCEPT ![t] = "loading"]
    /\ save' = [save EXCEPT ![t] = "idle"]
    /\ edited' = [edited EXCEPT ![t] = FALSE]
    /\ rendered' = [rendered EXCEPT ![t] = form[t]]
    /\ wire' = {IF r.from = t THEN [r EXCEPT !.from = Nobody] ELSE r : r \in wire}
    /\ UNCHANGED <<row, form, made, losses, hasty>>

-----------------------------------------------------------------------------
(* The editor.                                                             *)

isSaving(t) == save[t] = "saving"

(* A save's answer sets state from a promise: React renders it in a task   *)
(* of its own, and until then the handlers on screen are the last one's.   *)
(* (A failed one brings no flag, and its render is not told apart.)        *)
Render(t) ==
    /\ rendered[t] # form[t]
    /\ rendered' = [rendered EXCEPT ![t] = form[t]]
    /\ UNCHANGED <<row, page, form, save, edited, wire, bounds>>

(* An edit withdraws the last answer, but never a save still in flight.    *)
(* It hands back the whole flag its field was rendered from; being typed,  *)
(* it is rendered before the next event.                                   *)
handleFlagEdited(t, e) ==
    /\ page[t] = "ready"
    /\ e \notin made
    /\ made' = made \cup {e}
    /\ IF rendered[t] = form[t]
       THEN UNCHANGED hasty
       ELSE hasty < MaxHasty /\ hasty' = hasty + 1
    /\ form' = [form EXCEPT ![t] = withEdit(rendered[t], e)]
    /\ edited' = [edited EXCEPT ![t] = isSaving(t) \/ @]
    /\ save' = [save EXCEPT ![t] = IF isSaving(t) THEN @ ELSE "idle"]
    /\ rendered' = [rendered EXCEPT ![t] = withEdit(@, e)]
    /\ UNCHANGED <<row, page, wire, reloads, losses>>

handleWeightChange(t, e) == e \in Weights /\ handleFlagEdited(t, e)

handleCopyChange(t, e) == e \notin Weights /\ handleFlagEdited(t, e)

(* A number box hands over whatever was typed, or nothing at all.          *)
clampWeight(typed) ==
    IF typed = {} THEN 0 ELSE LET n == CHOOSE n \in typed : TRUE
                              IN  IF n < 0 THEN 0 ELSE IF n > WEIGHT_TOTAL THEN WEIGHT_TOTAL ELSE n

(* The seeded weights cover every bucket; the weights in a form's edits    *)
(* move the sum, copy and the toggle do not.                               *)
totalWeight(edits) ==
    WEIGHT_TOTAL + MapThenSumSet(LAMBDA e : clampWeight(Typed[e]) - Seeded[e], edits \cap Weights)

hasCompleteSplit(edits) == totalWeight(edits) = WEIGHT_TOTAL

(* The button: disabled over an incomplete split, while a save is out, and *)
(* without an admin token, which is the operator's choice to paste.  It is *)
(* as it was last rendered: disabled until an answer is.                   *)
canSave(t) ==
    /\ page[t] = "ready"
    /\ ~ isSaving(t) /\ rendered[t] = form[t]
    /\ hasCompleteSplit(form[t].edits)

(* The whole form goes out, with the token it was built on.                *)
toUpdatePayload(t, flag) == [from |-> t, token |-> flag.token, edits |-> flag.edits,
                             stage |-> "sent", newToken |-> 0]

handleSave(t) ==
    /\ canSave(t)
    /\ save' = [save EXCEPT ![t] = "saving"]
    /\ edited' = [edited EXCEPT ![t] = FALSE]
    /\ wire' = wire \cup {toUpdatePayload(t, rendered[t])}
    /\ UNCHANGED <<row, page, form, rendered, bounds>>

-----------------------------------------------------------------------------
(* PATCH /feature-flags/{key}.                                             *)

Respond(r, stage, newToken) ==
    wire' = (wire \ {r}) \cup {[r EXCEPT !.stage = stage, !.newToken = newToken]}

(* A wrong admin token (401), or variants the guard refuses (400).         *)
Refuse(r) ==
    /\ r.stage = "sent"
    /\ Respond(r, "refused", 0)
    /\ UNCHANGED <<row, page, form, save, edited, rendered, bounds>>

(* Mutant: last write wins.                                                *)
AnyToken(r) == TRUE

(* UPDATE ... WHERE updated_at = the token, one statement, committed       *)
(* before the answer: clock_timestamp() is a token no save has seen.       *)
TokenMatches(r) == r.token = row.token

update_flag(r) ==
    /\ r.stage = "sent"
    /\ TokenMatches(r)
    /\ row.token < MaxWrites
    /\ row' = [token |-> row.token + 1, edits |-> r.edits, by |-> r.from]
    /\ Respond(r, "ok", row.token + 1)
    /\ UNCHANGED <<page, form, save, edited, rendered, bounds>>

(* No row matched and the flag exists: 409.                                *)
LockConflict(r) ==
    /\ r.stage = "sent"
    /\ ~ TokenMatches(r)
    /\ Respond(r, "conflict", 0)
    /\ UNCHANGED <<row, page, form, save, edited, rendered, bounds>>

-----------------------------------------------------------------------------
(* The answer reaches the page that asked, if it is still there.           *)

(* Mutants: the answer replaces the whole form, or the token is not        *)
(* applied.                                                                *)
onSavedReplaces(t, r) == [form EXCEPT ![t] = [token |-> r.newToken, edits |-> r.edits]]

onSavedIgnored(t, r) == form

(* Only the new token is applied, to whatever the form holds by now.       *)
onSaved(t, r) == [form EXCEPT ![t] = setLockToken(@, r.newToken)]

(* Mutant: edits made while saving are forgotten.                          *)
AlwaysSaved(t) == "saved"

(* And only an unedited form may be called saved.                          *)
StatusAfterSave(t) == IF edited[t] THEN "idle" ELSE "saved"

Saved(r) ==
    /\ r.stage = "ok"
    /\ r.from # Nobody
    /\ wire' = wire \ {r}
    /\ form' = onSaved(r.from, r)
    /\ save' = [save EXCEPT ![r.from] = StatusAfterSave(r.from)]
    /\ UNCHANGED <<row, page, edited, rendered, bounds>>

(* A conflict and every other failure are different things to do next.     *)
StatusOfFailure(error) == IF HTTP_CONFLICT \in statusOfError(error) THEN "conflict" ELSE "failed"

(* 409 for the lock; 401 or 400 for what the server would not take.        *)
ErrorOf(r) ==
    Answered(IF r.stage = "conflict" THEN HTTP_CONFLICT ELSE HTTP_UNAUTHORIZED)

Rejected(r) ==
    /\ r.stage \in {"conflict", "refused"}
    /\ r.from # Nobody
    /\ wire' = wire \ {r}
    /\ save' = [save EXCEPT ![r.from] = StatusOfFailure(ErrorOf(r))]
    /\ UNCHANGED <<row, page, form, edited, rendered, bounds>>

(* The connection fails before the server sees the request, while it works *)
(* or after it has answered: the page cannot tell which, and the request   *)
(* may still be on its way.                                                *)
Lose(r) ==
    /\ r.from # Nobody
    /\ losses < MaxLosses
    /\ losses' = losses + 1
    /\ wire' = (wire \ {r}) \cup {[r EXCEPT !.from = Nobody]}
    /\ save' = [save EXCEPT ![r.from] = StatusOfFailure(Unanswered)]
    /\ UNCHANGED <<row, page, form, edited, rendered, made, reloads, hasty>>

(* Nobody waits for it: it never reaches the server, or its answer falls.  *)
Drop(r) ==
    /\ r.from = Nobody
    /\ wire' = wire \ {r}
    /\ UNCHANGED <<row, page, form, save, edited, rendered, bounds>>

-----------------------------------------------------------------------------
Console(t) ==
    \/ LoadFlags(t) \/ LoadFails(t) \/ Reload(t) \/ Render(t) \/ handleSave(t)
    \/ \E e \in Edits : handleWeightChange(t, e) \/ handleCopyChange(t, e)

Server(r) == Refuse(r) \/ update_flag(r) \/ LockConflict(r)

Network(r) == Saved(r) \/ Rejected(r) \/ Lose(r) \/ Drop(r)

Next == (\E t \in Tabs : Console(t)) \/ (\E r \in wire : Server(r) \/ Network(r))

Spec == Init /\ [][Next]_vars

-----------------------------------------------------------------------------
TypeOK ==
    /\ row \in [token : Nat, edits : SUBSET Edits, by : Tabs \cup {Nobody}]
    /\ page \in [Tabs -> {"loading", "ready", "failed"}]
    /\ form \in [Tabs -> Flag]
    /\ save \in [Tabs -> SaveStatus]
    /\ edited \in [Tabs -> BOOLEAN]
    /\ rendered \in [Tabs -> Flag]
    /\ wire \subseteq Request
    /\ made \subseteq Edits
    /\ reloads \in Nat /\ losses \in Nat /\ hasty \in Nat

(* No lost update: an edit once stored stays stored, whoever saves next,   *)
(* from however old a page (feature_flags/router.py:47).                   *)
NoLostUpdate == [][row.edits \subseteq row'.edits]_vars

(* "Saved." claims the value on screen is the value stored: every edit the *)
(* form shows is in the stored flag (FlagEditor.tsx:76-79, BF64).          *)
SavedMeansStored == \A t \in Tabs : save[t] = "saved" => form[t].edits \subseteq row.edits

(* What the operator typed survives every answer: only leaving the page    *)
(* takes an edit off the form (FlagEditor.tsx:95-97).                      *)
EditsSurviveAnswers ==
    [][\A t \in Tabs : page[t] = "ready" /\ page'[t] = "ready"
                          => form[t].edits \subseteq form'[t].edits]_vars

(* What the operator is told of a save that was answered is so.  "This     *)
(* flag changed somewhere else": a tab never conflicts with its own last   *)
(* save, because the new token is applied even over an edited form         *)
(* (FlagEditor.tsx:99-101) and a second save never overlaps the first.     *)
(* "The flag could not be saved and is unchanged" (FlagEditor.utils.ts:    *)
(* 90-91): the stored flag is not a version this very page wrote without   *)
(* knowing it.  Both only as long as no answer was lost (the page reports  *)
(* it as a failed save, stored or not) and nothing was typed between an    *)
(* answer and its render: that edit puts the old lock token back           *)
(* (Admin.tsx:40-42), and the tab's own next save is a conflict.           *)
ConflictIsElsewhere == \A t \in Tabs : save[t] = "conflict" => row.by # t

FailedMeansUnchanged ==
    \A t \in Tabs : save[t] = "failed" /\ row.by = t => row.token = form[t].token

AnswersAreTrue == losses = 0 /\ hasty = 0 => ConflictIsElsewhere /\ FailedMeansUnchanged
=============================================================================
