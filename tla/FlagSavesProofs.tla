--------------------------- MODULE FlagSavesProofs ---------------------------
(***************************************************************************)
(* Theorems about FlagSaves, for any number of tabs, edits, reloads and    *)
(* losses: the optimistic lock never loses an update, and "Saved." is only *)
(* said of a form the stored flag contains.                                *)
(*                                                                         *)
(* Neither is inductive.  Lineage is what the lock rests on: whatever      *)
(* carries the stored token -- a form, a request on its way, an answer --  *)
(* already contains every stored edit -- the flag of a render that is      *)
(* behind included.  Ownership ties a request to the form it was sent      *)
(* from, whatever is typed meanwhile.                                      *)
(*                                                                         *)
(* The last two are about FlagFields: the console's fields have names, and *)
(* no two of a flag's have the same.                                       *)
(***************************************************************************)
EXTENDS FlagSaves, FlagFields, TLAPS

(* An edited or unedited form still shows all that its request carries.    *)
Ownership ==
    \A r \in wire : r.from \in Tabs =>
        /\ page[r.from] = "ready"
        /\ save[r.from] = "saving"
        /\ r.edits \subseteq form[r.from].edits
        /\ ~ edited[r.from] => form[r.from].edits = r.edits

OneRequestEach ==
    \A r, q \in wire : r.from = q.from /\ r.from \in Tabs => r = q

QuietUntilReady == \A t \in Tabs : page[t] # "ready" => save[t] = "idle"

(* A render can be behind by a token, never by an edit; and while a save   *)
(* is out it is not behind at all.                                         *)
RenderedAsHeld ==
    \A t \in Tabs : page[t] = "ready" =>
        /\ rendered[t].edits = form[t].edits
        /\ save[t] = "saving" => rendered[t] = form[t]

DescendsFrom(flag) ==
    /\ flag.token <= row.token
    /\ flag.token = row.token => row.edits \subseteq flag.edits

FormLineage ==
    \A t \in Tabs : page[t] = "ready" => DescendsFrom(form[t]) /\ DescendsFrom(rendered[t])

RequestLineage ==
    \A r \in wire :
        /\ r.token <= row.token
        /\ r.stage = "sent" /\ r.token = row.token => row.edits \subseteq r.edits

AnswerLineage ==
    \A r \in wire : r.stage = "ok" =>
        /\ r.newToken <= row.token
        /\ r.edits \subseteq row.edits
        /\ r.newToken = row.token => row.edits \subseteq r.edits

Lineage == FormLineage /\ RequestLineage /\ AnswerLineage

(* Records in, records out: what the translator and the setters build is   *)
(* expanded wherever it is met.                                            *)
USE DEF fromDTO, toUpdatePayload, withEdit, setLockToken, handleWeightChange, handleCopyChange,
        bounds

-----------------------------------------------------------------------------
Answers == {"ok", "conflict", "refused"}

(* Respond swaps a request for its answer: the same form, and a stage.     *)
ServedWith(r, stage, n) ==
    \E a \in Request :
        /\ wire' = (wire \ {r}) \cup {a}
        /\ a.from = r.from /\ a.token = r.token /\ a.edits = r.edits
        /\ a.stage = stage /\ a.newToken = n

(* What the page makes of a failure.                                       *)
LEMMA Failures ==
    /\ \A r : StatusOfFailure(ErrorOf(r)) = IF r.stage = "conflict" THEN "conflict" ELSE "failed"
    /\ StatusOfFailure(Unanswered) = "failed"
<1>1. ASSUME NEW s
      PROVE  statusOfError(Answered(s)) = {s}
  <2>1. Answered(s).isAxiosError /\ Answered(s).response = {s}
    BY DEF Answered
  <2> QED BY <2>1 DEF statusOfError
<1>2. statusOfError(Unanswered) = {}
  BY DEF statusOfError, Unanswered
<1>3. 409 \in {409} /\ 409 \notin {401} /\ 409 \notin {}
  OBVIOUS
<1> QED BY <1>1, <1>2, <1>3 DEF StatusOfFailure, ErrorOf, HTTP_CONFLICT, HTTP_UNAUTHORIZED

LEMMA RespondAnswers ==
    ASSUME TypeOK, NEW r \in wire, NEW stage \in Answers, NEW n \in Nat,
           Respond(r, stage, n)
    PROVE  ServedWith(r, stage, n)
<1> DEFINE a == [r EXCEPT !.stage = stage, !.newToken = n]
<1>1. r \in Request
  BY DEF TypeOK
<1>2. a \in Request
  BY <1>1 DEF Request, Answers
<1>3. /\ a.from = r.from /\ a.token = r.token /\ a.edits = r.edits
      /\ a.stage = stage /\ a.newToken = n
  BY <1>1 DEF Request
<1>4. wire' = (wire \ {r}) \cup {a}
  BY DEF Respond
<1> QED BY <1>2, <1>3, <1>4 DEF ServedWith

(* Lose and Reload make a request nobody's and change nothing else of it.  *)
Disowned(r) == [r EXCEPT !.from = Nobody]

LEMMA DisownedFields ==
    \A r \in Request :
        /\ Disowned(r) \in Request
        /\ Disowned(r).from = Nobody /\ Disowned(r).token = r.token
        /\ Disowned(r).edits = r.edits /\ Disowned(r).stage = r.stage
        /\ Disowned(r).newToken = r.newToken
BY DEF Request, Disowned

(* Every console action, server step and delivery keeps the types.         *)
LEMMA TypeStep == TypeOK /\ [Next]_vars => TypeOK'
<1> SUFFICES ASSUME TypeOK, [Next]_vars PROVE TypeOK'
  OBVIOUS
<1> USE SavesAssumption
<1>1. ASSUME NEW t \in Tabs, Console(t) PROVE TypeOK'
  <2>1. CASE LoadFlags(t)
    BY <2>1 DEF LoadFlags, TypeOK, Flag
  <2>2. CASE LoadFails(t)
    BY <2>2 DEF LoadFails, TypeOK
  <2>3. CASE Reload(t)
    <3>1. wire' \subseteq Request
      BY <2>3 DEF Reload, TypeOK, Request
    <3> QED BY <2>3, <3>1 DEF Reload, TypeOK, SaveStatus
  <2>4. CASE handleSave(t)
    <3>1. wire' \subseteq Request
      BY <2>4 DEF handleSave, TypeOK, Request, Flag
    <3> QED BY <2>4, <3>1 DEF handleSave, TypeOK, SaveStatus
  <2>5. ASSUME NEW e \in Edits, handleFlagEdited(t, e) PROVE TypeOK'
    <3>1. form' \in [Tabs -> Flag] /\ rendered' \in [Tabs -> Flag]
      BY <2>5 DEF handleFlagEdited, TypeOK, Flag
    <3>2. edited' \in [Tabs -> BOOLEAN]
      BY <2>5 DEF handleFlagEdited, TypeOK, isSaving
    <3>3. hasty' \in Nat
      BY <2>5 DEF handleFlagEdited, TypeOK
    <3> QED BY <2>5, <3>1, <3>2, <3>3 DEF handleFlagEdited, TypeOK, SaveStatus, isSaving
  <2>6. CASE Render(t)
    BY <2>6 DEF Render, TypeOK
  <2> QED BY <1>1, <2>1, <2>2, <2>3, <2>4, <2>5, <2>6 DEF Console
<1>2. ASSUME NEW r \in wire, Server(r) PROVE TypeOK'
  <2>1. r \in Request
    BY DEF TypeOK
  <2>2. CASE Refuse(r)
    <3>1. ServedWith(r, "refused", 0)
      BY <2>2, RespondAnswers DEF Refuse, TypeOK, Answers
    <3>2. wire' \subseteq Request
      BY <3>1 DEF ServedWith, TypeOK
    <3> QED BY <2>2, <3>2 DEF Refuse, TypeOK
  <2>3. CASE update_flag(r)
    <3>1. ServedWith(r, "ok", row.token + 1)
      BY <2>3, RespondAnswers DEF update_flag, TypeOK, Answers
    <3>2. wire' \subseteq Request
      BY <3>1 DEF ServedWith, TypeOK
    <3> QED BY <2>1, <2>3, <3>2 DEF update_flag, TypeOK, Request
  <2>4. CASE LockConflict(r)
    <3>1. ServedWith(r, "conflict", 0)
      BY <2>4, RespondAnswers DEF LockConflict, TypeOK, Answers
    <3>2. wire' \subseteq Request
      BY <3>1 DEF ServedWith, TypeOK
    <3> QED BY <2>4, <3>2 DEF LockConflict, TypeOK
  <2> QED BY <1>2, <2>2, <2>3, <2>4 DEF Server
<1>3. ASSUME NEW r \in wire, Network(r) PROVE TypeOK'
  <2>1. r \in Request
    BY DEF TypeOK
  <2>2. CASE Saved(r)
    <3>1. form' \in [Tabs -> Flag]
      BY <2>1, <2>2 DEF Saved, onSaved, TypeOK, Request, Flag
    <3> QED BY <2>1, <2>2, <3>1 DEF Saved, StatusAfterSave, TypeOK, Request, SaveStatus
  <2>3. CASE Rejected(r)
    BY Failures, <2>1, <2>3 DEF Rejected, TypeOK, Request, SaveStatus
  <2>4. CASE Lose(r)
    <3>1. wire' \subseteq Request
      BY <2>1, <2>4 DEF Lose, TypeOK, Request
    <3> QED BY Failures, <2>1, <2>4, <3>1 DEF Lose, TypeOK, Request, SaveStatus
  <2>5. CASE Drop(r)
    BY <2>5 DEF Drop, TypeOK
  <2> QED BY <1>3, <2>2, <2>3, <2>4, <2>5 DEF Network
<1>4. CASE UNCHANGED vars
  BY <1>4 DEF vars, TypeOK
<1> QED BY <1>1, <1>2, <1>3, <1>4 DEF Next

(* Type correctness of the console, the lock and the wire.                 *)
THEOREM TypeCorrect == Spec => []TypeOK
<1>1. Init => TypeOK
  BY SavesAssumption DEF Init, TypeOK, Flag, SaveStatus, Request
<1> QED BY <1>1, TypeStep, PTL DEF Spec

-----------------------------------------------------------------------------
(* The tab a request came from stays tied to it until an answer, a loss or *)
(* a reload parts them.                                                    *)
Tied == Ownership /\ OneRequestEach /\ QuietUntilReady /\ RenderedAsHeld

LEMMA ConsoleKeepsTied ==
    ASSUME TypeOK, Tied, NEW t \in Tabs, Console(t)
    PROVE  Tied'
<1> USE SavesAssumption
<1>1. CASE LoadFlags(t)
  BY <1>1 DEF LoadFlags, TypeOK, Flag, Tied, Ownership, OneRequestEach, QuietUntilReady,
              RenderedAsHeld
<1>2. CASE LoadFails(t)
  BY <1>2 DEF LoadFails, TypeOK, Tied, Ownership, OneRequestEach, QuietUntilReady, RenderedAsHeld
<1>3. CASE Reload(t)
  <2>1. \A q \in wire' : q.from \in Tabs => q \in wire /\ q.from # t
    <3> SUFFICES ASSUME NEW q \in wire', q.from \in Tabs PROVE q \in wire /\ q.from # t
      OBVIOUS
    <3>1. PICK r \in wire : q = IF r.from = t THEN Disowned(r) ELSE r
      BY <1>3 DEF Reload, Disowned
    <3>2. r.from # t
      BY <3>1, DisownedFields DEF TypeOK
    <3> QED BY <3>1, <3>2
  <2>2. Ownership'
    BY <1>3, <2>1 DEF Reload, TypeOK, Tied, Ownership
  <2>3. OneRequestEach'
    BY <2>1 DEF Tied, OneRequestEach
  <2>4. QuietUntilReady'
    BY <1>3 DEF Reload, TypeOK, Tied, QuietUntilReady
  <2>5. RenderedAsHeld'
    BY <1>3 DEF Reload, TypeOK, Tied, RenderedAsHeld
  <2> QED BY <2>2, <2>3, <2>4, <2>5 DEF Tied
<1>4. CASE handleSave(t)
  <2> DEFINE new == [from |-> t, token |-> rendered[t].token, edits |-> rendered[t].edits,
                     stage |-> "sent", newToken |-> 0]
  <2>1. /\ page[t] = "ready" /\ save[t] # "saving" /\ rendered[t] = form[t]
        /\ wire' = wire \cup {new}
        /\ save' = [save EXCEPT ![t] = "saving"] /\ edited' = [edited EXCEPT ![t] = FALSE]
        /\ page' = page /\ form' = form /\ rendered' = rendered
    BY <1>4 DEF handleSave, canSave, isSaving
  <2>2. \A r \in wire : r.from \in Tabs => r.from # t
    BY <2>1 DEF Tied, Ownership
  <2>3. new.from = t /\ new.edits = form[t].edits
    BY <2>1
  <2> HIDE DEF new
  <2>4. Ownership'
    BY <2>1, <2>2, <2>3 DEF TypeOK, Tied, Ownership
  <2>5. OneRequestEach'
    BY <2>1, <2>2, <2>3 DEF Tied, OneRequestEach
  <2>6. QuietUntilReady'
    BY <2>1 DEF TypeOK, Tied, QuietUntilReady
  <2>7. RenderedAsHeld'
    BY <2>1 DEF TypeOK, Tied, RenderedAsHeld
  <2> QED BY <2>4, <2>5, <2>6, <2>7 DEF Tied
<1>5. ASSUME NEW e \in Edits, handleFlagEdited(t, e) PROVE Tied'
  <2>0. /\ rendered[t].edits = form[t].edits
        /\ save[t] = "saving" => rendered[t] = form[t]
    BY <1>5 DEF handleFlagEdited, Tied, RenderedAsHeld
  <2>1. \A u \in Tabs : /\ u # t => form'[u] = form[u] /\ edited'[u] = edited[u]
                        /\ form[u].edits \subseteq form'[u].edits
                        /\ save[u] = "saving" => save'[u] = "saving"
    BY <1>5, <2>0 DEF handleFlagEdited, TypeOK, Flag, isSaving
  <2>2. save[t] = "saving" => edited'[t]
    BY <1>5 DEF handleFlagEdited, TypeOK, isSaving
  <2>3. wire' = wire /\ page' = page
    BY <1>5 DEF handleFlagEdited
  <2>4. Ownership'
    BY <2>1, <2>2, <2>3 DEF Tied, Ownership
  <2>5. OneRequestEach'
    BY <2>3 DEF Tied, OneRequestEach
  <2>6. QuietUntilReady'
    BY <1>5 DEF handleFlagEdited, isSaving, TypeOK, Tied, QuietUntilReady
  <2>7. RenderedAsHeld'
    <3>1. /\ rendered'[t] = form'[t]
          /\ \A u \in Tabs : u # t => rendered'[u] = rendered[u] /\ save'[u] = save[u]
      BY <1>5 DEF handleFlagEdited, TypeOK
    <3> QED BY <2>1, <2>3, <3>1 DEF Tied, RenderedAsHeld
  <2> QED BY <2>4, <2>5, <2>6, <2>7 DEF Tied
<1>6. CASE Render(t)
  BY <1>6 DEF Render, TypeOK, Tied, Ownership, OneRequestEach, QuietUntilReady, RenderedAsHeld
<1> QED BY <1>1, <1>2, <1>3, <1>4, <1>5, <1>6 DEF Console

LEMMA ServerKeepsTied ==
    ASSUME TypeOK, Tied, NEW r \in wire, Server(r)
    PROVE  Tied'
<1>1. PICK stage \in Answers, n \in Nat : Respond(r, stage, n)
  <2>1. row.token + 1 \in Nat
    BY DEF TypeOK
  <2> QED BY <2>1 DEF Server, Refuse, update_flag, LockConflict, Answers
<1>2. UNCHANGED <<page, form, save, edited, rendered>>
  BY DEF Server, Refuse, update_flag, LockConflict
<1>3. PICK a \in Request :
        wire' = (wire \ {r}) \cup {a} /\ a.from = r.from /\ a.edits = r.edits
  BY <1>1, RespondAnswers DEF ServedWith
<1>4. Ownership'
  BY <1>2, <1>3 DEF Tied, Ownership
<1>5. OneRequestEach'
  BY <1>3 DEF Tied, OneRequestEach
<1>6. QuietUntilReady' /\ RenderedAsHeld'
  BY <1>2 DEF Tied, QuietUntilReady, RenderedAsHeld
<1> QED BY <1>4, <1>5, <1>6 DEF Tied

LEMMA NetworkKeepsTied ==
    ASSUME TypeOK, Tied, NEW r \in wire, Network(r)
    PROVE  Tied'
<1> USE SavesAssumption
<1>1. r \in Request
  BY DEF TypeOK
<1>2. \A q \in wire' : q.from \in Tabs => q \in wire /\ q.from # r.from
  <2>1. CASE Lose(r)
    BY <1>1, <2>1, DisownedFields DEF Lose, Disowned, Tied, OneRequestEach
  <2>2. CASE ~ Lose(r)
    <3>1. wire' = wire \ {r}
      BY <2>2 DEF Network, Saved, Rejected, Drop
    <3>2. CASE r.from \in Tabs
      BY <3>1, <3>2 DEF Tied, OneRequestEach
    <3>3. CASE r.from = Nobody
      BY <3>1, <3>3
    <3> QED BY <1>1, <3>2, <3>3 DEF Request
  <2> QED BY <2>1, <2>2
<1>3. /\ page' = page /\ edited' = edited
      /\ \A u \in Tabs : u # r.from => form'[u] = form[u] /\ save'[u] = save[u]
  BY DEF Network, Saved, Rejected, Lose, Drop, onSaved, TypeOK
<1>4. Ownership'
  BY <1>2, <1>3 DEF Tied, Ownership
<1>5. OneRequestEach'
  BY <1>2 DEF Tied, OneRequestEach
<1>6. QuietUntilReady'
  <2>1. r.from \in Tabs => page[r.from] = "ready"
    BY DEF Tied, Ownership
  <2> QED BY <1>3, <2>1 DEF Tied, QuietUntilReady
<1>7. RenderedAsHeld'
  <2>1. /\ rendered' = rendered
        /\ \A u \in Tabs : /\ form'[u].edits = form[u].edits
                           /\ save'[u] = "saving" => save[u] = "saving" /\ form'[u] = form[u]
    BY <1>1, Failures DEF Network, Saved, Rejected, Lose, Drop, onSaved, StatusAfterSave,
                          TypeOK, Flag, Request
  <2> QED BY <1>3, <2>1 DEF Tied, RenderedAsHeld
<1> QED BY <1>4, <1>5, <1>6, <1>7 DEF Tied

-----------------------------------------------------------------------------
(* Whatever carries the stored token carries every stored edit.            *)
LEMMA ConsoleKeepsLineage ==
    ASSUME TypeOK, Tied, Lineage, NEW t \in Tabs, Console(t)
    PROVE  Lineage'
<1>1. row' = row
  BY DEF Console, LoadFlags, LoadFails, Reload, Render, handleSave, handleFlagEdited
<1>2. FormLineage'
  <2>1. CASE LoadFlags(t)
    <3>1. form'[t] = fromDTO(row) /\ rendered'[t] = fromDTO(row)
      BY <2>1 DEF LoadFlags, TypeOK
    <3>2. \A u \in Tabs : u # t => UNCHANGED <<form[u], rendered[u], page[u]>>
      BY <2>1 DEF LoadFlags, TypeOK
    <3>3. row.token \in Nat
      BY DEF TypeOK
    <3> QED BY <1>1, <3>1, <3>2, <3>3 DEF Lineage, FormLineage, DescendsFrom
  <2>2. CASE LoadFails(t) \/ Reload(t)
    BY <1>1, <2>2 DEF LoadFails, Reload, TypeOK, Lineage, FormLineage, DescendsFrom
  <2>3. CASE handleSave(t)
    BY <1>1, <2>3 DEF handleSave, Lineage, FormLineage, DescendsFrom
  <2>4. ASSUME NEW e \in Edits, handleFlagEdited(t, e) PROVE FormLineage'
    <3>1. /\ form'[t] = rendered'[t] /\ rendered'[t].token = rendered[t].token
          /\ rendered[t].edits \subseteq rendered'[t].edits
          /\ \A u \in Tabs : u # t => UNCHANGED <<form[u], rendered[u]>>
      BY <2>4 DEF handleFlagEdited, TypeOK, Flag
    <3>2. page' = page
      BY <2>4 DEF handleFlagEdited
    <3> QED BY <1>1, <3>1, <3>2 DEF Lineage, FormLineage, DescendsFrom
  <2>5. CASE Render(t)
    <3>1. /\ form' = form /\ page' = page
          /\ \A u \in Tabs : rendered'[u] \in {form[u], rendered[u]}
      BY <2>5 DEF Render, TypeOK
    <3> QED BY <1>1, <3>1 DEF Lineage, FormLineage, DescendsFrom
  <2> QED BY <2>1, <2>2, <2>3, <2>4, <2>5 DEF Console
<1>3. \A q \in wire' :
        \/ \E r \in wire : /\ q.token = r.token /\ q.edits = r.edits
                            /\ q.stage = r.stage /\ q.newToken = r.newToken
        \/ /\ page[t] = "ready" /\ q.stage = "sent"
           /\ q.token = form[t].token /\ q.edits = form[t].edits
  <2>1. CASE Reload(t)
    <3>1. \A q \in wire' : \E r \in wire : q = r \/ q = Disowned(r)
      BY <2>1 DEF Reload, Disowned
    <3> QED BY <3>1, DisownedFields DEF TypeOK
  <2>2. CASE handleSave(t)
    BY <2>2 DEF handleSave, canSave
  <2>3. CASE ~ Reload(t) /\ ~ handleSave(t)
    <3>1. wire' = wire
      BY <2>3 DEF Console, LoadFlags, LoadFails, Render, handleFlagEdited
    <3> QED BY <3>1
  <2> QED BY <2>1, <2>2, <2>3
<1>4. RequestLineage'
  BY <1>1, <1>3 DEF Lineage, FormLineage, DescendsFrom, RequestLineage
<1>5. AnswerLineage'
  BY <1>1, <1>3 DEF Lineage, AnswerLineage
<1> QED BY <1>2, <1>4, <1>5 DEF Lineage

(* The conditional UPDATE: the new token is on no form and no request yet. *)
LEMMA UpdateKeepsLineage ==
    ASSUME TypeOK, Lineage, NEW r \in wire, update_flag(r)
    PROVE  Lineage' /\ row.edits \subseteq row'.edits
<1>1. /\ row'.token = row.token + 1 /\ row'.edits = r.edits
      /\ r.stage = "sent" /\ r.token = row.token /\ row.token \in Nat
      /\ form' = form /\ rendered' = rendered /\ page' = page
  BY DEF update_flag, TokenMatches, TypeOK
<1>2. row.edits \subseteq row'.edits
  BY <1>1 DEF Lineage, RequestLineage
<1>3. PICK a \in Request :
        /\ wire' = (wire \ {r}) \cup {a}
        /\ a.token = r.token /\ a.edits = r.edits
        /\ a.stage = "ok" /\ a.newToken = row.token + 1
  BY <1>1, RespondAnswers DEF update_flag, ServedWith, Answers
<1>4. \A q \in wire : q.token \in Nat /\ q.newToken \in Nat
  BY DEF TypeOK, Request
<1>5. \A u \in Tabs : form[u].token \in Nat /\ rendered[u].token \in Nat
  BY DEF TypeOK, Flag
<1>6. FormLineage'
  BY <1>1, <1>5 DEF Lineage, FormLineage, DescendsFrom
<1>7. RequestLineage'
  BY <1>1, <1>3, <1>4 DEF Lineage, RequestLineage
<1>8. AnswerLineage'
  BY <1>1, <1>2, <1>3, <1>4 DEF Lineage, AnswerLineage
<1> QED BY <1>2, <1>6, <1>7, <1>8 DEF Lineage

LEMMA RefusalKeepsLineage ==
    ASSUME TypeOK, Lineage, NEW r \in wire, Refuse(r) \/ LockConflict(r)
    PROVE  Lineage'
<1>1. UNCHANGED <<row, page, form, rendered>>
  BY DEF Refuse, LockConflict
<1>2. PICK a \in Request :
        wire' = (wire \ {r}) \cup {a} /\ a.token = r.token /\ a.stage \in {"refused", "conflict"}
  BY RespondAnswers DEF Refuse, LockConflict, ServedWith, Answers
<1> QED BY <1>1, <1>2 DEF Lineage, FormLineage, DescendsFrom, RequestLineage, AnswerLineage

LEMMA NetworkKeepsLineage ==
    ASSUME TypeOK, Tied, Lineage, NEW r \in wire, Network(r)
    PROVE  Lineage'
<1>1. r \in Request
  BY DEF TypeOK
<1>2. row' = row /\ page' = page /\ rendered' = rendered
  BY DEF Network, Saved, Rejected, Lose, Drop
<1>3. \A q \in wire' : \E p \in wire : /\ q.token = p.token /\ q.edits = p.edits
                                       /\ q.stage = p.stage /\ q.newToken = p.newToken
  BY <1>1, DisownedFields DEF Network, Saved, Rejected, Lose, Drop, Disowned
<1>4. FormLineage'
  <2>1. CASE Saved(r)
    <3>1. /\ r.from \in Tabs /\ r.stage = "ok"
          /\ form'[r.from].token = r.newToken /\ form'[r.from].edits = form[r.from].edits
          /\ \A u \in Tabs : u # r.from => form'[u] = form[u]
      BY <1>1, <2>1 DEF Saved, onSaved, TypeOK, Flag, Request
    <3>2. r.edits \subseteq form[r.from].edits
      BY <3>1 DEF Tied, Ownership
    <3> QED BY <1>2, <3>1, <3>2 DEF Lineage, FormLineage, DescendsFrom, AnswerLineage
  <2>2. CASE ~ Saved(r)
    BY <1>2, <2>2 DEF Network, Rejected, Lose, Drop, Lineage, FormLineage, DescendsFrom
  <2> QED BY <2>1, <2>2
<1>5. RequestLineage' /\ AnswerLineage'
  BY <1>2, <1>3 DEF Lineage, RequestLineage, AnswerLineage
<1> QED BY <1>4, <1>5 DEF Lineage

-----------------------------------------------------------------------------
(* A form called saved was unedited when its answer landed, every change   *)
(* to it since would have withdrawn the word, and the row only grows.      *)
LEMMA SavedStep ==
    ASSUME TypeOK, Tied, Lineage, SavedMeansStored, Next
    PROVE  SavedMeansStored'
<1> USE SavesAssumption
<1>1. ASSUME NEW t \in Tabs, Console(t) PROVE SavedMeansStored'
  <2>1. row' = row /\ \A u \in Tabs : u # t => form'[u] = form[u] /\ save'[u] = save[u]
    BY <1>1 DEF Console, LoadFlags, LoadFails, Reload, Render, handleSave, handleFlagEdited, TypeOK
  <2>2. save'[t] = "saved" => save[t] = "saved" /\ form'[t] = form[t]
    BY <1>1 DEF Console, LoadFlags, LoadFails, Reload, Render, handleSave, handleFlagEdited,
                isSaving, TypeOK, Tied, QuietUntilReady
  <2> QED BY <2>1, <2>2 DEF SavedMeansStored
<1>2. ASSUME NEW r \in wire, Server(r) PROVE SavedMeansStored'
  <2>1. form' = form /\ save' = save
    BY <1>2 DEF Server, Refuse, update_flag, LockConflict
  <2>2. row.edits \subseteq row'.edits
    BY <1>2, UpdateKeepsLineage DEF Server, Refuse, LockConflict
  <2> QED BY <2>1, <2>2 DEF SavedMeansStored
<1>3. ASSUME NEW r \in wire, Network(r) PROVE SavedMeansStored'
  <2>1. row' = row
    BY <1>3 DEF Network, Saved, Rejected, Lose, Drop
  <2>2. CASE Saved(r)
    <3>1. /\ r.from \in Tabs /\ r.stage = "ok"
          /\ form'[r.from].edits = form[r.from].edits
          /\ save'[r.from] = "saved" => ~ edited[r.from]
          /\ \A u \in Tabs : u # r.from => form'[u] = form[u] /\ save'[u] = save[u]
      BY <2>2 DEF Saved, onSaved, StatusAfterSave, TypeOK, Flag, Request
    <3>2. save'[r.from] = "saved" => form[r.from].edits \subseteq row.edits
      BY <3>1 DEF Tied, Ownership, Lineage, AnswerLineage
    <3> QED BY <2>1, <3>1, <3>2 DEF SavedMeansStored
  <2>3. CASE ~ Saved(r)
    <3>1. form' = form /\ \A u \in Tabs : save'[u] = "saved" => save[u] = "saved"
      BY Failures, <1>3, <2>3 DEF Network, Rejected, Lose, Drop, TypeOK
    <3> QED BY <2>1, <3>1 DEF SavedMeansStored
  <2> QED BY <2>2, <2>3
<1> QED BY <1>1, <1>2, <1>3 DEF Next

-----------------------------------------------------------------------------
(* The inductive invariant of the console and its lock.                    *)
IInv == TypeOK /\ Tied /\ Lineage /\ SavedMeansStored

LEMMA InvInit == Init => IInv
<1> SUFFICES ASSUME Init PROVE IInv
  OBVIOUS
<1>1. TypeOK
  BY SavesAssumption DEF Init, TypeOK, Flag, SaveStatus, Request
<1>2. Tied
  BY DEF Init, Tied, Ownership, OneRequestEach, QuietUntilReady, RenderedAsHeld
<1>3. Lineage
  BY DEF Init, Lineage, FormLineage, DescendsFrom, RequestLineage, AnswerLineage
<1> QED BY <1>1, <1>2, <1>3 DEF IInv, SavedMeansStored, Init

LEMMA InvStep == IInv /\ [Next]_vars => IInv'
<1> SUFFICES ASSUME IInv, [Next]_vars PROVE IInv'
  OBVIOUS
<1>1. CASE Next
  <2>1. TypeOK'
    BY TypeStep DEF IInv
  <2>2. Tied'
    BY <1>1, ConsoleKeepsTied, ServerKeepsTied, NetworkKeepsTied DEF IInv, Next
  <2>3. Lineage'
    BY <1>1, ConsoleKeepsLineage, UpdateKeepsLineage, RefusalKeepsLineage, NetworkKeepsLineage
    DEF IInv, Next, Server
  <2>4. SavedMeansStored'
    BY <1>1, SavedStep DEF IInv
  <2> QED BY <2>1, <2>2, <2>3, <2>4 DEF IInv
<1>2. CASE UNCHANGED vars
  BY <1>2, TypeStep DEF IInv, vars, Tied, Ownership, OneRequestEach, QuietUntilReady,
     RenderedAsHeld, Lineage, FormLineage, DescendsFrom, RequestLineage, AnswerLineage,
     SavedMeansStored
<1> QED BY <1>1, <1>2

THEOREM Invariance == Spec => []IInv
BY InvInit, InvStep, PTL DEF Spec

(* "Saved." is never said of an edit the stored flag does not carry, for   *)
(* any number of operators saving over each other.                         *)
THEOREM SavedIsStored == Spec => []SavedMeansStored
BY Invariance, PTL DEF IInv

(* No save, however stale its page, however late its request, drops an     *)
(* edit that was stored.                                                   *)
THEOREM NoUpdateIsLost == Spec => NoLostUpdate
<1>1. IInv /\ [Next]_vars => [row.edits \subseteq row'.edits]_vars
  <2> SUFFICES ASSUME IInv, Next PROVE row.edits \subseteq row'.edits
    OBVIOUS
  <2>1. ASSUME NEW t \in Tabs, Console(t) PROVE row' = row
    BY <2>1 DEF Console, LoadFlags, LoadFails, Reload, Render, handleSave, handleFlagEdited
  <2>2. ASSUME NEW r \in wire, Server(r) PROVE row.edits \subseteq row'.edits
    BY <2>2, UpdateKeepsLineage DEF IInv, Server, Refuse, LockConflict
  <2>3. ASSUME NEW r \in wire, Network(r) PROVE row' = row
    BY <2>3 DEF Network, Saved, Rejected, Lose, Drop
  <2> QED BY <2>1, <2>2, <2>3 DEF Next
<1> QED BY <1>1, Invariance, PTL DEF Spec, NoLostUpdate

(* No answer, and no edit, takes an edit off a form that stays on screen.  *)
THEOREM EditsSurvive == Spec => EditsSurviveAnswers
<1>1. IInv /\ [Next]_vars =>
        [\A t \in Tabs : page[t] = "ready" /\ page'[t] = "ready"
                            => form[t].edits \subseteq form'[t].edits]_vars
  <2> SUFFICES ASSUME IInv, Next, NEW u \in Tabs, page[u] = "ready", page'[u] = "ready"
               PROVE  form[u].edits \subseteq form'[u].edits
    OBVIOUS
  <2>1. ASSUME NEW t \in Tabs, Console(t) PROVE form[u].edits \subseteq form'[u].edits
    BY <2>1 DEF Console, LoadFlags, LoadFails, Reload, Render, handleSave, handleFlagEdited,
                IInv, TypeOK, Flag, Tied, RenderedAsHeld
  <2>2. ASSUME NEW r \in wire, Server(r) PROVE form' = form
    BY <2>2 DEF Server, Refuse, update_flag, LockConflict
  <2>3. ASSUME NEW r \in wire, Network(r) PROVE form[u].edits \subseteq form'[u].edits
    BY <2>3 DEF Network, Saved, Rejected, Lose, Drop, onSaved, IInv, TypeOK, Flag
  <2> QED BY <2>1, <2>2, <2>3 DEF Next
<1> QED BY <1>1, Invariance, PTL DEF Spec, EditsSurviveAnswers

-----------------------------------------------------------------------------
(* What a page is told is so: while no answer is lost it knows the version *)
(* it wrote last, or the answer that says so is on its way.  A request     *)
(* holds the token its form still has until the form is given a newer one. *)
Held ==
    \A r \in wire : r.from \in Tabs =>
        /\ r.stage = "sent" => r.token = form[r.from].token
        /\ r.stage = "ok" => form[r.from].token < r.newToken

Known ==
    \A t \in Tabs : row.by = t /\ page[t] = "ready" =>
        \/ form[t].token = row.token
        \/ \E r \in wire : r.from = t /\ r.stage = "ok" /\ r.newToken = row.token

Told == \A r \in wire : r.from \in Tabs /\ r.stage = "conflict" => row.by # r.from

Candid == Held /\ (losses = 0 /\ hasty = 0 => Known /\ Told /\ ConflictIsElsewhere)

LEMMA ConsoleKeepsCandid ==
    ASSUME IInv, Candid, NEW t \in Tabs, Console(t)
    PROVE  Candid'
<1> USE SavesAssumption DEF IInv
<1>1. row' = row
  BY DEF Console, LoadFlags, LoadFails, Reload, Render, handleSave, handleFlagEdited
<1>2. CASE LoadFlags(t)
  <2>1. /\ wire' = wire /\ losses' = losses /\ hasty' = hasty /\ save' = save
        /\ form'[t].token = row.token
        /\ \A u \in Tabs : u # t => form'[u] = form[u] /\ page'[u] = page[u]
    BY <1>2 DEF LoadFlags, TypeOK
  <2>2. \A r \in wire : r.from # t
    BY <1>2 DEF LoadFlags, Tied, Ownership
  <2>3. Held'
    BY <2>1, <2>2 DEF Candid, Held
  <2> QED BY <1>1, <2>1, <2>3 DEF Candid, Known, Told, ConflictIsElsewhere
<1>3. CASE LoadFails(t)
  <2>1. losses' # 0 /\ UNCHANGED <<form, wire>>
    BY <1>3 DEF LoadFails, TypeOK
  <2> QED BY <2>1 DEF Candid, Held
<1>4. CASE Reload(t)
  <2>1. \A q \in wire' : q.from \in Tabs => q \in wire /\ q.from # t
    <3> SUFFICES ASSUME NEW q \in wire', q.from \in Tabs PROVE q \in wire /\ q.from # t
      OBVIOUS
    <3>1. PICK r \in wire : q = IF r.from = t THEN Disowned(r) ELSE r
      BY <1>4 DEF Reload, Disowned
    <3>2. r.from # t
      BY <3>1, DisownedFields DEF TypeOK
    <3> QED BY <3>1, <3>2
  <2>2. \A q \in wire : q.from # t => q \in wire'
    BY <1>4 DEF Reload
  <2>3. /\ form' = form /\ losses' = losses /\ hasty' = hasty
        /\ page'[t] = "loading" /\ save'[t] = "idle"
        /\ \A u \in Tabs : u # t => page'[u] = page[u] /\ save'[u] = save[u]
    BY <1>4 DEF Reload, TypeOK
  <2>4. Held'
    BY <2>1, <2>3 DEF Candid, Held
  <2>5. losses = 0 /\ hasty = 0 => Known'
    BY <1>1, <2>2, <2>3 DEF Candid, Known
  <2>6. losses = 0 /\ hasty = 0 => Told' /\ ConflictIsElsewhere'
    BY <1>1, <2>1, <2>3 DEF Candid, Told, ConflictIsElsewhere
  <2> QED BY <2>3, <2>4, <2>5, <2>6 DEF Candid
<1>5. CASE handleSave(t)
  <2> DEFINE new == [from |-> t, token |-> rendered[t].token, edits |-> rendered[t].edits,
                     stage |-> "sent", newToken |-> 0]
  <2>1. /\ wire' = wire \cup {new} /\ form' = form /\ page' = page /\ losses' = losses /\ hasty' = hasty
        /\ save'[t] = "saving" /\ \A u \in Tabs : u # t => save'[u] = save[u]
    BY <1>5 DEF handleSave, TypeOK
  <2>2. new.from = t /\ new.token = form[t].token /\ new.stage = "sent"
    BY <1>5 DEF handleSave, canSave
  <2> HIDE DEF new
  <2>3. Held'
    BY <2>1, <2>2 DEF Candid, Held
  <2>4. losses = 0 /\ hasty = 0 => Known'
    BY <1>1, <2>1 DEF Candid, Known
  <2>5. losses = 0 /\ hasty = 0 => Told' /\ ConflictIsElsewhere'
    BY <1>1, <2>1, <2>2 DEF Candid, Told, ConflictIsElsewhere
  <2> QED BY <2>1, <2>3, <2>4, <2>5 DEF Candid
<1>6. ASSUME NEW e \in Edits, handleFlagEdited(t, e) PROVE Candid'
  <2>1. /\ wire' = wire /\ page' = page /\ losses' = losses
        /\ \A u \in Tabs : /\ u # t => form'[u] = form[u]
                           /\ save'[u] = "conflict" => save[u] = "conflict"
        /\ form'[t].token = rendered[t].token
    BY <1>6 DEF handleFlagEdited, TypeOK, Flag, isSaving
  <2>2. Held'
    <3>1. (\E r \in wire : r.from = t) => rendered[t] = form[t]
      BY DEF Tied, Ownership, RenderedAsHeld
    <3> QED BY <2>1, <3>1 DEF Candid, Held
  <2>3. hasty' = 0 => hasty = 0 /\ rendered[t] = form[t]
    BY <1>6 DEF handleFlagEdited, TypeOK
  <2>4. losses = 0 /\ hasty' = 0 => Known'
    BY <1>1, <2>1, <2>3 DEF Candid, Known
  <2>5. losses = 0 /\ hasty' = 0 => Told' /\ ConflictIsElsewhere'
    BY <1>1, <2>1, <2>3 DEF Candid, Told, ConflictIsElsewhere
  <2> QED BY <2>1, <2>2, <2>4, <2>5 DEF Candid
<1>7. CASE Render(t)
  BY <1>1, <1>7 DEF Render, Candid, Held, Known, Told, ConflictIsElsewhere
<1> QED BY <1>2, <1>3, <1>4, <1>5, <1>6, <1>7 DEF Console

LEMMA ServerKeepsCandid ==
    ASSUME IInv, Candid, NEW r \in wire, Server(r)
    PROVE  Candid'
<1> USE DEF IInv
<1>1. UNCHANGED <<page, form, save, losses, hasty>> /\ r \in Request
  BY DEF Server, Refuse, update_flag, LockConflict, TypeOK
<1>2. \A q \in wire : q.from = r.from /\ q.from \in Tabs => q = r
  BY DEF Tied, OneRequestEach
<1>3. CASE Refuse(r)
  <2>1. row' = row /\ r.stage = "sent"
    BY <1>3 DEF Refuse
  <2>2. PICK a \in Request : /\ wire' = (wire \ {r}) \cup {a}
                             /\ a.from = r.from /\ a.stage = "refused"
    BY <1>3, RespondAnswers DEF Refuse, Answers, ServedWith
  <2>3. Held'
    BY <1>1, <2>2 DEF Candid, Held
  <2>4. losses = 0 /\ hasty = 0 => Known'
    BY <1>1, <2>1, <2>2 DEF Candid, Known
  <2>5. losses = 0 /\ hasty = 0 => Told' /\ ConflictIsElsewhere'
    BY <1>1, <2>1, <2>2 DEF Candid, Told, ConflictIsElsewhere
  <2> QED BY <1>1, <2>3, <2>4, <2>5 DEF Candid
<1>4. CASE LockConflict(r)
  <2>1. row' = row /\ r.stage = "sent" /\ r.token # row.token
    BY <1>4 DEF LockConflict, TokenMatches
  <2>2. PICK a \in Request : /\ wire' = (wire \ {r}) \cup {a}
                             /\ a.from = r.from /\ a.stage = "conflict"
    BY <1>4, RespondAnswers DEF LockConflict, Answers, ServedWith
  <2>3. Held'
    BY <1>1, <2>2 DEF Candid, Held
  <2>4. losses = 0 /\ hasty = 0 => Known'
    BY <1>1, <2>1, <2>2 DEF Candid, Known
  <2>5. losses = 0 /\ hasty = 0 /\ r.from \in Tabs => row.by # r.from
    BY <1>2, <2>1 DEF Candid, Held, Known, Tied, Ownership
  <2>6. losses = 0 /\ hasty = 0 => Told' /\ ConflictIsElsewhere'
    BY <1>1, <2>1, <2>2, <2>5 DEF Candid, Told, ConflictIsElsewhere
  <2> QED BY <1>1, <2>3, <2>4, <2>6 DEF Candid
<1>5. CASE update_flag(r)
  <2>1. /\ r.stage = "sent" /\ r.token = row.token
        /\ row'.token = row.token + 1 /\ row'.by = r.from /\ row.token \in Nat
    BY <1>5 DEF update_flag, TokenMatches, TypeOK
  <2>2. PICK a \in Request : /\ wire' = (wire \ {r}) \cup {a}
                             /\ a.from = r.from /\ a.stage = "ok" /\ a.newToken = row.token + 1
    BY <1>5, <2>1, RespondAnswers DEF update_flag, Answers, ServedWith
  <2>3. r.from \in Tabs => form[r.from].token = row.token /\ save[r.from] = "saving"
    BY <2>1 DEF Candid, Held, Tied, Ownership
  <2>4. Held'
    BY <1>1, <2>1, <2>2, <2>3 DEF Candid, Held
  <2>5. Known'
    BY <1>1, <2>1, <2>2 DEF Known
  <2>6. losses = 0 /\ hasty = 0 => Told' /\ ConflictIsElsewhere'
    BY <1>1, <1>2, <2>1, <2>2, <2>3 DEF Candid, Told, ConflictIsElsewhere
  <2> QED BY <1>1, <2>4, <2>5, <2>6 DEF Candid
<1> QED BY <1>3, <1>4, <1>5 DEF Server

LEMMA NetworkKeepsCandid ==
    ASSUME IInv, Candid, NEW r \in wire, Network(r)
    PROVE  Candid'
<1> USE SavesAssumption DEF IInv
<1>1. row' = row /\ page' = page /\ r \in Request
  BY DEF Network, Saved, Rejected, Lose, Drop, TypeOK
<1>2. \A q \in wire : q.from = r.from /\ q.from \in Tabs => q = r
  BY DEF Tied, OneRequestEach
<1>3. CASE Saved(r)
  <2>1. /\ r.from \in Tabs /\ r.stage = "ok" /\ wire' = wire \ {r} /\ losses' = losses /\ hasty' = hasty
        /\ form'[r.from].token = r.newToken /\ save'[r.from] # "conflict"
        /\ \A u \in Tabs : u # r.from => form'[u] = form[u] /\ save'[u] = save[u]
    BY <1>1, <1>3 DEF Saved, onSaved, StatusAfterSave, TypeOK, Flag, Request
  <2>2. Held'
    BY <1>2, <2>1 DEF Candid, Held
  <2>3. losses = 0 /\ hasty = 0 => Known'
    <3> SUFFICES ASSUME losses = 0, hasty = 0, NEW t \in Tabs, row.by = t, page[t] = "ready"
                 PROVE  \/ form'[t].token = row.token
                        \/ \E q \in wire' : q.from = t /\ q.stage = "ok" /\ q.newToken = row.token
      BY <1>1 DEF Known
    <3>1. \/ form[t].token = row.token
          \/ \E q \in wire : q.from = t /\ q.stage = "ok" /\ q.newToken = row.token
      BY DEF Candid, Known
    <3>2. CASE t = r.from
      <4>1. form[t].token < r.newToken /\ r.newToken <= row.token
        BY <2>1, <3>2 DEF Candid, Held, Lineage, AnswerLineage
      <4>2. form[t].token # row.token
        BY <4>1 DEF TypeOK, Flag, Request
      <4> QED BY <1>2, <2>1, <3>1, <3>2, <4>2
    <3>3. CASE t # r.from
      BY <2>1, <3>1, <3>3
    <3> QED BY <3>2, <3>3
  <2>4. losses = 0 /\ hasty = 0 => Told' /\ ConflictIsElsewhere'
    BY <1>1, <2>1 DEF Candid, Told, ConflictIsElsewhere
  <2> QED BY <2>1, <2>2, <2>3, <2>4 DEF Candid
<1>4. CASE Rejected(r)
  <2>1. /\ r.from \in Tabs /\ r.stage # "ok" /\ wire' = wire \ {r}
        /\ form' = form /\ losses' = losses /\ hasty' = hasty
        /\ save'[r.from] = "conflict" => r.stage = "conflict"
        /\ \A u \in Tabs : u # r.from => save'[u] = save[u]
    BY Failures, <1>1, <1>4 DEF Rejected, TypeOK, Request
  <2>2. Held'
    BY <2>1 DEF Candid, Held
  <2>3. losses = 0 /\ hasty = 0 => Known'
    BY <1>1, <2>1 DEF Candid, Known
  <2>4. losses = 0 /\ hasty = 0 => Told' /\ ConflictIsElsewhere'
    BY <1>1, <2>1 DEF Candid, Told, ConflictIsElsewhere
  <2> QED BY <2>1, <2>2, <2>3, <2>4 DEF Candid
<1>5. CASE Lose(r)
  <2>1. losses' # 0 /\ form' = form
    BY <1>5 DEF Lose, TypeOK
  <2>2. \A q \in wire' : q.from \in Tabs => q \in wire
    BY <1>1, <1>5, DisownedFields DEF Lose, Disowned
  <2> QED BY <2>1, <2>2 DEF Candid, Held
<1>6. CASE Drop(r)
  <2>1. wire' = wire \ {r} /\ r.from = Nobody /\ UNCHANGED <<form, save, losses, hasty>>
    BY <1>6 DEF Drop
  <2>2. Held'
    BY <2>1 DEF Candid, Held
  <2>3. losses = 0 /\ hasty = 0 => Known'
    BY <1>1, <2>1 DEF Candid, Known
  <2>4. losses = 0 /\ hasty = 0 => Told' /\ ConflictIsElsewhere'
    BY <1>1, <2>1 DEF Candid, Told, ConflictIsElsewhere
  <2> QED BY <2>1, <2>2, <2>3, <2>4 DEF Candid
<1> QED BY <1>3, <1>4, <1>5, <1>6 DEF Network

(* While no answer is lost and nothing is typed between an answer and its  *)
(* render, a conflict is somebody else's save and a failed save left no    *)
(* version behind that its page does not know.                             *)
THEOREM AnswersTold == Spec => []AnswersAreTrue
<1>1. Init => Candid
  BY SavesAssumption DEF Init, Candid, Held, Known, Told, ConflictIsElsewhere
<1>2. IInv /\ Candid /\ [Next]_vars => Candid'
  <2> SUFFICES ASSUME IInv, Candid, [Next]_vars PROVE Candid'
    OBVIOUS
  <2>1. CASE Next
    BY <2>1, ConsoleKeepsCandid, ServerKeepsCandid, NetworkKeepsCandid DEF Next
  <2>2. CASE UNCHANGED vars
    BY <2>2 DEF vars, Candid, Held, Known, Told, ConflictIsElsewhere
  <2> QED BY <2>1, <2>2
<1>3. IInv /\ Candid => AnswersAreTrue
  <2> SUFFICES ASSUME IInv, Candid, losses = 0, hasty = 0 PROVE FailedMeansUnchanged
    BY DEF Candid, AnswersAreTrue
  <2> SUFFICES ASSUME NEW t \in Tabs, save[t] = "failed", row.by = t
               PROVE  row.token = form[t].token
    BY DEF FailedMeansUnchanged
  <2>1. page[t] = "ready"
    BY DEF IInv, Tied, QuietUntilReady
  <2>2. \A r \in wire : r.from # t
    BY DEF IInv, Tied, Ownership
  <2> QED BY <2>1, <2>2 DEF Candid, Known
<1> QED BY <1>1, <1>2, <1>3, Invariance, PTL DEF Spec

-----------------------------------------------------------------------------
(* The ids tell every heading and every label apart.                       *)
LEMMA HeadingIds ==
    ASSUME NEW f, NEW v, NEW g, NEW w, NEW field
    PROVE  /\ variantHeadingId(f, v) = variantHeadingId(g, w) => f = g /\ v = w
           /\ variantHeadingId(f, v) # variantLabelId(g, w, field)
<1>1. Len(variantHeadingId(f, v)) = 5 /\ Len(variantLabelId(g, w, field)) = 6
  BY DEF variantHeadingId, variantLabelId
<1>2. variantHeadingId(f, v)[2] = f /\ variantHeadingId(f, v)[4] = v
  BY DEF variantHeadingId
<1>3. variantHeadingId(g, w)[2] = g /\ variantHeadingId(g, w)[4] = w
  BY DEF variantHeadingId
<1> QED BY <1>1, <1>2, <1>3

LEMMA LabelIds ==
    ASSUME NEW f, NEW v, NEW field, NEW g, NEW w, NEW other,
           variantLabelId(f, v, field) = variantLabelId(g, w, other)
    PROVE  f = g /\ v = w /\ field = other
<1>1. /\ variantLabelId(f, v, field)[2] = f /\ variantLabelId(f, v, field)[4] = v
      /\ variantLabelId(f, v, field)[5] = field
  BY DEF variantLabelId
<1>2. /\ variantLabelId(g, w, other)[2] = g /\ variantLabelId(g, w, other)[4] = w
      /\ variantLabelId(g, w, other)[5] = other
  BY DEF variantLabelId
<1> QED BY <1>1, <1>2

(* What stands on the page with an id.                                     *)
LEMMA ElementsOfThePage ==
    ASSUME NEW flags, NEW e
    PROVE  e \in Flags(flags) <=>
             \E f \in DOMAIN flags : \E v \in flags[f] :
                \/ e = Heading(f, v)
                \/ \E field \in VariantField : e = Label(f, v, field)
BY DEF Flags, FlagEditor, VariantEditor

(* Every field of the console has a name, made of its variant's key and    *)
(* its own label: each id it is labelled by is that of one element on the  *)
(* page, however many flags and variants stand on it.                      *)
THEOREM EveryFieldIsNamed ==
    ASSUME NEW flags, NEW f \in DOMAIN flags, NEW v \in flags[f], NEW field \in VariantField
    PROVE  accessibleName(Flags(flags), variantFieldLabelledBy(f, v, field))
             = <<{v}, {labelText(field)}>>
<1> DEFINE ids == variantFieldLabelledBy(f, v, field)
           named(i) == {element.text : element \in {e \in Flags(flags) : e.id = ids[i]}}
<1>1. /\ DOMAIN ids = {1, 2}
      /\ ids[1] = variantHeadingId(f, v) /\ ids[2] = variantLabelId(f, v, field)
  BY DEF variantFieldLabelledBy
<1>2. {e \in Flags(flags) : e.id = ids[1]} = {Heading(f, v)}
  <2>1. ASSUME NEW e \in Flags(flags), e.id = variantHeadingId(f, v)
        PROVE  e = Heading(f, v)
    BY <2>1, ElementsOfThePage, HeadingIds DEF Heading, Label
  <2>2. Heading(f, v) \in Flags(flags) /\ Heading(f, v).id = variantHeadingId(f, v)
    BY ElementsOfThePage DEF Heading
  <2> HIDE DEF ids
  <2> QED BY <1>1, <2>1, <2>2
<1>3. {e \in Flags(flags) : e.id = ids[2]} = {Label(f, v, field)}
  <2>1. ASSUME NEW e \in Flags(flags), e.id = variantLabelId(f, v, field)
        PROVE  e = Label(f, v, field)
    BY <2>1, ElementsOfThePage, HeadingIds, LabelIds DEF Heading, Label
  <2>2. Label(f, v, field) \in Flags(flags) /\ Label(f, v, field).id = variantLabelId(f, v, field)
    BY ElementsOfThePage DEF Label
  <2> HIDE DEF ids
  <2> QED BY <1>1, <2>1, <2>2
<1>4. named(1) = {v} /\ named(2) = {labelText(field)}
  <2> HIDE DEF ids
  <2>1. \A x : {element.text : element \in {x}} = {x.text}
    OBVIOUS
  <2>2. Heading(f, v).text = v /\ Label(f, v, field).text = labelText(field)
    BY DEF Heading, Label
  <2>3. named(1) = {Heading(f, v).text} /\ named(2) = {Label(f, v, field).text}
    BY <1>2, <1>3, <2>1
  <2> QED BY <2>2, <2>3
<1> HIDE DEF ids
<1>5. accessibleName(Flags(flags), ids) = [i \in {1, 2} |-> named(i)]
  BY <1>1 DEF accessibleName
<1> HIDE DEF named
<1>6. [i \in {1, 2} |-> named(i)] = <<{v}, {labelText(field)}>>
  BY <1>4
<1> QED BY <1>5, <1>6 DEF ids

(* And no two fields of a flag share one: the eight controls are called    *)
(* eight things (FlagEditor.utils.ts:35-37).                               *)
THEOREM FieldsAreToldApart ==
    ASSUME NEW flags, NEW f \in DOMAIN flags,
           NEW v \in flags[f], NEW w \in flags[f],
           NEW field \in VariantField, NEW other \in VariantField,
           accessibleName(Flags(flags), variantFieldLabelledBy(f, v, field))
             = accessibleName(Flags(flags), variantFieldLabelledBy(f, w, other))
    PROVE  v = w /\ field = other
<1>1. <<{v}, {labelText(field)}>> = <<{w}, {labelText(other)}>>
  BY EveryFieldIsNamed
<1>2. {v} = {w} /\ {labelText(field)} = {labelText(other)}
  BY <1>1
<1>3. v = w /\ labelText(field) = labelText(other)
  BY <1>2
<1>4. /\ labelText("weight") = "Share of traffic (%)"
      /\ labelText("headline") = "Headline" /\ labelText("subheadline") = "Subheadline"
      /\ labelText("ctaLabel") = "Button label"
  BY DEF labelText, copyLabelMap, WEIGHT_FIELD
<1>5. field \in {"weight", "headline", "subheadline", "ctaLabel"}
  BY DEF VariantField, CopyField, WEIGHT_FIELD
<1>6. other \in {"weight", "headline", "subheadline", "ctaLabel"}
  BY DEF VariantField, CopyField, WEIGHT_FIELD
<1>7. field = other
  BY <1>3, <1>4, <1>5, <1>6
<1> QED BY <1>3, <1>7
=============================================================================
