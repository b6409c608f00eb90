-------------------------------- MODULE Signup --------------------------------
(***************************************************************************)
(* The purchase step: sign-up forms with the leak check behind their       *)
(* password field, the POST that opens an account, and the confirmation    *)
(* its answer leads to.                                                    *)
(*                                                                         *)
(* Who the account is attributed to is the cookie's business               *)
(* (FunnelSession): a missing or unknown visitor refuses nobody here.      *)
(***************************************************************************)
EXTENDS HttpClient, Sequences, FiniteSets

CONSTANTS Forms,       \* browser tabs on the sign-up route
          Nobody,      \* the sender of a request whose connection is gone
          Spellings,   \* what can be typed as an email
          Mailbox,     \* the mailbox each valid spelling names
          Passwords, Leaked,
          Padding,     \* passwords whose suffix stands on a padding line
          Prefix,      \* Prefix[password]: the first five characters of its SHA-1
          Blank,       \* what may not be sent: nothing, no address, a short password
          Basic, Family,
          NoPlan,      \* navigation state without a plan
          MaxEdits,    \* bound on what is typed or picked
          MaxLosses,   \* bound on refused requests, lost answers and failed checks
          MaxVisits    \* bound on coming back to the form

VARIABLES view,        \* each tab: "form", "elsewhere" or "protected"
          fields,      \* the mounted form's email, password and plan
          validation,  \* the fields whose inline error shows
          check,       \* usePasswordLeakCheck's PasswordCheck
          due,         \* the password changed and its effect has not run yet
          probes,      \* leak checks under way
          submission,  \* SubmissionStatus; a failure with the message it shows
          wire,        \* POST /signups on their way
          accounts,    \* the signup table, in the order of insertion
          confirmed,   \* the plan in the state the tab was last taken to /protected with
          edits, losses, visits

vars == <<view, fields, validation, check, due, probes, submission, wire, accounts,
          confirmed, edits, losses, visits>>

Plans == {Basic, Family}

DEFAULT_PLAN == Family

ASSUME SignupAssumption ==
    /\ Nobody \notin Forms
    /\ Blank \notin Spellings /\ Blank \notin Passwords
    /\ Leaked \subseteq Passwords /\ Padding \subseteq Passwords \ Leaked
    /\ DOMAIN Prefix = Passwords
    /\ Basic # Family /\ NoPlan \notin Plans
    /\ DOMAIN Mailbox = Spellings

(* The two cards: a price in cents, and the devices it protects.           *)
PlanCard(name, cents, devices) == [name |-> name, price |-> cents, devices |-> devices]

planCardMap ==
    [plan \in Plans |-> IF plan = Basic THEN PlanCard("Basic", 499, 1) ELSE PlanCard("Family", 999, 5)]

(* What the confirmation offers next; seats left is what the step counts.  *)
NextStep(title, seatsLeft) == [title |-> title, seatsLeft |-> seatsLeft]

INSTALL_STEP == NextStep("Install the extension", {})

nextStepsMap ==
    [plan \in Plans |-> <<INSTALL_STEP, IF plan = Basic THEN NextStep("Turn on breach alerts", {})
                                        ELSE NextStep("Add a family member", {4})>>]

planLineFor(plan) == [name |-> planCardMap[plan].name, price |-> planCardMap[plan].price]

Confirmation(plan) == [planLine |-> planLineFor(plan), steps |-> nextStepsMap[plan]]

EmptyForm == [email |-> Blank, password |-> Blank, plan |-> DEFAULT_PLAN]

IDLE_CHECK == [status |-> "idle", of |-> Blank]

Init ==
    /\ view = [f \in Forms |-> "form"]
    /\ fields = [f \in Forms |-> EmptyForm]
    /\ validation = [f \in Forms |-> {}]
    /\ check = [f \in Forms |-> IDLE_CHECK]
    /\ due = [f \in Forms |-> FALSE]
    /\ probes = {}
    /\ submission = [f \in Forms |-> "idle"]
    /\ wire = {}
    /\ accounts = <<>>
    /\ confirmed = [f \in Forms |-> NoPlan]
    /\ edits = 0 /\ losses = 0 /\ visits = 0

Edit == edits < MaxEdits /\ edits' = edits + 1
Lost == losses < MaxLosses /\ losses' = losses + 1

-----------------------------------------------------------------------------
(* The fields: an edit withdraws that field's inline error.                *)

handleEmailChange(f, email) ==
    /\ view[f] = "form" /\ Edit
    /\ email # fields[f].email
    /\ fields' = [fields EXCEPT ![f].email = email]
    /\ validation' = [validation EXCEPT ![f] = @ \ {"email"}]
    /\ UNCHANGED <<view, check, due, probes, submission, wire, accounts, confirmed,
                   losses, visits>>

(* React runs the effect of one password before it renders the next.       *)
handlePasswordChange(f, password) ==
    /\ view[f] = "form" /\ Edit
    /\ ~ due[f] /\ password # fields[f].password
    /\ fields' = [fields EXCEPT ![f].password = password]
    /\ validation' = [validation EXCEPT ![f] = @ \ {"password"}]
    /\ due' = [due EXCEPT ![f] = TRUE]
    /\ UNCHANGED <<view, check, probes, submission, wire, accounts, confirmed, losses, visits>>

setPlan(f, plan) ==
    /\ view[f] = "form" /\ Edit
    /\ plan # fields[f].plan
    /\ fields' = [fields EXCEPT ![f].plan = plan]
    /\ UNCHANGED <<view, validation, check, due, probes, submission, wire, accounts,
                   confirmed, losses, visits>>

-----------------------------------------------------------------------------
(* usePasswordLeakCheck.                                                   *)

(* The cleanup of f's effect: its timer is cleared, and a check past the   *)
(* timer runs on, aborted and no longer current.                           *)
CancelProbes(f) ==
    {IF p.form = f THEN [p EXCEPT !.current = FALSE] ELSE p :
        p \in {q \in probes : q.form # f \/ q.stage # "timer"}}

isTooShort(password) == password = Blank

PasswordEffect(f) ==
    /\ due[f]
    /\ due' = [due EXCEPT ![f] = FALSE]
    /\ LET password == fields[f].password
       IN  IF isTooShort(password)
           THEN /\ check' = [check EXCEPT ![f] = IDLE_CHECK]
                /\ probes' = CancelProbes(f)
           ELSE /\ check' = [check EXCEPT ![f] = [status |-> "checking", of |-> password]]
                /\ probes' = CancelProbes(f) \cup
                     {[form |-> f, of |-> password, stage |-> "timer", current |-> TRUE]}
    /\ UNCHANGED <<view, fields, validation, submission, wire, accounts, confirmed,
                   edits, losses, visits>>

(* The visitor paused: hash, ask for the range, look the suffix up.        *)
TimerFires(p) ==
    /\ p.stage = "timer"
    /\ probes' = (probes \ {p}) \cup {[p EXCEPT !.stage = "asked"]}
    /\ UNCHANGED <<view, fields, validation, check, due, submission, wire, accounts,
                   confirmed, edits, losses, visits>>

(* What the proxy hands on for a prefix: how often each suffix of it was   *)
(* seen, among lines that were padded in and seen never.                   *)
fetchPwnedRange(prefix) ==
    [p \in {q \in Leaked \cup Padding : Prefix[q] = prefix} |-> IF p \in Leaked THEN 1 ELSE 0]

(* Mutant: a line is a leak.                                               *)
findSuffixLine(lines, password) == IF password \in DOMAIN lines THEN 1 ELSE 0

(* The suffix's own line; none, or one seen never, counts nothing.         *)
findSuffixCount(lines, password) == IF password \in DOMAIN lines THEN lines[password] ELSE 0

isPwned(password) == findSuffixCount(fetchPwnedRange(Prefix[password]), password) > 0

(* Mutant: a cancelled check is still taken for an answer about the field. *)
ShownAnyway(p, result) == [check EXCEPT ![p.form] = result]

(* What checkPassword resolves to: an aborted request rejects, and a       *)
(* failure is "couldn't check", never a clean bill.                        *)
Result(p, failed) ==
    [status |-> IF failed \/ ~ p.current THEN "unchecked"
                ELSE IF isPwned(p.of) THEN "leaked" ELSE "clean",
     of |-> p.of]

(* Only the current effect's result is shown.                              *)
Shown(p, result) == IF p.current THEN [check EXCEPT ![p.form] = result] ELSE check

(* Mutant: a failed check is logged and not shown.                         *)
checkPasswordOrNothing(p) ==
    /\ p.stage = "asked"
    /\ probes' = probes \ {p}
    /\ \/ check' = Shown(p, Result(p, FALSE)) /\ UNCHANGED losses
       \/ UNCHANGED check /\ Lost
    /\ UNCHANGED <<view, fields, validation, due, submission, wire, accounts, confirmed,
                   edits, visits>>

checkPassword(p) ==
    /\ p.stage = "asked"
    /\ probes' = probes \ {p}
    /\ \/ check' = Shown(p, Result(p, FALSE)) /\ UNCHANGED losses
       \/ check' = Shown(p, Result(p, TRUE)) /\ Lost
    /\ UNCHANGED <<view, fields, validation, due, submission, wire, accounts, confirmed,
                   edits, visits>>

(* What stands under the field.  It is silent of a password too short to   *)
(* be checked and of one that came back clean.                             *)
notice(f) == IF check[f].status \in {"idle", "clean"} THEN "nothing" ELSE check[f].status

(* The attribute is absent, not empty, when nothing describes the field.   *)
describedBy(ids) == LET present == ids \ {"nothing"} IN IF present = {} THEN {} ELSE {present}

(* The field is described by whichever of notice and error is on screen.   *)
PasswordField(f) ==
    describedBy({notice(f), IF "password" \in validation[f] THEN "error" ELSE "nothing"})

-----------------------------------------------------------------------------
(* The form.                                                               *)

validateSignupForm(f) ==
    (IF fields[f].email = Blank THEN {"email"} ELSE {}) \cup
    (IF isTooShort(fields[f].password) THEN {"password"} ELSE {})

hasValidationErrors(errors) == errors # {}

(* Mutant: a finding is a finding.                                         *)
wasEverPwned(f) == check[f].status = "leaked"

(* Finished, found, and for the very password being sent.                  *)
wasPwned(f) == check[f].status = "leaked" /\ check[f].of = fields[f].password

isBusy(f) == submission[f] = "submitting"

(* What is sent: the form as it is, and what is known of its password.     *)
toCreatePayload(f) ==
    [form |-> f, live |-> TRUE, fields |-> fields[f], passwordWasPwned |-> wasPwned(f),
     stage |-> "sent"]

(* A second tap while the first request is out is the same request.        *)
handleSubmit(f) ==
    /\ view[f] = "form" /\ ~ isBusy(f)
    /\ LET errors == validateSignupForm(f)
       IN  /\ validation' = [validation EXCEPT ![f] = errors]
           /\ IF hasValidationErrors(errors) THEN UNCHANGED <<submission, wire>>
              ELSE /\ submission' = [submission EXCEPT ![f] = "submitting"]
                   /\ wire' = wire \cup {toCreatePayload(f)}
    /\ UNCHANGED <<view, fields, check, due, probes, accounts, confirmed,
                   edits, losses, visits>>

-----------------------------------------------------------------------------
(* POST /signups.                                                          *)

Respond(r, stage) == wire' = (wire \ {r}) \cup {[r EXCEPT !.stage = stage]}

(* Mutant: the email is stored as typed.                                   *)
as_typed(email) == email

(* One spelling per mailbox, from the boundary inwards.                    *)
lower_case(email) == Mailbox[email]

(* INSERT ... ON CONFLICT (email) DO NOTHING is the whole duplicate check; *)
(* committed before the answer.                                            *)
insert_signup(r) ==
    /\ r.stage = "sent"
    /\ LET email == lower_case(r.fields.email)
       IN  IF \E i \in DOMAIN accounts : accounts[i].email = email
           THEN Respond(r, "taken") /\ UNCHANGED accounts
           ELSE /\ accounts' = Append(accounts,
                      [email |-> email, spelt |-> r.fields.email, plan |-> r.fields.plan,
                       password |-> r.fields.password, pwned |-> r.passwordWasPwned,
                       by |-> r.form])
                /\ Respond(r, "created")
    /\ UNCHANGED <<view, fields, validation, check, due, probes, submission, confirmed,
                   edits, losses, visits>>

(* The schema is stricter than the form (400), or the database is away.    *)
RefuseSignup(r) ==
    /\ r.stage = "sent" /\ Lost
    /\ Respond(r, "refused")
    /\ UNCHANGED <<view, fields, validation, check, due, probes, submission, accounts,
                   confirmed, edits, visits>>

-----------------------------------------------------------------------------
(* The answer.                                                             *)

(* Mutant: the confirmation is given the plan picked by now.               *)
PlanPickedByNow(r) == fields[r.form].plan

(* navigate outlives the page that asked: a visitor who went elsewhere is  *)
(* taken to the confirmation too, with the plan that was sent.             *)
ConfirmedPlan(r) == r.fields.plan

(* Leaving the form unmounts it: nothing it started may land on it.        *)
Unmount(f, pending) ==
    {IF r.form = f THEN [r EXCEPT !.live = FALSE] ELSE r : r \in pending}

(* Mutant: only a page that is still there navigates.                      *)
SignedUpWhileMounted(r) ==
    /\ r.stage = "created" /\ r.form # Nobody
    /\ IF r.live THEN /\ view' = [view EXCEPT ![r.form] = "protected"]
                      /\ confirmed' = [confirmed EXCEPT ![r.form] = ConfirmedPlan(r)]
                      /\ submission' = [submission EXCEPT ![r.form] = "idle"]
       ELSE UNCHANGED <<view, confirmed, submission>>
    /\ wire' = wire \ {r}
    /\ UNCHANGED <<fields, validation, check, due, probes, accounts, edits, losses, visits>>

SignedUp(r) ==
    /\ r.stage = "created" /\ r.form # Nobody
    /\ view' = [view EXCEPT ![r.form] = "protected"]
    /\ confirmed' = [confirmed EXCEPT ![r.form] = ConfirmedPlan(r)]
    /\ probes' = CancelProbes(r.form)
    /\ due' = [due EXCEPT ![r.form] = FALSE]
    /\ submission' = [submission EXCEPT ![r.form] = "idle"]
    /\ wire' = Unmount(r.form, wire \ {r})
    /\ UNCHANGED <<fields, validation, check, accounts, edits, losses, visits>>

(* Mutant: a refusal leaves the button busy.                               *)
FailureSwallowed(r, message) == submission' = submission

Failure(r, message) ==
    submission' = IF r.live THEN [submission EXCEPT ![r.form] = message] ELSE submission

(* A taken email in its own words, everything else as one failure.         *)
describeSignupFailure(error) ==
    IF HTTP_CONFLICT \in statusOfError(error) THEN "taken" ELSE "failed"

ErrorOf(r) == Answered(IF r.stage = "taken" THEN HTTP_CONFLICT ELSE HTTP_BAD_REQUEST)

SignupRefused(r) ==
    /\ r.stage \in {"taken", "refused"} /\ r.form # Nobody
    /\ Failure(r, describeSignupFailure(ErrorOf(r)))
    /\ wire' = wire \ {r}
    /\ UNCHANGED <<view, fields, validation, check, due, probes, accounts, confirmed,
                   edits, losses, visits>>

(* The connection fails: the page cannot tell whether the server has the   *)
(* request, which may still be on its way.                                 *)
LoseSignup(r) ==
    /\ r.form # Nobody /\ Lost
    /\ Failure(r, describeSignupFailure(Unanswered))
    /\ wire' = (wire \ {r}) \cup {[r EXCEPT !.form = Nobody, !.live = FALSE]}
    /\ UNCHANGED <<view, fields, validation, check, due, probes, accounts, confirmed,
                   edits, visits>>

DropSignup(r) ==
    /\ r.form = Nobody
    /\ wire' = wire \ {r}
    /\ UNCHANGED <<view, fields, validation, check, due, probes, submission, accounts,
                   confirmed, edits, losses, visits>>

-----------------------------------------------------------------------------
(* Back to the results, and to the sign-up again, which mounts afresh.     *)

Leave(f) ==
    /\ view[f] = "form"
    /\ view' = [view EXCEPT ![f] = "elsewhere"]
    /\ probes' = CancelProbes(f)
    /\ due' = [due EXCEPT ![f] = FALSE]
    /\ submission' = [submission EXCEPT ![f] = "idle"]
    /\ wire' = Unmount(f, wire)
    /\ UNCHANGED <<fields, validation, check, accounts, confirmed, edits, losses, visits>>

(* Also where a visit to /protected without a plan in its state is sent.   *)
Return(f) ==
    /\ view[f] # "form"
    /\ visits < MaxVisits /\ visits' = visits + 1
    /\ view' = [view EXCEPT ![f] = "form"]
    /\ fields' = [fields EXCEPT ![f] = EmptyForm]
    /\ validation' = [validation EXCEPT ![f] = {}]
    /\ check' = [check EXCEPT ![f] = IDLE_CHECK]
    /\ UNCHANGED <<due, probes, submission, wire, accounts, confirmed, edits, losses>>

Move(f, to) ==
    /\ view' = [view EXCEPT ![f] = to]
    /\ UNCHANGED <<fields, validation, check, due, probes, submission, wire, accounts,
                   confirmed, edits, losses, visits>>

BackToResults(f) == view[f] = "protected" /\ Move(f, "elsewhere")

isProtectedRouteState(state) == state \in Plans

(* The history entry keeps the state it was opened with.                   *)
BackToConfirmation(f) ==
    view[f] = "elsewhere" /\ isProtectedRouteState(confirmed[f]) /\ Move(f, "protected")

-----------------------------------------------------------------------------
Visitor(f) ==
    \/ \E email \in Spellings : handleEmailChange(f, email)
    \/ \E password \in Passwords \cup {Blank} : handlePasswordChange(f, password)
    \/ \E plan \in Plans : setPlan(f, plan)
    \/ handleSubmit(f) \/ Leave(f) \/ Return(f)
    \/ BackToResults(f) \/ BackToConfirmation(f)

Check(p) == TimerFires(p) \/ checkPassword(p)

Serve(r) == insert_signup(r) \/ RefuseSignup(r)

Deliver(r) == SignedUp(r) \/ SignupRefused(r) \/ DropSignup(r)

Next ==
    \/ \E f \in Forms : Visitor(f) \/ PasswordEffect(f)
    \/ \E p \in probes : Check(p)
    \/ \E r \in wire : Serve(r) \/ Deliver(r) \/ LoseSignup(r)

Spec == Init /\ [][Next]_vars

(* React runs its effects, timers fire, and every request is answered or   *)
(* fails; the visitor owes nothing.                                        *)
FairSpec ==
    /\ Spec
    /\ \A f \in Forms : WF_vars(PasswordEffect(f))
    /\ WF_vars(\E p \in probes : Check(p))
    /\ WF_vars(\E r \in wire : Serve(r))
    /\ WF_vars(\E r \in wire : SignedUp(r))
    /\ WF_vars(\E r \in wire : SignupRefused(r) \/ DropSignup(r))

-----------------------------------------------------------------------------
Fields == [email : Spellings \cup {Blank}, password : Passwords \cup {Blank}, plan : Plans]

Probe == [form : Forms, of : Passwords, stage : {"timer", "asked"}, current : BOOLEAN]

(* What is on the wire has passed validateSignupForm.                      *)
Request == [form : Forms \cup {Nobody}, live : BOOLEAN,
            fields : {e \in Fields : e.email # Blank /\ e.password # Blank},
            passwordWasPwned : BOOLEAN, stage : {"sent", "created", "taken", "refused"}]

Account == [email : {Mailbox[e] : e \in Spellings}, spelt : Spellings, plan : Plans,
            password : Passwords, pwned : BOOLEAN, by : Forms \cup {Nobody}]

TypeOK ==
    /\ view \in [Forms -> {"form", "elsewhere", "protected"}]
    /\ fields \in [Forms -> Fields]
    /\ validation \in [Forms -> SUBSET {"email", "password"}]
    /\ check \in [Forms -> [status : {"idle", "checking", "leaked", "clean", "unchecked"},
                            of : Passwords \cup {Blank}]]
    /\ due \in [Forms -> BOOLEAN]
    /\ submission \in [Forms -> {"idle", "submitting", "taken", "failed"}]
    /\ probes \subseteq Probe
    /\ wire \subseteq Request /\ \A r \in wire : r.form = Nobody => ~ r.live
    /\ accounts \in Seq(Account)
    /\ confirmed \in [Forms -> Plans \cup {NoPlan}]

(* A mailbox has one account, however it was spelt and however many        *)
(* requests for it raced (signups/repository.py:33-38, signups/models.py:  *)
(* 3-7).                                                                   *)
OneAccountPerMailbox ==
    \A i, j \in DOMAIN accounts :
        Mailbox[accounts[i].spelt] = Mailbox[accounts[j].spelt] => i = j

(* Whoever sees the confirmation has an account, and the plan, the price   *)
(* and the steps it shows are those of the plan that account was stored    *)
(* with, whatever was picked since (Protected.tsx:1-6); it leaves open the *)
(* seats that plan's card promised beside the visitor's own.               *)
ConfirmsAStoredPlan ==
    \A f \in Forms : view[f] = "protected" =>
        \E i \in DOMAIN accounts :
            /\ accounts[i].by = f
            /\ Confirmation(confirmed[f]) = Confirmation(accounts[i].plan)
            /\ \A k \in DOMAIN nextStepsMap[confirmed[f]] :
                  nextStepsMap[confirmed[f]][k].seatsLeft
                    \subseteq {planCardMap[accounts[i].plan].devices - 1}

(* No account is filed as knowingly leaked for a warning that belonged to  *)
(* another password (PasswordField.utils.ts:52-56).                        *)
LeakFlagIsEarned == \A i \in DOMAIN accounts : accounts[i].pwned => accounts[i].password \in Leaked

(* Once the effect of the last edit has run, what the field says is true   *)
(* of the password that is in it, and so is its silence: a clean bill is   *)
(* never one the check did not earn (usePasswordLeakCheck.ts:5-7, 42); and *)
(* a field that describes nothing holds no password known to be leaked and *)
(* is not the one that kept the form from being sent.                      *)
NoticeIsAboutThePassword ==
    \A f \in Forms : view[f] = "form" /\ ~ due[f] =>
        /\ notice(f) # "nothing" => check[f].of = fields[f].password
        /\ notice(f) = "leaked" => fields[f].password \in Leaked
        /\ notice(f) = "nothing" => fields[f].password \notin Leaked
        /\ PasswordField(f) = {} =>
              fields[f].password \notin Leaked /\ "password" \notin validation[f]

(* No spinner stays: a check ends, and so does a submission                *)
(* (usePasswordLeakCheck.ts:60-67, Signup.tsx:73-84).                      *)
Settles ==
    \A f \in Forms :
        /\ [](check[f].status = "checking"
                 => <>(check[f].status # "checking" \/ view[f] # "form"))
        /\ isBusy(f) ~> ~ isBusy(f)

(* Unless a connection is lost, whoever opens an account is told so, also  *)
(* when they left the form or came back to a fresh one while the request   *)
(* was out (Signup.tsx:76-80); a lost answer is the one way to hold an     *)
(* account and only ever read that the email is taken.                     *)
AccountsAreAnnounced ==
    \A f \in Forms :
        (\E i \in DOMAIN accounts : accounts[i].by = f)
            ~> (isProtectedRouteState(confirmed[f]) \/ losses > 0)
=============================================================================
