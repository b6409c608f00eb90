---------------------------- MODULE SignupProofs ----------------------------
(***************************************************************************)
(* Theorems about Signup, for any tabs, spellings, passwords and plans:    *)
(* one account per mailbox, a confirmation that names a stored plan, and   *)
(* leak notices and flags that belong to the password they stand for.      *)
(*                                                                         *)
(* What carries them: a stored email is its spelling's mailbox; an answer  *)
(* on its way back stands for an account already stored; and a leak check  *)
(* that may still be shown is about the password last handed to it, in a   *)
(* form that is still there.                                               *)
(***************************************************************************)
EXTENDS Signup, TLAPS

(* Names for one expression each.                                          *)
USE DEF hasValidationErrors, toCreatePayload

(* The unique column, and what is in it.                                   *)
AccountInv ==
    /\ \A i \in DOMAIN accounts : accounts[i].email = Mailbox[accounts[i].spelt]
    /\ \A i, j \in DOMAIN accounts : accounts[i].email = accounts[j].email => i = j

HasAccount(f, plan) == \E i \in DOMAIN accounts : accounts[i].by = f /\ accounts[i].plan = plan

(* A 201 on its way back stands for a stored account.                      *)
AnswerInv ==
    \A r \in wire : r.stage = "created" /\ r.form # Nobody => HasAccount(r.form, r.fields.plan)

(* A leak flag that is sent, as one that is stored, was earned.            *)
FlagInv == \A r \in wire : r.passwordWasPwned => r.fields.password \in Leaked

(* What a check may still show is about the password the field last        *)
(* handed it, and lands on a form that is there.                           *)
CheckInv ==
    /\ \A p \in probes : p.current =>
          view[p.form] = "form" /\ check[p.form].status # "idle" /\ check[p.form].of = p.of
    /\ \A f \in Forms : due[f] => view[f] = "form"

(* The plan a tab was taken to the confirmation with is a stored one.      *)
PlanInv ==
    \A f \in Forms :
        /\ view[f] = "protected" => confirmed[f] # NoPlan
        /\ confirmed[f] # NoPlan => HasAccount(f, confirmed[f])

(* Once its effect has run, the check is about the password in the field.  *)
ResultInv ==
    \A f \in Forms :
        /\ view[f] = "form" /\ ~ due[f] => check[f].of = fields[f].password
        /\ check[f].status = "idle" => check[f].of = Blank
        /\ check[f].status = "clean" => check[f].of \notin Leaked
        /\ check[f].status = "leaked" => check[f].of \in Leaked

IInv == /\ TypeOK /\ AccountInv /\ AnswerInv /\ FlagInv /\ CheckInv
        /\ PlanInv /\ LeakFlagIsEarned /\ ResultInv

-----------------------------------------------------------------------------
(* The k-anonymous lookup is exact: asking for a whole range and looking   *)
(* the suffix up in it says leaked of the leaked passwords and of no       *)
(* other, padded lines or not (PasswordField.utils.ts:100-108).            *)
THEOREM LookupIsExact ==
    \A password \in Passwords : isPwned(password) <=> password \in Leaked
<1> SUFFICES ASSUME NEW password \in Passwords
             PROVE  isPwned(password) <=> password \in Leaked
  OBVIOUS
<1> DEFINE lines == fetchPwnedRange(Prefix[password])
<1>1. DOMAIN lines = {q \in Leaked \cup Padding : Prefix[q] = Prefix[password]}
  BY DEF fetchPwnedRange
<1>2. CASE password \in DOMAIN lines
  <2>1. lines[password] = IF password \in Leaked THEN 1 ELSE 0
    BY <1>1, <1>2 DEF fetchPwnedRange
  <2> HIDE DEF lines
  <2> QED  BY <1>2, <2>1 DEF isPwned, findSuffixCount, lines
<1>3. CASE password \notin DOMAIN lines
  <2>1. password \notin Leaked
    BY <1>1, <1>3
  <2> QED  BY <1>3, <2>1 DEF isPwned, findSuffixCount
<1> QED  BY <1>2, <1>3

-----------------------------------------------------------------------------
LEMMA Initially == Init => IInv
<1> SUFFICES ASSUME Init PROVE IInv
  OBVIOUS
<1>1. TypeOK
  BY SignupAssumption DEF Plans, DEFAULT_PLAN, Init, TypeOK, Fields, EmptyForm, IDLE_CHECK
<1>2. AccountInv /\ AnswerInv /\ FlagInv /\ CheckInv
  BY DEF Init, AccountInv, AnswerInv, FlagInv, CheckInv
<1>3. PlanInv /\ LeakFlagIsEarned /\ ResultInv
  BY DEF Init, PlanInv, HasAccount, LeakFlagIsEarned, ResultInv, IDLE_CHECK, EmptyForm
<1> QED  BY <1>1, <1>2, <1>3 DEF IInv

(* What says nothing but of the accounts and what is on its way to them.   *)
ServerInv == AccountInv /\ AnswerInv /\ FlagInv /\ LeakFlagIsEarned

(* What says nothing of the accounts.                                      *)
FieldInv == CheckInv /\ ResultInv

(* Taking requests off the wire, or no longer listening to them, disturbs  *)
(* nothing that is said of them.                                           *)
LEMMA WireQuiets ==
    ASSUME IInv, UNCHANGED accounts,
           \A q \in wire' : \E r \in wire :
              /\ q.fields = r.fields /\ q.passwordWasPwned = r.passwordWasPwned
              /\ q.stage = r.stage /\ q.form \in {r.form, Nobody}
    PROVE  ServerInv'
<1>1. AccountInv' /\ LeakFlagIsEarned'
  BY DEF IInv, AccountInv, LeakFlagIsEarned
<1>2. AnswerInv'
  BY DEF IInv, AnswerInv, HasAccount
<1>3. FlagInv'
  BY DEF IInv, FlagInv
<1> QED  BY <1>1, <1>2, <1>3 DEF ServerInv

(* The cleanup leaves no check of f current, and changes no other.         *)
LEMMA Cancelled ==
    ASSUME TypeOK, NEW f \in Forms
    PROVE  /\ CancelProbes(f) \subseteq Probe
           /\ \A p \in CancelProbes(f) : p.current => p \in probes /\ p.form # f
<1> SUFFICES ASSUME NEW p \in CancelProbes(f)
             PROVE  p \in Probe /\ (p.current => p \in probes /\ p.form # f)
  OBVIOUS
<1>1. PICK q \in probes : p = IF q.form = f THEN [q EXCEPT !.current = FALSE] ELSE q
  BY DEF CancelProbes
<1>2. q \in Probe
  BY DEF TypeOK
<1>3. CASE q.form = f
  BY <1>1, <1>2, <1>3 DEF Probe
<1>4. CASE q.form # f
  BY <1>1, <1>2, <1>4
<1> QED  BY <1>3, <1>4

(* Unmounting a form changes of its requests only that nothing listens.    *)
LEMMA Unmounted ==
    ASSUME TypeOK, NEW f \in Forms, NEW pending \in SUBSET wire
    PROVE  \A q \in Unmount(f, pending) :
              /\ q \in Request /\ (q.form = Nobody => ~ q.live)
              /\ \E r \in wire : /\ q.fields = r.fields /\ q.passwordWasPwned = r.passwordWasPwned
                                 /\ q.stage = r.stage /\ q.form = r.form
<1> TAKE q \in Unmount(f, pending)
<1>1. PICK r \in pending : q = IF r.form = f THEN [r EXCEPT !.live = FALSE] ELSE r
  BY DEF Unmount
<1>2. r \in wire /\ r \in Request /\ (r.form = Nobody => ~ r.live)
  BY DEF TypeOK
<1>3. CASE r.form = f
  BY <1>1, <1>2, <1>3 DEF Request
<1>4. CASE r.form # f
  BY <1>1, <1>2, <1>4
<1> QED  BY <1>3, <1>4

(* A request answered: only its stage changes.                             *)
LEMMA Responded ==
    ASSUME TypeOK, NEW r \in wire, NEW stage \in {"created", "taken", "refused"},
           Respond(r, stage)
    PROVE  \E a \in Request :
              /\ wire' = (wire \ {r}) \cup {a}
              /\ a.stage = stage /\ a.form = r.form /\ a.live = r.live
              /\ a.fields = r.fields /\ a.passwordWasPwned = r.passwordWasPwned
<1> DEFINE a == [r EXCEPT !.stage = stage]
<1>1. r \in Request
  BY DEF TypeOK
<1>2. /\ a \in Request /\ a.stage = stage /\ a.form = r.form /\ a.live = r.live
      /\ a.fields = r.fields /\ a.passwordWasPwned = r.passwordWasPwned
  BY <1>1 DEF Request
<1> QED  BY <1>2 DEF Respond

-----------------------------------------------------------------------------
(* The fields.                                                             *)
LEMMA EmailStep ==
    ASSUME IInv, NEW f \in Forms, NEW email \in Spellings, handleEmailChange(f, email)
    PROVE  IInv'
<1> USE DEF IInv
<1>1. /\ fields' = [fields EXCEPT ![f].email = email]
      /\ validation' = [validation EXCEPT ![f] = @ \ {"email"}]
      /\ UNCHANGED <<view, check, due, probes, submission, wire, accounts, confirmed>>
  BY DEF handleEmailChange
<1>2. TypeOK'
  <2>1. fields' \in [Forms -> Fields]
    <3>1. fields[f] \in Fields /\ fields \in [Forms -> Fields]
      BY DEF TypeOK
    <3>2. [fields[f] EXCEPT !.email = email] \in Fields
      BY <3>1 DEF Fields
    <3>3. fields' = [fields EXCEPT ![f] = [fields[f] EXCEPT !.email = email]]
      BY <1>1
    <3> QED  BY <3>1, <3>2, <3>3
  <2> QED  BY <1>1, <2>1 DEF TypeOK
<1>3. ServerInv' /\ PlanInv'
  BY <1>1, WireQuiets DEF PlanInv, HasAccount
<1>4. CheckInv'
  BY <1>1 DEF CheckInv
<1>5. ResultInv'
  BY <1>1 DEF ResultInv, TypeOK, Fields
<1> QED  BY <1>2, <1>3, <1>4, <1>5 DEF ServerInv

LEMMA PasswordStep ==
    ASSUME IInv, NEW f \in Forms, NEW password \in Passwords \cup {Blank},
           handlePasswordChange(f, password)
    PROVE  IInv'
<1> USE DEF IInv
<1>1. /\ fields' = [fields EXCEPT ![f].password = password] /\ view[f] = "form"
      /\ validation' = [validation EXCEPT ![f] = @ \ {"password"}]
      /\ due' = [due EXCEPT ![f] = TRUE]
      /\ UNCHANGED <<view, check, probes, submission, wire, accounts, confirmed>>
  BY DEF handlePasswordChange
<1>2. TypeOK'
  BY <1>1 DEF TypeOK, Fields
<1>3. ServerInv' /\ PlanInv'
  BY <1>1, WireQuiets DEF PlanInv, HasAccount
<1>4. CheckInv'
  BY <1>1 DEF CheckInv, TypeOK
<1>5. ResultInv'
  BY <1>1 DEF ResultInv, TypeOK, Fields
<1> QED  BY <1>2, <1>3, <1>4, <1>5 DEF ServerInv

LEMMA PlanStep ==
    ASSUME IInv, NEW f \in Forms, NEW plan \in Plans, setPlan(f, plan)
    PROVE  IInv'
<1> USE DEF IInv
<1>1. /\ fields' = [fields EXCEPT ![f].plan = plan]
      /\ UNCHANGED <<view, validation, check, due, probes, submission, wire, accounts, confirmed>>
  BY DEF setPlan
<1>2. TypeOK'
  <2>1. fields' \in [Forms -> Fields]
    <3>1. fields[f] \in Fields /\ fields \in [Forms -> Fields]
      BY DEF TypeOK
    <3>2. [fields[f] EXCEPT !.plan = plan] \in Fields
      BY <3>1 DEF Fields
    <3>3. fields' = [fields EXCEPT ![f] = [fields[f] EXCEPT !.plan = plan]]
      BY <1>1
    <3> QED  BY <3>1, <3>2, <3>3
  <2> QED  BY <1>1, <2>1 DEF TypeOK
<1>3. ServerInv' /\ PlanInv'
  BY <1>1, WireQuiets DEF PlanInv, HasAccount
<1>4. CheckInv'
  BY <1>1 DEF CheckInv
<1>5. ResultInv'
  BY <1>1 DEF ResultInv, TypeOK, Fields
<1> QED  BY <1>2, <1>3, <1>4, <1>5 DEF ServerInv

-----------------------------------------------------------------------------
(* The leak check.                                                         *)
LEMMA EffectStep == ASSUME IInv, NEW f \in Forms, PasswordEffect(f) PROVE IInv'
<1> USE DEF IInv
<1> DEFINE password == fields[f].password
<1>1. /\ due[f] /\ due' = [due EXCEPT ![f] = FALSE]
      /\ UNCHANGED <<view, fields, validation, submission, wire, accounts, confirmed>>
  BY DEF PasswordEffect
<1>2. view[f] = "form" /\ password \in Passwords \cup {Blank}
  BY <1>1 DEF CheckInv, TypeOK, Fields
<1>3. ServerInv' /\ PlanInv'
  BY <1>1, WireQuiets DEF PlanInv, HasAccount
<1>4. CASE password = Blank
  <2>1. check' = [check EXCEPT ![f] = IDLE_CHECK] /\ probes' = CancelProbes(f)
    BY <1>4 DEF PasswordEffect, isTooShort
  <2>2. TypeOK'
    BY <1>1, <2>1, Cancelled DEF TypeOK, IDLE_CHECK
  <2>3. CheckInv'
    BY <1>1, <2>1, Cancelled DEF CheckInv, TypeOK, Probe
  <2>4. ResultInv'
    BY <1>1, <1>4, <2>1 DEF ResultInv, TypeOK, IDLE_CHECK
  <2> QED  BY <1>3, <2>2, <2>3, <2>4 DEF ServerInv
<1>5. CASE password # Blank
  <2> DEFINE fresh == [form |-> f, of |-> password, stage |-> "timer", current |-> TRUE]
  <2>1. /\ check' = [check EXCEPT ![f] = [status |-> "checking", of |-> password]]
        /\ probes' = CancelProbes(f) \cup {fresh}
    BY <1>5 DEF PasswordEffect, isTooShort
  <2>2. fresh \in Probe /\ fresh.form = f /\ fresh.of = password
    BY <1>2, <1>5 DEF Probe
  <2> HIDE DEF fresh
  <2>3. TypeOK'
    BY <1>1, <1>2, <2>1, <2>2, Cancelled DEF TypeOK
  <2>4. CheckInv'
    BY <1>1, <1>2, <2>1, <2>2, Cancelled DEF CheckInv, TypeOK, Probe
  <2>5. ResultInv'
    BY <1>1, <2>1 DEF ResultInv, TypeOK
  <2> QED  BY <1>3, <2>3, <2>4, <2>5 DEF ServerInv
<1> QED  BY <1>4, <1>5

LEMMA TimerStep == ASSUME IInv, NEW p \in probes, TimerFires(p) PROVE IInv'
<1> USE DEF IInv
<1> DEFINE asked == [p EXCEPT !.stage = "asked"]
<1>1. /\ probes' = (probes \ {p}) \cup {asked}
      /\ UNCHANGED <<view, fields, validation, check, due, submission, wire, accounts, confirmed>>
  BY DEF TimerFires
<1>2. asked \in Probe /\ asked.form = p.form /\ asked.of = p.of /\ asked.current = p.current
  BY DEF TypeOK, Probe
<1> HIDE DEF asked
<1>3. TypeOK'
  BY <1>1, <1>2 DEF TypeOK
<1>4. ServerInv' /\ PlanInv' /\ ResultInv'
  BY <1>1, WireQuiets DEF PlanInv, HasAccount, ResultInv
<1>5. CheckInv'
  BY <1>1, <1>2 DEF CheckInv
<1> QED  BY <1>3, <1>4, <1>5 DEF ServerInv

LEMMA CheckStep == ASSUME IInv, NEW p \in probes, checkPassword(p) PROVE IInv'
<1> USE DEF IInv
<1>1. /\ probes' = probes \ {p}
      /\ UNCHANGED <<view, fields, validation, due, submission, wire, accounts, confirmed>>
  BY DEF checkPassword
<1>2. PICK failed \in BOOLEAN : check' = Shown(p, Result(p, failed))
  BY DEF checkPassword
<1>3. p \in Probe
  BY DEF TypeOK
<1>4. ServerInv' /\ PlanInv'
  BY <1>1, WireQuiets DEF PlanInv, HasAccount
<1>5. CASE ~ p.current
  <2>1. check' = check
    BY <1>2, <1>5 DEF Shown
  <2>2. TypeOK' /\ CheckInv' /\ ResultInv'
    BY <1>1, <2>1 DEF TypeOK, CheckInv, ResultInv
  <2> QED  BY <1>4, <2>2 DEF ServerInv
<1>6. CASE p.current
  <2> DEFINE result == Result(p, failed)
  <2>1. check' = [check EXCEPT ![p.form] = result]
    BY <1>2, <1>6 DEF Shown
  <2>2. /\ result.of = p.of /\ result.status \in {"unchecked", "leaked", "clean"}
        /\ result \in [status : {"unchecked", "leaked", "clean"}, of : Passwords]
        /\ result.status = "clean" => p.of \notin Leaked
        /\ result.status = "leaked" => p.of \in Leaked
    BY <1>3, LookupIsExact DEF Result, Probe
  <2> HIDE DEF result
  <2>3. TypeOK'
    BY <1>1, <1>3, <2>1, <2>2 DEF TypeOK, Probe
  <2>4. CheckInv'
    BY <1>1, <1>3, <1>6, <2>1, <2>2 DEF CheckInv, TypeOK, Probe
  <2>5. ResultInv'
    BY <1>1, <1>3, <1>6, <2>1, <2>2 DEF ResultInv, CheckInv, TypeOK, Probe
  <2> QED  BY <1>4, <2>3, <2>4, <2>5 DEF ServerInv
<1> QED  BY <1>5, <1>6

-----------------------------------------------------------------------------
(* The submission.                                                         *)
LEMMA SubmitStep == ASSUME IInv, NEW f \in Forms, handleSubmit(f) PROVE IInv'
<1> USE DEF IInv
<1>1. UNCHANGED <<view, fields, check, due, probes, accounts, confirmed>>
  BY DEF handleSubmit
<1>2. CheckInv' /\ PlanInv' /\ ResultInv'
  BY <1>1 DEF CheckInv, PlanInv, HasAccount, ResultInv
<1>3. validateSignupForm(f) \subseteq {"email", "password"}
  BY DEF validateSignupForm
<1>4. validation' = [validation EXCEPT ![f] = validateSignupForm(f)]
  BY DEF handleSubmit
<1>5. CASE validateSignupForm(f) # {}
  <2>1. UNCHANGED <<submission, wire>>
    BY <1>5 DEF handleSubmit
  <2>2. TypeOK'
    BY <1>1, <1>3, <1>4, <2>1 DEF TypeOK
  <2> QED  BY <1>1, <1>2, <2>1, <2>2, WireQuiets DEF ServerInv
<1>6. CASE validateSignupForm(f) = {}
  <2> DEFINE r == [form |-> f, live |-> TRUE, fields |-> fields[f],
                   passwordWasPwned |-> wasPwned(f), stage |-> "sent"]
  <2>1. submission' = [submission EXCEPT ![f] = "submitting"] /\ wire' = wire \cup {r}
    BY <1>6 DEF handleSubmit
  <2>2. fields[f] \in Fields /\ fields[f].email # Blank /\ fields[f].password # Blank
    BY <1>6 DEF TypeOK, validateSignupForm, isTooShort
  <2>3. r \in Request /\ r.form = f /\ r.stage = "sent" /\ r.fields = fields[f]
    BY <2>2 DEF Request, wasPwned
  <2>4. r.passwordWasPwned => fields[f].password \in Leaked
    BY DEF wasPwned, ResultInv
  <2> HIDE DEF r
  <2>5. TypeOK'
    BY <1>1, <1>3, <1>4, <2>1, <2>3, SignupAssumption DEF TypeOK
  <2>6. AccountInv' /\ LeakFlagIsEarned'
    BY <1>1 DEF AccountInv, LeakFlagIsEarned
  <2>7. AnswerInv' /\ FlagInv'
    BY <1>1, <2>1, <2>3, <2>4 DEF AnswerInv, HasAccount, FlagInv
  <2> QED  BY <1>2, <2>5, <2>6, <2>7
<1> QED  BY <1>5, <1>6

(* One row is added, and nothing already stored changes.                   *)
LEMMA Appended ==
    ASSUME NEW rows \in Seq(Account), NEW e \in Account
    PROVE  /\ Append(rows, e) \in Seq(Account)
           /\ DOMAIN Append(rows, e) = DOMAIN rows \cup {Len(rows) + 1}
           /\ Len(rows) + 1 \notin DOMAIN rows
           /\ Append(rows, e)[Len(rows) + 1] = e
           /\ \A i \in DOMAIN rows : Append(rows, e)[i] = rows[i]
OBVIOUS

LEMMA InsertStep == ASSUME IInv, NEW r \in wire, insert_signup(r) PROVE IInv'
<1> USE DEF IInv
<1> DEFINE email == lower_case(r.fields.email)
           e == [email |-> email, spelt |-> r.fields.email, plan |-> r.fields.plan,
                 password |-> r.fields.password, pwned |-> r.passwordWasPwned, by |-> r.form]
<1>1. /\ r.stage = "sent" /\ r \in Request
      /\ UNCHANGED <<view, fields, validation, check, due, probes, submission, confirmed>>
  BY DEF insert_signup, TypeOK
<1>2. CheckInv' /\ ResultInv'
  BY <1>1 DEF CheckInv, ResultInv
<1>3. CASE \E i \in DOMAIN accounts : accounts[i].email = email
  <2>1. Respond(r, "taken") /\ accounts' = accounts
    BY <1>3 DEF insert_signup
  <2>2. PICK a \in Request :
          /\ wire' = (wire \ {r}) \cup {a}
          /\ a.stage = "taken" /\ a.form = r.form /\ a.live = r.live
          /\ a.fields = r.fields /\ a.passwordWasPwned = r.passwordWasPwned
    BY <2>1, Responded
  <2>3. TypeOK'
    BY <1>1, <2>1, <2>2 DEF TypeOK
  <2>4. AccountInv' /\ LeakFlagIsEarned' /\ PlanInv'
    BY <1>1, <2>1 DEF AccountInv, LeakFlagIsEarned, PlanInv, HasAccount
  <2>5. AnswerInv' /\ FlagInv'
    BY <2>1, <2>2 DEF AnswerInv, HasAccount, FlagInv
  <2> QED  BY <1>2, <2>3, <2>4, <2>5
<1>4. CASE \A i \in DOMAIN accounts : accounts[i].email # email
  <2>1. Respond(r, "created") /\ accounts' = Append(accounts, e)
    BY <1>4 DEF insert_signup
  <2>2. PICK a \in Request :
          /\ wire' = (wire \ {r}) \cup {a}
          /\ a.stage = "created" /\ a.form = r.form /\ a.live = r.live
          /\ a.fields = r.fields /\ a.passwordWasPwned = r.passwordWasPwned
    BY <2>1, Responded
  <2>3. e \in Account
    BY <1>1, SignupAssumption DEF Request, Fields, Account, lower_case
  <2>4. /\ e.email = Mailbox[e.spelt] /\ e.by = r.form /\ e.plan = r.fields.plan
        /\ e.pwned => e.password \in Leaked
    BY DEF lower_case, FlagInv
  <2>5. \A i \in DOMAIN accounts : accounts[i].email # e.email
    BY <1>4
  <2> HIDE DEF e, email
  <2> DEFINE n == Len(accounts) + 1
  <2>6. /\ accounts' \in Seq(Account)
        /\ DOMAIN accounts' = DOMAIN accounts \cup {n}
        /\ accounts'[n] = e
        /\ \A i \in DOMAIN accounts : accounts'[i] = accounts[i]
    BY <2>1, <2>3, Appended DEF TypeOK
  <2> HIDE DEF n
  <2>7. TypeOK'
    BY <1>1, <2>2, <2>6 DEF TypeOK
  <2>8. AccountInv'
    BY <2>4, <2>5, <2>6 DEF AccountInv
  <2>9. LeakFlagIsEarned' /\ PlanInv'
    BY <1>1, <2>4, <2>6 DEF LeakFlagIsEarned, PlanInv, HasAccount
  <2>10. AnswerInv' /\ FlagInv'
    BY <2>2, <2>4, <2>6 DEF AnswerInv, HasAccount, FlagInv
  <2> QED  BY <1>2, <2>7, <2>8, <2>9, <2>10
<1> QED  BY <1>3, <1>4

LEMMA RefuseStep == ASSUME IInv, NEW r \in wire, RefuseSignup(r) PROVE IInv'
<1> USE DEF IInv
<1>1. UNCHANGED <<view, fields, validation, check, due, probes, submission, accounts, confirmed>>
  BY DEF RefuseSignup
<1>2. PICK a \in Request :
        /\ wire' = (wire \ {r}) \cup {a}
        /\ a.stage = "refused" /\ a.form = r.form /\ a.live = r.live
        /\ a.fields = r.fields /\ a.passwordWasPwned = r.passwordWasPwned
  BY Responded DEF RefuseSignup
<1>3. TypeOK'
  BY <1>1, <1>2 DEF TypeOK
<1>4. CheckInv' /\ PlanInv' /\ ResultInv'
  BY <1>1 DEF CheckInv, PlanInv, HasAccount, ResultInv
<1>5. AccountInv' /\ AnswerInv' /\ FlagInv' /\ LeakFlagIsEarned'
  BY <1>1, <1>2 DEF AccountInv, AnswerInv, HasAccount, FlagInv, LeakFlagIsEarned
<1> QED  BY <1>3, <1>4, <1>5

-----------------------------------------------------------------------------
(* The answers.                                                            *)
LEMMA SignedUpStep == ASSUME IInv, NEW r \in wire, SignedUp(r) PROVE IInv'
<1> USE DEF IInv
<1> DEFINE f == r.form
<1>1. /\ r.stage = "created" /\ f # Nobody
      /\ view' = [view EXCEPT ![f] = "protected"]
      /\ confirmed' = [confirmed EXCEPT ![f] = r.fields.plan]
      /\ probes' = CancelProbes(f)
      /\ due' = [due EXCEPT ![f] = FALSE]
      /\ submission' = [submission EXCEPT ![f] = "idle"]
      /\ wire' = Unmount(f, wire \ {r})
      /\ UNCHANGED <<fields, validation, check, accounts>>
  BY DEF SignedUp, ConfirmedPlan
<1>2. f \in Forms /\ r.fields.plan \in Plans
  BY <1>1 DEF TypeOK, Request, Fields
<1>3. HasAccount(f, r.fields.plan)
  BY <1>1 DEF AnswerInv
<1> HIDE DEF f
<1>4. TypeOK'
  BY <1>1, <1>2, Cancelled, Unmounted DEF TypeOK
<1>5. ServerInv'
  BY <1>1, <1>2, Unmounted, WireQuiets
<1>6. CheckInv'
  BY <1>1, <1>2, Cancelled DEF CheckInv, TypeOK, Probe
<1>7. PlanInv'
  <2>1. confirmed'[f] = r.fields.plan /\ r.fields.plan # NoPlan
    BY <1>1, <1>2, SignupAssumption DEF TypeOK
  <2>2. \A g \in Forms \ {f} : view'[g] = view[g] /\ confirmed'[g] = confirmed[g]
    BY <1>1 DEF TypeOK
  <2> QED  BY <1>1, <1>3, <2>1, <2>2 DEF PlanInv, HasAccount
<1>8. ResultInv'
  BY <1>1, <1>2 DEF ResultInv, TypeOK
<1> QED  BY <1>4, <1>5, <1>6, <1>7, <1>8 DEF ServerInv

LEMMA RefusedStep == ASSUME IInv, NEW r \in wire, SignupRefused(r) \/ LoseSignup(r) PROVE IInv'
<1> USE DEF IInv
<1>1. r.form \in Forms /\ r \in Request
  BY DEF SignupRefused, LoseSignup, TypeOK, Request
<1>2. UNCHANGED <<view, fields, validation, check, due, probes, accounts, confirmed>>
  BY DEF SignupRefused, LoseSignup
<1>3. submission' \in [Forms -> {"idle", "submitting", "taken", "failed"}]
  BY <1>1 DEF describeSignupFailure, SignupRefused, LoseSignup, Failure, TypeOK
<1>4. \A q \in wire' : q \in wire \/ q = [r EXCEPT !.form = Nobody, !.live = FALSE]
  BY DEF SignupRefused, LoseSignup
<1> DEFINE a == [r EXCEPT !.form = Nobody, !.live = FALSE]
<1>5. /\ a \in Request /\ a.form = Nobody /\ ~ a.live /\ a.fields = r.fields
      /\ a.passwordWasPwned = r.passwordWasPwned /\ a.stage = r.stage
  BY <1>1 DEF Request
<1>6. \A q \in wire' : q \in wire \/ q = a
  BY <1>4
<1> HIDE DEF a
<1>7. TypeOK'
  BY <1>2, <1>3, <1>5, <1>6 DEF TypeOK
<1>8. ServerInv'
  BY <1>2, <1>5, <1>6, WireQuiets
<1>9. CheckInv' /\ PlanInv' /\ ResultInv'
  BY <1>2 DEF CheckInv, PlanInv, HasAccount, ResultInv
<1> QED  BY <1>7, <1>8, <1>9 DEF ServerInv

LEMMA DropStep == ASSUME IInv, NEW r \in wire, DropSignup(r) PROVE IInv'
<1> USE DEF IInv
<1>1. /\ wire' = wire \ {r}
      /\ UNCHANGED <<view, fields, validation, check, due, probes, submission, accounts, confirmed>>
  BY DEF DropSignup
<1>2. TypeOK' /\ ServerInv'
  BY <1>1, WireQuiets DEF TypeOK
<1>3. CheckInv' /\ PlanInv' /\ ResultInv'
  BY <1>1 DEF CheckInv, PlanInv, HasAccount, ResultInv
<1> QED  BY <1>2, <1>3 DEF ServerInv

-----------------------------------------------------------------------------
(* Leaving and coming back.                                                *)
LEMMA LeaveStep == ASSUME IInv, NEW f \in Forms, Leave(f) PROVE IInv'
<1> USE DEF IInv
<1>1. /\ view' = [view EXCEPT ![f] = "elsewhere"]
      /\ probes' = CancelProbes(f)
      /\ due' = [due EXCEPT ![f] = FALSE]
      /\ submission' = [submission EXCEPT ![f] = "idle"]
      /\ wire' = Unmount(f, wire)
      /\ UNCHANGED <<fields, validation, check, accounts, confirmed>>
  BY DEF Leave
<1>2. TypeOK'
  BY <1>1, Cancelled, Unmounted DEF TypeOK
<1>3. ServerInv'
  BY <1>1, Unmounted, WireQuiets
<1>4. CheckInv'
  BY <1>1, Cancelled DEF CheckInv, TypeOK, Probe
<1>5. PlanInv' /\ ResultInv'
  BY <1>1 DEF PlanInv, HasAccount, ResultInv, TypeOK
<1> QED  BY <1>2, <1>3, <1>4, <1>5 DEF ServerInv

LEMMA ReturnStep == ASSUME IInv, NEW f \in Forms, Return(f) PROVE IInv'
<1> USE DEF IInv
<1>1. /\ view[f] # "form" /\ view' = [view EXCEPT ![f] = "form"]
      /\ fields' = [fields EXCEPT ![f] = EmptyForm]
      /\ validation' = [validation EXCEPT ![f] = {}]
      /\ check' = [check EXCEPT ![f] = IDLE_CHECK]
      /\ UNCHANGED <<due, probes, submission, wire, accounts, confirmed>>
  BY DEF Return
<1>2. TypeOK'
  BY <1>1, SignupAssumption DEF Plans, DEFAULT_PLAN, TypeOK, EmptyForm, Fields, IDLE_CHECK
<1>3. ServerInv'
  BY <1>1, WireQuiets
<1>4. CheckInv'
  BY <1>1 DEF CheckInv, TypeOK, Probe
<1>5. PlanInv' /\ ResultInv'
  <2>1. PlanInv'
    BY <1>1 DEF PlanInv, HasAccount, TypeOK
  <2>2. fields'[f].password = Blank /\ check'[f] = IDLE_CHECK
    BY <1>1 DEF TypeOK, EmptyForm
  <2>3. \A g \in Forms \ {f} : view'[g] = view[g] /\ fields'[g] = fields[g] /\ check'[g] = check[g]
    BY <1>1 DEF TypeOK
  <2>4. ResultInv'
    BY <1>1, <2>2, <2>3 DEF ResultInv, IDLE_CHECK
  <2> QED  BY <2>1, <2>4
<1> QED  BY <1>2, <1>3, <1>4, <1>5 DEF ServerInv

LEMMA MoveStep ==
    ASSUME IInv, NEW f \in Forms, BackToResults(f) \/ BackToConfirmation(f)
    PROVE  IInv'
<1> USE DEF IInv
<1>1. PICK to \in {"elsewhere", "protected"} :
        /\ view' = [view EXCEPT ![f] = to] /\ view[f] # "form"
        /\ to = "protected" => confirmed[f] # NoPlan
        /\ UNCHANGED <<fields, validation, check, due, probes, submission, wire, accounts, confirmed>>
  BY SignupAssumption DEF BackToResults, BackToConfirmation, Move, isProtectedRouteState
<1>2. TypeOK'
  BY <1>1 DEF TypeOK
<1>3. ServerInv'
  BY <1>1, WireQuiets
<1>4. CheckInv'
  BY <1>1 DEF CheckInv, TypeOK, Probe
<1>5. PlanInv' /\ ResultInv'
  BY <1>1 DEF PlanInv, HasAccount, ResultInv, TypeOK
<1> QED  BY <1>2, <1>3, <1>4, <1>5 DEF ServerInv

-----------------------------------------------------------------------------
LEMMA Invariant == Spec => []IInv
<1>1. IInv /\ [Next]_vars => IInv'
  <2> SUFFICES ASSUME IInv, [Next]_vars PROVE IInv'
    OBVIOUS
  <2>1. ASSUME NEW f \in Forms, Visitor(f) PROVE IInv'
    BY <2>1, EmailStep, PasswordStep, PlanStep, SubmitStep, LeaveStep, ReturnStep, MoveStep
       DEF Visitor
  <2>2. ASSUME NEW f \in Forms, PasswordEffect(f) PROVE IInv'
    BY <2>2, EffectStep
  <2>3. ASSUME NEW p \in probes, Check(p) PROVE IInv'
    BY <2>3, TimerStep, CheckStep DEF Check
  <2>4. ASSUME NEW r \in wire, Serve(r) \/ Deliver(r) \/ LoseSignup(r) PROVE IInv'
    BY <2>4, InsertStep, RefuseStep, SignedUpStep, RefusedStep, DropStep DEF Serve, Deliver
  <2>5. CASE UNCHANGED vars
    <3> USE <2>5 DEF IInv, vars
    <3>1. TypeOK' /\ CheckInv' /\ PlanInv' /\ ResultInv'
      BY DEF TypeOK, CheckInv, PlanInv, HasAccount, ResultInv
    <3>2. ServerInv'
      BY WireQuiets
    <3> QED  BY <3>1, <3>2 DEF ServerInv
  <2> QED  BY <2>1, <2>2, <2>3, <2>4, <2>5 DEF Next
<1> QED  BY Initially, <1>1, PTL DEF Spec

(* Forms, requests and accounts keep their types: what is on the wire has  *)
(* passed the form's validation.                                           *)
THEOREM TypeCorrect == Spec => []TypeOK
<1>1. IInv => TypeOK
  BY DEF IInv
<1> QED  BY Invariant, <1>1, PTL

(* A mailbox has one account, however it was spelt and however many        *)
(* requests for it raced (signups/repository.py:33-38).                    *)
THEOREM OneAccountEach == Spec => []OneAccountPerMailbox
<1>1. IInv => OneAccountPerMailbox
  BY DEF IInv, AccountInv, OneAccountPerMailbox
<1> QED  BY Invariant, <1>1, PTL

(* The steps of a plan leave open the seats its card promised.             *)
LEMMA SeatsAddUp ==
    \A plan \in Plans : \A k \in DOMAIN nextStepsMap[plan] :
       nextStepsMap[plan][k].seatsLeft \subseteq {planCardMap[plan].devices - 1}
<1> SUFFICES ASSUME NEW plan \in Plans, NEW k \in DOMAIN nextStepsMap[plan]
             PROVE  nextStepsMap[plan][k].seatsLeft \subseteq {planCardMap[plan].devices - 1}
  OBVIOUS
<1>1. planCardMap[plan].devices = IF plan = Basic THEN 1 ELSE 5
  BY DEF planCardMap, PlanCard
<1> DEFINE second == IF plan = Basic THEN NextStep("Turn on breach alerts", {})
                     ELSE NextStep("Add a family member", {4})
           steps == <<INSTALL_STEP, second>>
<1>2. nextStepsMap[plan] = steps
  BY DEF nextStepsMap
<1>3. k \in DOMAIN steps
  BY <1>2
<1>4. k \in {1, 2} /\ steps[1] = INSTALL_STEP /\ steps[2] = second
  <2> HIDE DEF second
  <2> QED BY <1>3
<1>5. INSTALL_STEP.seatsLeft = {} /\ second.seatsLeft \subseteq {planCardMap[plan].devices - 1}
  BY <1>1 DEF INSTALL_STEP, NextStep
<1> HIDE DEF steps, second
<1> QED BY <1>2, <1>4, <1>5

(* The plan a confirmation names is one its visitor has an account with    *)
(* (Protected.tsx:1-6).                                                    *)
THEOREM ConfirmationIsTrue == Spec => []ConfirmsAStoredPlan
<1>1. IInv => ConfirmsAStoredPlan
  <2> SUFFICES ASSUME IInv, NEW f \in Forms, view[f] = "protected"
               PROVE  \E i \in DOMAIN accounts :
                         /\ accounts[i].by = f
                         /\ Confirmation(confirmed[f]) = Confirmation(accounts[i].plan)
                         /\ \A k \in DOMAIN nextStepsMap[confirmed[f]] :
                               nextStepsMap[confirmed[f]][k].seatsLeft
                                 \subseteq {planCardMap[accounts[i].plan].devices - 1}
    BY DEF ConfirmsAStoredPlan
  <2>1. PICK i \in DOMAIN accounts : accounts[i].by = f /\ accounts[i].plan = confirmed[f]
    BY DEF IInv, PlanInv, HasAccount
  <2>2. confirmed[f] \in Plans
    BY SignupAssumption DEF IInv, PlanInv, TypeOK
  <2>3. \A plan \in Plans : \A k \in DOMAIN nextStepsMap[plan] :
           nextStepsMap[plan][k].seatsLeft \subseteq {planCardMap[plan].devices - 1}
    BY SeatsAddUp
  <2> QED BY <2>1, <2>2, <2>3
<1> QED  BY Invariant, <1>1, PTL

(* No account is flagged for a warning about another password              *)
(* (PasswordField.utils.ts:52-56).                                         *)
THEOREM FlagsAreEarned == Spec => []LeakFlagIsEarned
<1>1. IInv => LeakFlagIsEarned
  BY DEF IInv
<1> QED  BY Invariant, <1>1, PTL

(* What the field says, and its silence, is true of the password in it,    *)
(* whatever checks were overtaken (usePasswordLeakCheck.ts:5-7, 42).       *)
THEOREM NoticesAreCurrent == Spec => []NoticeIsAboutThePassword
<1>1. IInv => NoticeIsAboutThePassword
  <2> SUFFICES ASSUME IInv, NEW f \in Forms, view[f] = "form", ~ due[f]
               PROVE  /\ notice(f) # "nothing" => check[f].of = fields[f].password
                      /\ notice(f) = "leaked" => fields[f].password \in Leaked
                      /\ notice(f) = "nothing" => fields[f].password \notin Leaked
                      /\ PasswordField(f) = {} =>
                            fields[f].password \notin Leaked /\ "password" \notin validation[f]
    BY DEF NoticeIsAboutThePassword
  <2>1. /\ notice(f) # "nothing" => check[f].of = fields[f].password
        /\ notice(f) = "leaked" => fields[f].password \in Leaked
        /\ notice(f) = "nothing" => fields[f].password \notin Leaked
    <3>1. \A g \in Forms : view[g] = "form" /\ ~ due[g] =>
             /\ notice(g) # "nothing" => check[g].of = fields[g].password
             /\ notice(g) = "leaked" => fields[g].password \in Leaked
             /\ notice(g) = "nothing" => fields[g].password \notin Leaked
      BY SignupAssumption DEF IInv, ResultInv, notice, TypeOK
    <3> QED BY <3>1
  <2>2. ASSUME PasswordField(f) = {}
        PROVE  notice(f) = "nothing" /\ "password" \notin validation[f]
    <3> DEFINE ids == {notice(f), IF "password" \in validation[f] THEN "error" ELSE "nothing"}
    <3>1. ids \ {"nothing"} = {}
      BY <2>2 DEF PasswordField, describedBy
    <3>2. notice(f) \in ids /\ ("password" \in validation[f] => "error" \in ids)
      OBVIOUS
    <3> HIDE DEF ids
    <3> QED BY <3>1, <3>2
  <2> QED BY <2>1, <2>2
<1> QED  BY Invariant, <1>1, PTL

=============================================================================
