---------------------------- MODULE AccountAccess ---------------------------
(***************************************************************************)
(* One account: its one-time codes (auth/otp.py and the phone login of     *)
(* auth/router.py), e-mail verification, TOTP enrolment and sessions, used *)
(* by requests in several sessions of a READ COMMITTED database.  A        *)
(* request reads in one step and commits what it decided in another;       *)
(* read-only requests take one step.  The owner role is the only one a     *)
(* sign-up gives.  Passwords are not distinguished: a request that fails   *)
(* its checks changes nothing and is not a step.                           *)
(***************************************************************************)
EXTENDS Naturals, FiniteSets

CONSTANTS
    Request,        \* requests that write, in progress at a time
    Code,           \* bound: the codes issued, in turn: 1..n
    Secret,         \* bound: the TOTP secrets generated, in turn: 1..n
    Limit,          \* OTP_MAX_ATTEMPTS_PER_HOUR
    None

Purpose == {"verify_email", "reset_password", "login"}
User == [verified : BOOLEAN, secret : {None} \cup Secret, enabled : BOOLEAN]

ASSUME CodesInOrder == IsFiniteSet(Code) /\ Code = 1..Cardinality(Code)
ASSUME SecretsInOrder == IsFiniteSet(Secret) /\ Secret = 1..Cardinality(Secret)
ASSUME LimitAssumption == Limit \in Nat
ASSUME NoneAssumption == None \notin Purpose /\ None \notin User

VARIABLES
    user,       \* the account's row, None before it exists
    codes,      \* one-time codes, by number
    plan,       \* what each request has read and will commit, None when idle
    totp,       \* the user holds a valid token with totp_ok
    app,        \* the secret in the user's authenticator
    secrets,    \* number of secrets generated
    accepted,   \* history: how often each code was accepted
    proved,     \* history: secrets a code of which confirmed the enrolment
    rerun,      \* history: secrets stored over an enabled enrolment
    overlap     \* history: groups of which two requests were in progress

vars == <<user, codes, plan, totp, app, secrets, accepted, proved, rerun, overlap>>

NoCode == [purpose |-> None, used |-> FALSE, expired |-> FALSE, recent |-> FALSE]
NewUser == [verified |-> FALSE, secret |-> None, enabled |-> FALSE]

Init ==
    /\ user = None
    /\ codes = [c \in Code |-> NoCode]
    /\ plan = [r \in Request |-> None]
    /\ totp = FALSE /\ app = None /\ secrets = 0
    /\ accepted = [c \in Code |-> 0]
    /\ proved = {} /\ rerun = {} /\ overlap = {}

-----------------------------------------------------------------------------
Group(what) == IF what \in {"confirm", "disable"} THEN "totp" ELSE "codes"
(* A request has read: it will commit what.                                *)
Plans(r, what, codeOrSecret, purpose, old) ==
    /\ plan[r] = None
    /\ plan' = [plan EXCEPT ![r] = [what |-> what, of |-> codeOrSecret, purpose |-> purpose, old |-> old]]
    /\ overlap' = IF \E s \in Request : plan[s] # None /\ Group(plan[s].what) = Group(what)
                  THEN overlap \cup {Group(what)} ELSE overlap
    /\ UNCHANGED <<user, codes, totp, app, secrets, accepted, proved, rerun>>
Over(r) == plan' = [plan EXCEPT ![r] = None]

Issued(purpose) == {c \in Code : codes[c].purpose = purpose}
Unused(purpose) == {c \in Issued(purpose) : ~codes[c].used}
Live(purpose) == {c \in Unused(purpose) : ~codes[c].expired}
Recent(purpose) == {c \in Issued(purpose) : codes[c].recent}

(* create_otp: refused at the hourly limit; else the unused codes it read  *)
(* are spent and a new one is stored.                                      *)
Refused(purpose) == Cardinality(Recent(purpose)) >= Limit
NextCode == Cardinality({c \in Code : codes[c].purpose # None}) + 1
StoredBeside(purpose, old) ==       \* mutant: the older codes stay
    [c \in Code |->
        IF c = NextCode THEN [purpose |-> purpose, used |-> FALSE, expired |-> FALSE, recent |-> TRUE]
        ELSE codes[c]]
Stored(purpose, old) ==
    [c \in Code |->
        IF c = NextCode THEN [purpose |-> purpose, used |-> FALSE, expired |-> FALSE, recent |-> TRUE]
        ELSE IF c \in old THEN [codes[c] EXCEPT !.used = TRUE] ELSE codes[c]]

(* POST /signup of a new address, and of one that is not verified yet.     *)
Signup(r) ==
    /\ user = None
    /\ Plans(r, IF Refused("verify_email") THEN "create" ELSE "create+issue", None,
             "verify_email", Unused("verify_email"))
SignupAgain(r) ==
    /\ user # None /\ ~user.verified /\ ~Refused("verify_email")
    /\ Plans(r, "issue", None, "verify_email", Unused("verify_email"))
(* POST /resend-otp and /forgot-password.                                  *)
RequestCode(r, purpose) ==
    /\ user # None /\ ~Refused(purpose)
    /\ purpose = "verify_email" => ~user.verified
    /\ Plans(r, "issue", None, purpose, Unused(purpose))
(* POST /login/phone/request: the older codes are deleted.                 *)
RequestPhoneCode(r) == Plans(r, "issue", None, "login", Issued("login"))

(* POST /verify-email, /reset-password and /login/phone/verify.            *)
UseCode(r, c) ==
    /\ codes[c].purpose # None /\ c \in Live(codes[c].purpose)
    /\ codes[c].purpose # "login" => user # None
    /\ codes[c].purpose = "verify_email" => ~user.verified
    /\ Plans(r, "use", c, codes[c].purpose, {})

-----------------------------------------------------------------------------
(* The commits.  A sign-up that finds the address taken fails.             *)
Commits(r, whats) == plan[r] # None /\ plan[r].what \in whats /\ Over(r)
CommitSignup(r) ==
    /\ Commits(r, {"create", "create+issue"})
    /\ plan[r].what = "create+issue" => NextCode \in Code
    /\ IF user # None THEN UNCHANGED <<user, codes>>
       ELSE /\ user' = NewUser
            /\ codes' = IF plan[r].what = "create" THEN codes
                        ELSE Stored(plan[r].purpose, plan[r].old)
    /\ UNCHANGED <<totp, app, secrets, accepted, proved, rerun, overlap>>
CommitCode(r) ==
    /\ Commits(r, {"issue"}) /\ NextCode \in Code
    /\ codes' = Stored(plan[r].purpose, plan[r].old)
    /\ UNCHANGED <<user, totp, app, secrets, accepted, proved, rerun, overlap>>
(* The code is marked by its key, whatever happened to it since the read.  *)
CommitUse(r) ==
    LET c == plan[r].of
        base == IF user = None THEN NewUser ELSE user
    IN  /\ Commits(r, {"use"})
        /\ codes' = [codes EXCEPT ![c].used = TRUE]
        /\ user' = [base EXCEPT !.verified = TRUE]
        /\ accepted' = [accepted EXCEPT ![c] = @ + 1]
        /\ UNCHANGED <<totp, app, secrets, proved, rerun, overlap>>

-----------------------------------------------------------------------------
(* TOTP: setup stores a new secret, even over an enabled one; the user may *)
(* scan it or not.                                                         *)
HasToken == user # None
Unverified == HasToken               \* mutant: the flag is not asked for
Verified == HasToken /\ user.verified
Setup(scanned) ==
    LET new == secrets + 1
    IN  /\ Verified /\ new \in Secret
        /\ secrets' = new
        /\ user' = [user EXCEPT !.secret = new]
        /\ app' = IF scanned THEN new ELSE app
        /\ rerun' = IF user.enabled THEN rerun \cup {new} ELSE rerun
        /\ overlap' = IF \E r \in Request : plan[r] # None /\ Group(plan[r].what) = "totp"
                      THEN overlap \cup {"totp"} ELSE overlap
        /\ UNCHANGED <<codes, plan, totp, accepted, proved>>
CodeMatches == user.secret # None /\ app = user.secret
(* enabled is written only where the request read it as FALSE.             *)
Confirm(r) ==
    /\ Verified /\ CodeMatches
    /\ Plans(r, "confirm", user.secret, None, IF user.enabled THEN {} ELSE {"enabled"})
CommitConfirm(r) ==
    /\ Commits(r, {"confirm"})
    /\ user' = [user EXCEPT !.enabled = @ \/ "enabled" \in plan[r].old]
    /\ proved' = proved \cup {plan[r].of}
    /\ totp' = TRUE
    /\ UNCHANGED <<codes, app, secrets, accepted, rerun, overlap>>
(* get_current_user: verified, enrolled, and a token with totp_ok.         *)
Authenticated == Verified /\ user.enabled /\ totp
DisableTotp(r) ==
    /\ Authenticated /\ CodeMatches
    /\ Plans(r, "disable", user.secret, None, {})
CommitForget(r) ==                  \* mutant: the secret goes, enabled stays
    /\ Commits(r, {"disable"})
    /\ user' = [user EXCEPT !.secret = None]
    /\ UNCHANGED <<codes, totp, app, secrets, accepted, proved, rerun, overlap>>
CommitDisable(r) ==
    /\ Commits(r, {"disable"})
    /\ user' = [user EXCEPT !.enabled = FALSE, !.secret = None]
    /\ UNCHANGED <<codes, totp, app, secrets, accepted, proved, rerun, overlap>>

-----------------------------------------------------------------------------
(* POST /totp/validate; tokens and codes run out.  POST /login and         *)
(* /refresh give a token without totp_ok: whoever has an account has one.  *)
Holds(new) ==
    /\ totp' = new
    /\ UNCHANGED <<user, codes, plan, app, secrets, accepted, proved, rerun, overlap>>
Validate == HasToken /\ user.enabled /\ CodeMatches /\ ~totp /\ Holds(TRUE)
TokenExpires == totp /\ Holds(FALSE)

Ages(new) ==
    /\ codes' = new /\ codes' # codes
    /\ UNCHANGED <<user, plan, totp, app, secrets, accepted, proved, rerun, overlap>>
CodeExpires(c) == codes[c].purpose # None /\ ~codes[c].used /\ Ages([codes EXCEPT ![c].expired = TRUE])
(* The codes up to the last one given leave the hour, the oldest first.    *)
HourPasses(last) ==
    Ages([c \in Code |-> IF c > last \/ codes[c].purpose = None THEN codes[c]
                         ELSE [codes[c] EXCEPT !.expired = TRUE, !.recent = FALSE]])

CodeStep(r) ==
    \/ Signup(r) \/ SignupAgain(r) \/ RequestPhoneCode(r)
    \/ \E purpose \in {"verify_email", "reset_password"} : RequestCode(r, purpose)
    \/ \E c \in Code : UseCode(r, c)
    \/ CommitSignup(r) \/ CommitCode(r) \/ CommitUse(r)
TotpStep(r) ==
    \/ Confirm(r) \/ CommitConfirm(r) \/ DisableTotp(r) \/ CommitDisable(r)
    \/ \E scanned \in BOOLEAN : Setup(scanned)
    \/ Validate \/ TokenExpires
AnyStep ==
    \/ \E r \in Request : CodeStep(r) \/ TotpStep(r)
    \/ \E c \in Code : HourPasses(c) \/ CodeExpires(c)
Whole == Init /\ [][AnyStep]_vars

(* Bound: codes and enrolment share only the verified flag, which never    *)
(* goes back: one enrols after the first code, and asks for none after it. *)
(* The proofs are about Whole, which has no such bound.                    *)
Enrols == NextCode = 2 /\ \A r \in Request : plan[r] # None => Group(plan[r].what) = "totp"
Next ==
    \/ \E r \in Request : \/ secrets = 0 /\ CodeStep(r)
                          \/ Enrols /\ TotpStep(r)
    \/ secrets = 0 /\ \E c \in Code : HourPasses(c) \/ CodeExpires(c)
Spec == Init /\ [][Next]_vars

-----------------------------------------------------------------------------
(* Types: codes in their turn, an unused code outside the last hour        *)
(* expired, no enrolment before the address is verified.                   *)
TypeOK ==
    /\ user \in {None} \cup User
    /\ \A c \in Code : codes[c].purpose \in {None} \cup Purpose
    /\ \A c \in Code : codes[c].purpose # None =>
        /\ c = 1 \/ codes[c - 1].purpose # None
        /\ codes[c].recent \/ codes[c].expired \/ codes[c].used
    /\ totp \in BOOLEAN
    /\ user # None /\ ~user.verified => user = NewUser
    /\ app \in {None} \cup 1..secrets /\ proved \subseteq 1..secrets
    /\ DOMAIN accepted = Code /\ \A c \in Code : accepted[c] > 0 => codes[c].used

(* While requests for codes come one at a time, a code is accepted once, a *)
(* purpose has one live code (the newest), and an address gets at most the *)
(* limit of codes an hour.  Overlapping requests can break all three: each *)
(* reads before the other commits.                                         *)
CodesInTurn ==
    "codes" \notin overlap =>
        /\ \A c \in Code : accepted[c] <= 1
        /\ \A purpose \in Purpose :
            \A c \in Live(purpose) : \A d \in Issued(purpose) : d <= c
        /\ \A purpose \in {"verify_email", "reset_password"} :
            Cardinality(Recent(purpose)) <= Limit

(* An enabled enrolment has the secret whose code confirmed it, so the     *)
(* user's authenticator opens the account: unless setup ran again over it, *)
(* or a setup, a confirmation and a disabling overlapped.                  *)
EnabledWasConfirmed ==
    user # None /\ user.enabled /\ "totp" \notin overlap =>
        user.secret \in proved \cup rerun

-----------------------------------------------------------------------------
(* The inductive invariant: types; the codes issued are the first ones;    *)
(* what a request has read and will commit; and, while no two requests of  *)
(* a group overlapped, that it has been alone since it read.               *)
CodeRow == [purpose : {None} \cup Purpose, used : BOOLEAN, expired : BOOLEAN, recent : BOOLEAN]
AnyIssued == {c \in Code : codes[c].purpose # None}
Plan(r, group) == plan[r] # None /\ Group(plan[r].what) = group

TypeInv ==
    /\ TypeOK
    /\ codes \in [Code -> CodeRow]
    /\ DOMAIN plan = Request
    /\ accepted \in [Code -> Nat] /\ \A c \in Code : accepted[c] > 0 => c \in AnyIssued
    /\ secrets \in Nat
IssueInv == AnyIssued = 1..Cardinality(AnyIssued)
(* What holds of the plan p of a request.                                  *)
Sound(p) ==
    /\ p.what \in {"create", "create+issue", "issue", "use", "confirm", "disable"}
    /\ p.what \in {"create", "create+issue", "issue"} => p.purpose \in Purpose
    /\ p.what = "use" => p.of \in AnyIssued
    /\ p.what = "confirm" => p.of \in 1..secrets
    /\ p.what \in {"confirm", "disable"} => user # None /\ user.verified
CodesKnown(p) ==
    /\ p.what = "use" => ~codes[p.of].used
    /\ p.what \in {"create+issue", "issue"} =>
        /\ Unused(p.purpose) \subseteq p.old
        /\ p.purpose # "login" => ~Refused(p.purpose)
SecretKnown(p) == p.what = "confirm" => user.secret = p.of
Alone(group) ==
    \A r, s \in Request : Plan(r, group) /\ Plan(s, group) => r = s

PlanInv == \A r \in Request : plan[r] # None => Sound(plan[r])
CodesInv ==
    "codes" \notin overlap =>
        Alone("codes") /\ \A r \in Request : Plan(r, "codes") => CodesKnown(plan[r])
EnrolInv ==
    "totp" \notin overlap =>
        Alone("totp") /\ \A r \in Request : Plan(r, "totp") => SecretKnown(plan[r])
IInv ==
    /\ TypeInv /\ IssueInv /\ PlanInv
    /\ CodesInv /\ CodesInTurn /\ EnrolInv /\ EnabledWasConfirmed
=============================================================================
