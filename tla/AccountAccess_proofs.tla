------------------------ MODULE AccountAccess_proofs ------------------------
(***************************************************************************)
(* Theorems about an account, for every set of concurrent requests, every  *)
(* number of codes and secrets and every hourly limit, and without the     *)
(* order of codes and enrolment that bounds Spec.                          *)
(***************************************************************************)
EXTENDS AccountAccess, FiniteSetTheorems, TLAPS

-----------------------------------------------------------------------------
(* Numbers.                                                                *)

LEMMA Numbers ==
  /\ Code \subseteq Nat /\ Secret \subseteq Nat
  /\ Cardinality(Code) \in Nat /\ Cardinality(Secret) \in Nat
  BY CodesInOrder, SecretsInOrder, FS_CardinalityType

(* While codes are the first ones, the next one is new and the largest.    *)
LEMMA NextIsNew ==
  ASSUME TypeInv, IssueInv
  PROVE  /\ NextCode \in Nat /\ NextCode \notin AnyIssued
         /\ \A c \in AnyIssued : c < NextCode
         /\ NextCode \in Code =>
              AnyIssued \cup {NextCode} = 1..Cardinality(AnyIssued \cup {NextCode})
  <1>1. IsFiniteSet(AnyIssued) /\ Cardinality(AnyIssued) \in Nat
    BY CodesInOrder, FS_Subset, FS_CardinalityType DEF AnyIssued
  <1>2. NextCode = Cardinality(AnyIssued) + 1
    BY DEF NextCode, AnyIssued
  <1>3. NextCode \notin AnyIssued /\ \A c \in AnyIssued : c < NextCode
    BY <1>1, <1>2 DEF IssueInv
  <1>4. Cardinality(AnyIssued \cup {NextCode}) = NextCode
    BY <1>1, <1>2, <1>3, FS_AddElement
  <1> QED
    BY <1>1, <1>2, <1>3, <1>4 DEF IssueInv

-----------------------------------------------------------------------------
(* The read of a request plans something sound and changes nothing else.   *)

Reads(r) ==
  \/ Signup(r) \/ SignupAgain(r) \/ RequestPhoneCode(r)
  \/ \E purpose \in {"verify_email", "reset_password"} : RequestCode(r, purpose)
  \/ \E c \in Code : UseCode(r, c)
  \/ Confirm(r) \/ DisableTotp(r)
Known(p) == Sound(p) /\ CodesKnown(p) /\ SecretKnown(p)
ReadAs(r, p) ==
  /\ plan' = [plan EXCEPT ![r] = p]
  /\ overlap' = IF \E s \in Request : Plan(s, Group(p.what))
                THEN overlap \cup {Group(p.what)} ELSE overlap
  /\ UNCHANGED <<user, codes, totp, app, secrets, accepted, proved, rerun>>

LEMMA PlansRead ==
  ASSUME NEW r \in Request, NEW what, NEW of, NEW purpose, NEW old,
         Plans(r, what, of, purpose, old),
         Known([what |-> what, of |-> of, purpose |-> purpose, old |-> old])
  PROVE  \E p : Known(p) /\ ReadAs(r, p)
  <1> DEFINE p == [what |-> what, of |-> of, purpose |-> purpose, old |-> old]
  <1>1. p.what = what
    OBVIOUS
  <1>2. ReadAs(r, p)
    BY <1>1 DEF Plans, ReadAs, Plan
  <1> QED
    BY <1>2

LEMMA ReadEffect ==
  ASSUME TypeInv, NEW r \in Request, Reads(r)
  PROVE  \E p : Known(p) /\ ReadAs(r, p)
  <1> USE DEF Known, Sound, CodesKnown, SecretKnown, Purpose
  <1>1. CASE Signup(r)
    <2>1. CASE Refused("verify_email")
      <3>1. Plans(r, "create", None, "verify_email", Unused("verify_email"))
        BY <1>1, <2>1 DEF Signup
      <3> QED
        BY <3>1, PlansRead
    <2>2. CASE ~Refused("verify_email")
      <3>1. Plans(r, "create+issue", None, "verify_email", Unused("verify_email"))
        BY <1>1, <2>2 DEF Signup
      <3> QED
        BY <2>2, <3>1, PlansRead
    <2> QED
      BY <2>1, <2>2
  <1>2. CASE SignupAgain(r)
    BY <1>2, PlansRead DEF SignupAgain
  <1>3. CASE RequestPhoneCode(r)
    <2>1. Unused("login") \subseteq Issued("login")
      BY DEF Unused
    <2> QED
      BY <1>3, <2>1, PlansRead DEF RequestPhoneCode
  <1>4. ASSUME NEW purpose \in {"verify_email", "reset_password"}, RequestCode(r, purpose)
        PROVE  \E p : Known(p) /\ ReadAs(r, p)
    BY <1>4, PlansRead DEF RequestCode
  <1>5. ASSUME NEW c \in Code, UseCode(r, c)
        PROVE  \E p : Known(p) /\ ReadAs(r, p)
    <2>1. c \in AnyIssued /\ ~codes[c].used
      BY <1>5 DEF UseCode, Live, Unused, AnyIssued
    <2> QED
      BY <1>5, <2>1, PlansRead DEF UseCode
  <1>6. CASE Confirm(r)
    <2>1. user.secret \in 1..secrets /\ user # None /\ user.verified
      BY <1>6 DEF Confirm, CodeMatches, Verified, HasToken, TypeInv, TypeOK
    <2> QED
      BY <1>6, <2>1, PlansRead DEF Confirm
  <1>7. CASE DisableTotp(r)
    BY <1>7, PlansRead DEF DisableTotp, Authenticated, Verified, HasToken
  <1> QED
    BY <1>1, <1>2, <1>3, <1>4, <1>5, <1>6, <1>7 DEF Reads

(* What is read stays true while only requests begin.                      *)
LEMMA ReadKeeps ==
  ASSUME IInv, NEW r \in Request, Reads(r)
  PROVE  IInv'
  <1>1. PICK p : Known(p) /\ ReadAs(r, p)
    BY ReadEffect DEF IInv
  <1> USE DEF ReadAs
  <1>2. IssueInv' /\ AnyIssued' = AnyIssued
    BY <1>1 DEF IInv, IssueInv, AnyIssued
  <1>3. TypeInv'
    BY <1>1, <1>2 DEF IInv, TypeInv, TypeOK
  <1>4. /\ \A q : Sound(q) => Sound(q)'
        /\ \A q : CodesKnown(q) => CodesKnown(q)'
        /\ \A q : SecretKnown(q) => SecretKnown(q)'
    BY <1>1, <1>2 DEF Sound, CodesKnown, SecretKnown, Unused, Issued, Refused, Recent
  <1>5. \A s \in Request : plan'[s] = IF s = r THEN p ELSE plan[s]
    BY <1>1 DEF IInv, TypeInv
  <1>6. PlanInv'
    BY <1>1, <1>4, <1>5 DEF IInv, PlanInv, Known
  <1>7. \A g : g \notin overlap' =>
           /\ g \notin overlap
           /\ Alone(g) => Alone(g)'
    BY <1>1, <1>5 DEF Alone, Plan
  <1>8. CodesInv'
    BY <1>1, <1>4, <1>5, <1>7 DEF IInv, CodesInv, Known, Plan
  <1>9. EnrolInv'
    BY <1>1, <1>4, <1>5, <1>7 DEF IInv, EnrolInv, Known, Plan
  <1>10. CodesInTurn' /\ EnabledWasConfirmed'
    BY <1>1, <1>7 DEF IInv, CodesInTurn, EnabledWasConfirmed, Live, Unused, Issued, Recent
  <1> QED
    BY <1>2, <1>3, <1>6, <1>8, <1>9, <1>10 DEF IInv

-----------------------------------------------------------------------------
(* The commits of a request about codes.                                   *)

Ends(r) ==
  /\ plan[r] # None /\ Over(r)
  /\ UNCHANGED overlap
LEMMA EndsAlone ==
  ASSUME TypeInv, NEW r \in Request, Ends(r)
  PROVE  /\ \A s \in Request : plan'[s] # None => s # r /\ plan[s] # None /\ plan'[s] = plan[s]
         /\ \A g : Alone(g) => Alone(g)'
         /\ \A g : Alone(g) /\ Plan(r, g) => \A s \in Request : ~Plan(s, g)'
  <1>1. \A s \in Request : plan'[s] = IF s = r THEN None ELSE plan[s]
    BY DEF Ends, Over, TypeInv
  <1> QED
    BY <1>1 DEF Alone, Plan

(* An issue stores one new code, spends the older ones it read, and leaves *)
(* the other purposes alone.                                               *)
LEMMA StoredType ==
  ASSUME TypeInv, IssueInv, NEW purpose \in Purpose, NEW old,
         NextCode \in Code, codes' = Stored(purpose, old)
  PROVE  /\ codes' \in [Code -> CodeRow]
         /\ AnyIssued' = AnyIssued \cup {NextCode}
         /\ IssueInv'
         /\ \A c \in Code : codes[c].used => codes'[c].used \/ c = NextCode
         /\ \A c \in Code : codes'[c].purpose # None =>
              /\ c = 1 \/ codes'[c - 1].purpose # None
              /\ codes'[c].recent \/ codes'[c].expired \/ codes'[c].used
  <1>1. codes' \in [Code -> CodeRow]
    BY DEF Stored, TypeInv, CodeRow
  <1>2. AnyIssued' = AnyIssued \cup {NextCode}
    BY NoneAssumption DEF Stored, AnyIssued, TypeInv, CodeRow
  <1>3. IssueInv'
    BY <1>2, NextIsNew DEF IssueInv
  <1>4. \A c \in AnyIssued' : c = 1 \/ c - 1 \in AnyIssued'
    <2>1. IsFiniteSet(AnyIssued') /\ Cardinality(AnyIssued') \in Nat
      BY CodesInOrder, FS_Subset, FS_CardinalityType DEF AnyIssued
    <2> QED
      BY <1>3, <2>1 DEF IssueInv
  <1>5. \A c \in Code : codes'[c].purpose # None =>
              codes'[c].recent \/ codes'[c].expired \/ codes'[c].used
    BY DEF Stored, TypeInv, TypeOK, CodeRow
  <1>6. \A c \in Code : codes[c].used => codes'[c].used \/ c = NextCode
    BY DEF Stored, TypeInv, CodeRow
  <1> QED
    BY <1>1, <1>2, <1>3, <1>4, <1>5, <1>6 DEF AnyIssued

LEMMA StoredCodes ==
  ASSUME TypeInv, IssueInv, NEW purpose \in Purpose, NEW old,
         NextCode \in Code, codes' = Stored(purpose, old),
         Unused(purpose) \subseteq old
  PROVE  /\ Issued(purpose)' = Issued(purpose) \cup {NextCode}
         /\ Live(purpose)' = {NextCode}
         /\ Recent(purpose)' = Recent(purpose) \cup {NextCode}
         /\ \A other \in Purpose \ {purpose} :
              /\ Issued(other)' = Issued(other)
              /\ Live(other)' \subseteq Live(other)
              /\ Recent(other)' = Recent(other)
  <1>1. NextCode \notin AnyIssued
    BY NextIsNew
  <1>2. \A other \in Purpose : NextCode \notin Issued(other)
    BY <1>1, NoneAssumption DEF AnyIssued, Issued
  <1>3. \A c \in Code \ {NextCode} :
           codes'[c] = IF c \in old THEN [codes[c] EXCEPT !.used = TRUE] ELSE codes[c]
    BY DEF Stored
  <1>4. codes'[NextCode] = [purpose |-> purpose, used |-> FALSE, expired |-> FALSE, recent |-> TRUE]
    BY DEF Stored
  <1>5. \A c \in Code \ {NextCode} :
           /\ codes'[c].purpose = codes[c].purpose /\ codes'[c].expired = codes[c].expired
           /\ codes'[c].recent = codes[c].recent
           /\ codes'[c].used <=> codes[c].used \/ c \in old
    BY <1>3 DEF TypeInv, CodeRow
  <1>6. \A p \in Purpose : Issued(p)' = IF p = purpose THEN Issued(p) \cup {NextCode} ELSE Issued(p)
    BY <1>2, <1>4, <1>5 DEF Issued
  <1>7. \A p \in Purpose : Recent(p)' = IF p = purpose THEN Recent(p) \cup {NextCode} ELSE Recent(p)
    BY <1>2, <1>4, <1>5, <1>6 DEF Recent, Issued
  <1>8. Live(purpose)' = {NextCode}
    <2>1. NextCode \in Live(purpose)'
      BY <1>4 DEF Live, Unused, Issued
    <2>2. ASSUME NEW c \in Code \ {NextCode}, c \in Live(purpose)' PROVE FALSE
      <3>1. codes[c].purpose = purpose /\ ~codes[c].used /\ c \notin old
        BY <1>5, <2>2 DEF Live, Unused, Issued
      <3> QED
        BY <3>1 DEF Unused, Issued
    <2> QED
      BY <2>1, <2>2 DEF Live, Unused, Issued
  <1>9. \A p \in Purpose \ {purpose} : Live(p)' \subseteq Live(p)
    BY <1>2, <1>4, <1>5, <1>6 DEF Live, Unused, Issued
  <1> QED
    BY <1>6, <1>7, <1>8, <1>9

-----------------------------------------------------------------------------
(* A commit ends a request; the plans of the others stay sound.            *)

LEMMA SoundKept ==
  ASSUME AnyIssued \subseteq AnyIssued',
         1..secrets \subseteq 1..secrets',
         user # None /\ user.verified => user' # None /\ user'.verified
  PROVE  \A p : Sound(p) => Sound(p)'
  BY DEF Sound

LEMMA PlansKept ==
  ASSUME IInv, NEW r \in Request, Ends(r),
         \A p : Sound(p) => Sound(p)'
  PROVE  PlanInv' /\ DOMAIN plan' = Request
  <1>1. DOMAIN plan' = Request
    BY DEF Ends, Over, IInv, TypeInv
  <1> QED
    BY <1>1, EndsAlone DEF IInv, PlanInv

(* Without overlap, a request about codes was the only one, and the        *)
(* enrolment of the others is not touched.                                 *)
LEMMA CodesEnd ==
  ASSUME IInv, NEW r \in Request, Ends(r), Plan(r, "codes"),
         user # None => user'.secret = user.secret
  PROVE  CodesInv' /\ EnrolInv'
  <1>1. "codes" \notin overlap => \A s \in Request : ~Plan(s, "codes")'
    BY EndsAlone DEF IInv, CodesInv
  <1>2. CodesInv'
    BY <1>1 DEF CodesInv, Alone, Ends
  <1>3. \A s \in Request : Plan(s, "totp")' => Plan(s, "totp") /\ plan'[s] = plan[s]
    BY EndsAlone DEF IInv, Plan
  <1>4. ASSUME NEW s \in Request, Plan(s, "totp"), SecretKnown(plan[s])
        PROVE  SecretKnown(plan[s])'  \/ plan'[s] # plan[s]
    BY <1>4 DEF IInv, PlanInv, Plan, Sound, SecretKnown
  <1>5. EnrolInv'
    BY <1>3, <1>4, EndsAlone DEF IInv, EnrolInv, Ends, SecretKnown
  <1> QED
    BY <1>2, <1>5

LEMMA NewUserType == NewUser \in User /\ ~NewUser.verified /\ ~NewUser.enabled
  BY DEF NewUser, User

LEMMA OneMore ==
  ASSUME NEW S, NEW x, IsFiniteSet(S), Cardinality(S) < Limit
  PROVE  Cardinality(S \cup {x}) <= Limit
  <1>1. Cardinality(S) \in Nat
    BY FS_CardinalityType
  <1>2. CASE x \in S
    <2>1. S \cup {x} = S
      BY <1>2
    <2> QED
      BY <1>1, <2>1, LimitAssumption
  <1>3. CASE x \notin S
    <2>1. Cardinality(S \cup {x}) = Cardinality(S) + 1
      BY <1>3, FS_AddElement
    <2> QED
      BY <1>1, <2>1, LimitAssumption
  <1> QED
    BY <1>2, <1>3

LEMMA LimitKept ==
  ASSUME TypeInv, NEW purpose \in Purpose, ~Refused(purpose),
         Recent(purpose)' = Recent(purpose) \cup {NextCode}
  PROVE  Cardinality(Recent(purpose)') <= Limit
  <1>1. IsFiniteSet(Recent(purpose)) /\ Cardinality(Recent(purpose)) \in Nat
    BY CodesInOrder, FS_Subset, FS_CardinalityType DEF Recent, Issued
  <1>2. Cardinality(Recent(purpose)) < Limit
    BY <1>1, LimitAssumption DEF Refused
  <1> QED
    BY <1>1, <1>2, OneMore

LEMMA IssueKeeps ==
  ASSUME IInv, NEW r \in Request, Ends(r), Plan(r, "codes"),
         NEW purpose \in Purpose, NEW old,
         NextCode \in Code, codes' = Stored(purpose, old),
         "codes" \notin overlap =>
            Unused(purpose) \subseteq old /\ (purpose # "login" => ~Refused(purpose)),
         user' = user \/ (user = None /\ user' = NewUser),
         UNCHANGED <<totp, app, secrets, accepted, proved, rerun>>
  PROVE  IInv'
  <1> USE DEF IInv
  <1>1. AnyIssued \subseteq AnyIssued' /\ IssueInv'
    BY StoredType
  <1>2. user # None => user' = user
    OBVIOUS
  <1>3. PlanInv' /\ DOMAIN plan' = Request
    BY <1>1, <1>2, SoundKept, PlansKept
  <1>4. CodesInv' /\ EnrolInv'
    BY <1>2, CodesEnd
  <1>5. NextCode \notin AnyIssued
    BY NextIsNew
  <1>6. \A c \in Code : accepted[c] > 0 => codes'[c].used
    <2>1. \A c \in Code : accepted[c] > 0 => codes[c].used /\ c \in AnyIssued
      BY DEF TypeInv, TypeOK
    <2> QED
      BY <1>5, <2>1, StoredType
  <1>7. TypeOK'
    BY <1>6, StoredType, NewUserType DEF TypeInv, TypeOK, CodeRow
  <1>8. TypeInv'
    BY <1>1, <1>3, <1>7, StoredType DEF TypeInv
  <1>9. CodesInTurn'
    <2> SUFFICES ASSUME "codes" \notin overlap PROVE CodesInTurn'
      BY DEF CodesInTurn, Ends
    <2>1. \A c \in Code : accepted'[c] <= 1
      BY DEF CodesInTurn
    <2>2. \A p \in Purpose : \A c \in Live(p)' : \A d \in Issued(p)' : d <= c
      <3>1. \A d \in Issued(purpose)' : d <= NextCode
        <4>1. Issued(purpose) \subseteq AnyIssued /\ AnyIssued \subseteq Nat
          BY NoneAssumption, Numbers DEF Issued, AnyIssued
        <4>2. \A d \in AnyIssued \cup {NextCode} : d <= NextCode
          BY <4>1, NextIsNew
        <4>3. Issued(purpose)' = Issued(purpose) \cup {NextCode}
          BY StoredCodes
        <4> QED
          BY <4>1, <4>2, <4>3
      <3> QED
        BY <3>1, StoredCodes DEF CodesInTurn
    <2>3. ASSUME NEW p \in {"verify_email", "reset_password"}
          PROVE  Cardinality(Recent(p)') <= Limit
      <3>1. CASE p = purpose
        BY <3>1, StoredCodes, LimitKept DEF Purpose
      <3>2. CASE p # purpose
        BY <3>2, StoredCodes DEF CodesInTurn, Purpose
      <3> QED
        BY <3>1, <3>2
    <2> QED
      BY <2>1, <2>2, <2>3 DEF CodesInTurn
  <1>10. EnabledWasConfirmed'
    BY NewUserType DEF EnabledWasConfirmed, Ends
  <1> QED
    BY <1>1, <1>3, <1>4, <1>8, <1>9, <1>10

LEMMA SignupOfNothingKeeps ==
  ASSUME IInv, NEW r \in Request, Ends(r), Plan(r, "codes"),
         user' = user \/ (user = None /\ user' = NewUser),
         UNCHANGED <<codes, totp, app, secrets, accepted, proved, rerun>>
  PROVE  IInv'
  <1> USE DEF IInv
  <1>1. AnyIssued' = AnyIssued /\ IssueInv'
    BY DEF AnyIssued, IssueInv
  <1>2. PlanInv' /\ DOMAIN plan' = Request
    BY <1>1, SoundKept, PlansKept
  <1>3. CodesInv' /\ EnrolInv'
    BY CodesEnd
  <1>4. TypeInv'
    BY <1>1, <1>2, NewUserType DEF TypeInv, TypeOK
  <1>5. CodesInTurn' /\ EnabledWasConfirmed'
    BY NewUserType DEF CodesInTurn, EnabledWasConfirmed, Ends, Live, Unused, Issued, Recent
  <1> QED
    BY <1>1, <1>2, <1>3, <1>4, <1>5

LEMMA UseKeeps ==
  ASSUME IInv, NEW r \in Request, CommitUse(r)
  PROVE  IInv'
  <1> USE DEF IInv
  <1> DEFINE c == plan[r].of
             base == IF user = None THEN NewUser ELSE user
  <1>1. plan[r] # None /\ plan[r].what = "use" /\ Ends(r)
    BY DEF CommitUse, Commits, Ends
  <1>2. Plan(r, "codes")
    BY <1>1 DEF Plan, Group
  <1>3. c \in AnyIssued /\ c \in Code
    BY <1>1 DEF PlanInv, Sound, AnyIssued
  <1>4. /\ codes' = [codes EXCEPT ![c].used = TRUE]
        /\ user' = [base EXCEPT !.verified = TRUE]
        /\ accepted' = [accepted EXCEPT ![c] = @ + 1]
        /\ UNCHANGED <<totp, app, secrets, proved, rerun, overlap>>
    BY DEF CommitUse
  <1>5. base \in User
    BY NewUserType DEF TypeInv, TypeOK
  <1>6. user' \in User /\ user'.verified /\ user'.secret = base.secret /\ user'.enabled = base.enabled
    BY <1>4, <1>5 DEF User
  <1>7. \A d \in Code :
          /\ codes'[d].purpose = codes[d].purpose /\ codes'[d].expired = codes[d].expired
          /\ codes'[d].recent = codes[d].recent
          /\ codes'[d].used <=> codes[d].used \/ d = c
    BY <1>3, <1>4 DEF TypeInv, CodeRow
  <1>8. codes' \in [Code -> CodeRow]
    BY <1>3, <1>4 DEF TypeInv, CodeRow
  <1>9. AnyIssued' = AnyIssued /\ IssueInv'
    BY <1>7 DEF AnyIssued, IssueInv
  <1>10. PlanInv' /\ DOMAIN plan' = Request
    BY <1>1, <1>4, <1>6, <1>9, SoundKept, PlansKept, NoneAssumption
  <1>11. CodesInv' /\ EnrolInv'
    BY <1>1, <1>2, <1>6, CodesEnd
  <1>12. TypeOK'
    BY <1>3, <1>4, <1>6, <1>7, <1>8 DEF TypeInv, TypeOK, CodeRow
  <1>13. TypeInv'
    BY <1>3, <1>4, <1>8, <1>9, <1>10, <1>12 DEF TypeInv
  <1>14. CodesInTurn'
    <2> SUFFICES ASSUME "codes" \notin overlap PROVE CodesInTurn'
      BY <1>4 DEF CodesInTurn
    <2>1. ~codes[c].used /\ accepted[c] = 0
      BY <1>1, <1>2, <1>3 DEF CodesInv, CodesKnown, TypeInv, TypeOK
    <2>2. \A d \in Code : accepted'[d] <= 1
      BY <1>3, <1>4, <2>1 DEF CodesInTurn, TypeInv
    <2>3. \A p : Issued(p)' = Issued(p) /\ Recent(p)' = Recent(p) /\ Live(p)' \subseteq Live(p)
      BY <1>7 DEF Issued, Recent, Live, Unused
    <2> QED
      BY <2>2, <2>3 DEF CodesInTurn
  <1>15. EnabledWasConfirmed'
    BY <1>4, <1>6, NewUserType DEF EnabledWasConfirmed
  <1> QED
    BY <1>9, <1>10, <1>11, <1>13, <1>14, <1>15

LEMMA CodeCommitKeeps ==
  ASSUME IInv, NEW r \in Request,
         CommitSignup(r) \/ CommitCode(r) \/ CommitUse(r)
  PROVE  IInv'
  <1>1. CASE CommitSignup(r)
    <2>1. /\ Ends(r) /\ Plan(r, "codes") /\ Sound(plan[r])
          /\ plan[r].what \in {"create", "create+issue"}
      BY <1>1 DEF CommitSignup, Commits, Ends, Plan, Group, IInv, PlanInv
    <2>2. CASE user # None \/ plan[r].what = "create"
      BY <1>1, <2>1, <2>2, SignupOfNothingKeeps DEF CommitSignup
    <2>3. CASE user = None /\ plan[r].what = "create+issue"
      <3>1. plan[r].purpose \in Purpose
        BY <2>1 DEF Sound
      <3>2. "codes" \notin overlap => CodesKnown(plan[r])
        BY <2>1 DEF IInv, CodesInv
      <3>3. "codes" \notin overlap =>
               /\ Unused(plan[r].purpose) \subseteq plan[r].old
               /\ plan[r].purpose # "login" => ~Refused(plan[r].purpose)
        BY <2>3, <3>2 DEF CodesKnown
      <3>4. /\ NextCode \in Code /\ codes' = Stored(plan[r].purpose, plan[r].old)
            /\ user' = NewUser
            /\ UNCHANGED <<totp, app, secrets, accepted, proved, rerun>>
        BY <1>1, <2>3 DEF CommitSignup
      <3> QED
        BY <2>1, <2>3, <3>1, <3>3, <3>4, IssueKeeps
    <2> QED
      BY <2>1, <2>2, <2>3
  <1>2. CASE CommitCode(r)
    <2>1. /\ Ends(r) /\ Plan(r, "codes") /\ Sound(plan[r])
          /\ plan[r].what = "issue"
      BY <1>2 DEF CommitCode, Commits, Ends, Plan, Group, IInv, PlanInv
    <2>2. plan[r].purpose \in Purpose
      BY <2>1 DEF Sound
    <2>3. "codes" \notin overlap => CodesKnown(plan[r])
      BY <2>1 DEF IInv, CodesInv
    <2>4. "codes" \notin overlap =>
             /\ Unused(plan[r].purpose) \subseteq plan[r].old
             /\ plan[r].purpose # "login" => ~Refused(plan[r].purpose)
      BY <2>1, <2>3 DEF CodesKnown
    <2>5. /\ NextCode \in Code /\ codes' = Stored(plan[r].purpose, plan[r].old)
          /\ UNCHANGED <<user, totp, app, secrets, accepted, proved, rerun>>
      BY <1>2 DEF CommitCode
    <2> QED
      BY <2>1, <2>2, <2>4, <2>5, IssueKeeps
  <1>3. CASE CommitUse(r)
    BY <1>3, UseKeeps
  <1> QED
    BY <1>1, <1>2, <1>3

-----------------------------------------------------------------------------
(* The enrolment leaves the codes alone.                                   *)

CodesStay == UNCHANGED <<codes, accepted>> /\ ("codes" \in overlap' <=> "codes" \in overlap)
LEMMA CodesStayKeeps ==
  ASSUME IInv, CodesStay,
         \A s \in Request : Plan(s, "codes")' => Plan(s, "codes") /\ plan'[s] = plan[s]
  PROVE  IssueInv' /\ AnyIssued' = AnyIssued /\ CodesInv' /\ CodesInTurn'
  <1> USE DEF IInv, CodesStay
  <1>1. IssueInv' /\ AnyIssued' = AnyIssued
    BY DEF IssueInv, AnyIssued
  <1>2. \A p : CodesKnown(p) => CodesKnown(p)'
    BY DEF CodesKnown, Unused, Issued, Refused, Recent
  <1>3. CodesInv'
    BY <1>2 DEF CodesInv, Alone
  <1>4. CodesInTurn'
    BY DEF CodesInTurn, Live, Unused, Issued, Recent
  <1> QED
    BY <1>1, <1>3, <1>4

LEMMA EnrolCommitKeeps ==
  ASSUME IInv, NEW r \in Request, CommitConfirm(r) \/ CommitDisable(r)
  PROVE  IInv'
  <1> USE DEF IInv
  <1>1. /\ Ends(r) /\ Plan(r, "totp") /\ Sound(plan[r])
        /\ UNCHANGED <<codes, accepted, overlap, app, secrets, rerun>>
        /\ user # None /\ user.verified /\ user \in User
    BY DEF CommitConfirm, CommitDisable, Commits, Ends, Plan, Group, PlanInv, Sound, TypeInv, TypeOK
  <1>2. user' \in User /\ user'.verified /\ user' # None
    BY <1>1, NoneAssumption DEF CommitConfirm, CommitDisable, User
  <1>3. IssueInv' /\ AnyIssued' = AnyIssued /\ CodesInv' /\ CodesInTurn'
    BY <1>1, CodesStayKeeps, EndsAlone DEF CodesStay, Plan
  <1>4. PlanInv' /\ DOMAIN plan' = Request
    BY <1>1, <1>2, <1>3, SoundKept, PlansKept
  <1>5. proved' \subseteq 1..secrets /\ totp' \in BOOLEAN
    BY <1>1 DEF CommitConfirm, CommitDisable, Commits, Sound, TypeInv, TypeOK
  <1>6. TypeInv'
    BY <1>1, <1>2, <1>3, <1>4, <1>5 DEF TypeInv, TypeOK
  <1>7. "totp" \notin overlap => \A s \in Request : ~Plan(s, "totp")'
    BY <1>1, EndsAlone DEF EnrolInv
  <1>8. EnrolInv'
    BY <1>1, <1>7 DEF EnrolInv, Alone
  <1>9. EnabledWasConfirmed'
    <2>1. CASE CommitDisable(r)
      BY <1>1, <2>1 DEF CommitDisable, EnabledWasConfirmed, User
    <2>2. CASE CommitConfirm(r)
      <3>1. "totp" \notin overlap => user.secret = plan[r].of
        BY <1>1, <2>2 DEF EnrolInv, SecretKnown, CommitConfirm, Commits
      <3>2. user'.secret = user.secret /\ plan[r].of \in proved'
        BY <1>1, <2>2 DEF CommitConfirm, User
      <3> QED
        BY <1>1, <3>1, <3>2 DEF EnabledWasConfirmed
    <2> QED
      BY <2>1, <2>2
  <1> QED
    BY <1>3, <1>4, <1>6, <1>8, <1>9

(* A setup over an enabled enrolment is remembered, one beside a           *)
(* confirmation is an overlap.                                             *)
LEMMA SetupKeeps ==
  ASSUME IInv, NEW scanned \in BOOLEAN, Setup(scanned)
  PROVE  IInv'
  <1> USE DEF IInv
  <1>1. /\ user # None /\ user.verified /\ user \in User
        /\ secrets \in Nat /\ secrets' = secrets + 1 /\ secrets + 1 \in Secret
        /\ user' = [user EXCEPT !.secret = secrets + 1]
        /\ UNCHANGED <<codes, plan, totp, accepted, proved>>
        /\ app' = IF scanned THEN secrets + 1 ELSE app
        /\ rerun' = IF user.enabled THEN rerun \cup {secrets + 1} ELSE rerun
    BY DEF Setup, Verified, HasToken, TypeInv, TypeOK
  <1>2. overlap' = IF \E s \in Request : Plan(s, "totp") THEN overlap \cup {"totp"} ELSE overlap
    BY DEF Setup, Plan
  <1>3. user' \in User /\ user'.verified /\ user' # None
        /\ user'.enabled = user.enabled /\ user'.secret = secrets + 1
    BY <1>1, NoneAssumption DEF User
  <1>4. \A g : Alone(g)' <=> Alone(g)
    BY <1>1 DEF Alone, Plan
  <1>5. IssueInv' /\ AnyIssued' = AnyIssued /\ CodesInv' /\ CodesInTurn'
    BY <1>1, <1>2, CodesStayKeeps DEF CodesStay, Plan
  <1>6. 1..secrets \subseteq 1..secrets' /\ secrets' \in 1..secrets'
    BY <1>1
  <1>7. \A p : Sound(p) => Sound(p)'
    BY <1>3, <1>5, <1>6, SoundKept
  <1>8. PlanInv'
    BY <1>1, <1>7 DEF PlanInv
  <1>9. TypeInv'
    BY <1>1, <1>3, <1>5, <1>6 DEF TypeInv, TypeOK
  <1>10. "totp" \notin overlap' => "totp" \notin overlap /\ \A s \in Request : ~Plan(s, "totp")
    BY <1>2
  <1>11. EnrolInv'
    BY <1>1, <1>4, <1>10 DEF EnrolInv, Plan
  <1>12. EnabledWasConfirmed'
    BY <1>1, <1>3 DEF EnabledWasConfirmed
  <1> QED
    BY <1>5, <1>8, <1>9, <1>11, <1>12

-----------------------------------------------------------------------------
(* Time and tokens.                                                        *)

LEMMA TokenKeeps ==
  ASSUME IInv, totp' \in BOOLEAN,
         UNCHANGED <<user, codes, plan, app, secrets, accepted, proved, rerun, overlap>>
  PROVE  IInv'
  <1> USE DEF IInv
  <1>1. IssueInv' /\ AnyIssued' = AnyIssued /\ CodesInv' /\ CodesInTurn'
    BY CodesStayKeeps DEF CodesStay, Plan
  <1>2. TypeInv'
    BY <1>1 DEF TypeInv, TypeOK
  <1>3. PlanInv'
    BY <1>1 DEF PlanInv, Sound
  <1>4. EnrolInv' /\ EnabledWasConfirmed'
    BY DEF EnrolInv, Alone, Plan, SecretKnown, EnabledWasConfirmed
  <1> QED
    BY <1>1, <1>2, <1>3, <1>4

(* Codes grow old: none becomes live, unused or recent again.              *)
LEMMA AgesKeeps ==
  ASSUME IInv,
         codes' \in [Code -> CodeRow],
         \A c \in Code :
            /\ codes'[c].purpose = codes[c].purpose
            /\ codes[c].purpose # None =>
                 /\ codes'[c].used <=> codes[c].used
                 /\ codes[c].expired => codes'[c].expired
                 /\ codes'[c].recent => codes[c].recent
                 /\ codes'[c].recent \/ codes'[c].expired \/ codes'[c].used,
         UNCHANGED <<user, plan, totp, app, secrets, accepted, proved, rerun, overlap>>
  PROVE  IInv'
  <1> USE DEF IInv
  <1>1. AnyIssued' = AnyIssued /\ IssueInv'
    BY DEF AnyIssued, IssueInv
  <1>2. TypeOK'
    <2>1. \A c \in Code : accepted[c] > 0 => codes'[c].used
      BY DEF TypeInv, TypeOK, AnyIssued
    <2>2. \A c \in Code : codes'[c].purpose # None =>
            /\ c = 1 \/ codes'[c - 1].purpose # None
            /\ codes'[c].recent \/ codes'[c].expired \/ codes'[c].used
      <3>1. \A c \in AnyIssued : c = 1 \/ c - 1 \in AnyIssued
        <4>1. Cardinality(AnyIssued) \in Nat
          BY CodesInOrder, FS_Subset, FS_CardinalityType DEF AnyIssued
        <4> QED
          BY <4>1 DEF IssueInv
      <3> QED
        BY <3>1 DEF AnyIssued
    <2>3. \A c \in Code : codes'[c].purpose \in {None} \cup Purpose
      BY DEF CodeRow
    <2> QED
      BY <2>1, <2>2, <2>3 DEF TypeInv, TypeOK
  <1>3. TypeInv'
    BY <1>1, <1>2 DEF TypeInv
  <1>4. PlanInv'
    BY <1>1 DEF PlanInv, Sound
  <1>5. \A p \in Purpose : /\ Issued(p)' = Issued(p) /\ Unused(p)' = Unused(p)
                          /\ Live(p)' \subseteq Live(p) /\ Recent(p)' \subseteq Recent(p)
    BY NoneAssumption DEF Issued, Unused, Live, Recent
  <1>6. \A p \in Purpose : /\ Cardinality(Recent(p)) \in Nat /\ Cardinality(Recent(p)') \in Nat
                          /\ Cardinality(Recent(p)') <= Cardinality(Recent(p))
    <2> TAKE p \in Purpose
    <2>1. IsFiniteSet(Recent(p)) /\ Cardinality(Recent(p)) \in Nat
      BY CodesInOrder, FS_Subset, FS_CardinalityType DEF Recent, Issued
    <2>2. IsFiniteSet(Recent(p)')
      BY <1>5, <2>1, FS_Subset
    <2> QED
      BY <1>5, <2>1, <2>2, FS_Subset, FS_CardinalityType
  <1>7. ASSUME NEW p \in Purpose, ~Refused(p) PROVE ~Refused(p)'
    <2>1. Cardinality(Recent(p)) < Limit
      BY <1>6, <1>7, LimitAssumption DEF Refused
    <2> QED
      BY <1>6, <2>1, LimitAssumption DEF Refused
  <1>8. \A q : Sound(q) /\ CodesKnown(q) => CodesKnown(q)'
    BY <1>5, <1>7 DEF Sound, CodesKnown, AnyIssued
  <1>9. CodesInv'
    BY <1>8 DEF CodesInv, PlanInv, Alone, Plan
  <1>10. CodesInTurn'
    <2>1. "codes" \notin overlap => \A p \in {"verify_email", "reset_password"} :
             Cardinality(Recent(p)') <= Limit
      BY <1>6, LimitAssumption DEF CodesInTurn, Purpose
    <2> QED
      BY <1>5, <2>1 DEF CodesInTurn
  <1>11. EnrolInv' /\ EnabledWasConfirmed'
    BY DEF EnrolInv, Alone, Plan, SecretKnown, EnabledWasConfirmed
  <1> QED
    BY <1>1, <1>3, <1>4, <1>9, <1>10, <1>11

LEMMA TimeKeeps ==
  ASSUME IInv, \E c \in Code : HourPasses(c) \/ CodeExpires(c)
  PROVE  IInv'
  <1>1. ASSUME NEW h \in Code, HourPasses(h) PROVE IInv'
    <2>1. codes' \in [Code -> CodeRow]
      BY <1>1 DEF HourPasses, Ages, NoCode, CodeRow, IInv, TypeInv
    <2>2. \A c \in Code : codes[c] \in CodeRow
      BY DEF IInv, TypeInv
    <2>3. \A c \in Code : \/ codes'[c] = codes[c]
                           \/ codes'[c] = [codes[c] EXCEPT !.expired = TRUE, !.recent = FALSE]
      BY <1>1 DEF HourPasses, Ages
    <2>4. \A c \in Code : codes[c].purpose # None =>
            codes[c].recent \/ codes[c].expired \/ codes[c].used
      BY DEF IInv, TypeInv, TypeOK
    <2>5. ASSUME NEW c \in Code
          PROVE  /\ codes'[c].purpose = codes[c].purpose /\ codes'[c].used = codes[c].used
                 /\ codes[c].expired => codes'[c].expired
                 /\ codes'[c].recent => codes[c].recent
                 /\ codes[c].purpose # None => codes'[c].recent \/ codes'[c].expired \/ codes'[c].used
      <3>1. CASE codes'[c] = codes[c]
        BY <2>4, <3>1
      <3>2. CASE codes'[c] = [codes[c] EXCEPT !.expired = TRUE, !.recent = FALSE]
        BY <2>2, <3>2 DEF CodeRow
      <3> QED
        BY <2>3, <3>1, <3>2
    <2>6. UNCHANGED <<user, plan, totp, app, secrets, accepted, proved, rerun, overlap>>
      BY <1>1 DEF HourPasses, Ages
    <2> QED
      BY <2>1, <2>5, <2>6, AgesKeeps
  <1>2. ASSUME NEW c \in Code, CodeExpires(c) PROVE IInv'
    <2>1. /\ codes' = [codes EXCEPT ![c].expired = TRUE]
          /\ UNCHANGED <<user, plan, totp, app, secrets, accepted, proved, rerun, overlap>>
      BY <1>2 DEF CodeExpires, Ages
    <2>2. codes \in [Code -> CodeRow]
      BY DEF IInv, TypeInv
    <2>3. \A d \in Code : codes'[d] = IF d = c THEN [codes[c] EXCEPT !.expired = TRUE] ELSE codes[d]
      BY <2>1, <2>2
    <2>4. [codes[c] EXCEPT !.expired = TRUE] \in CodeRow
      BY <2>2 DEF CodeRow
    <2>5. codes' \in [Code -> CodeRow]
      BY <2>1, <2>2, <2>4
    <2>6. \A d \in Code :
            /\ codes'[d].purpose = codes[d].purpose
            /\ codes'[d].used = codes[d].used /\ codes'[d].recent = codes[d].recent
            /\ codes[d].expired => codes'[d].expired
      BY <2>2, <2>3 DEF CodeRow
    <2>7. \A d \in Code : codes[d].purpose # None =>
            codes[d].recent \/ codes[d].expired \/ codes[d].used
      BY DEF IInv, TypeInv, TypeOK
    <2> QED
      BY <2>1, <2>5, <2>6, <2>7, AgesKeeps
  <1> QED
    BY <1>1, <1>2

-----------------------------------------------------------------------------
(* The theorems.                                                           *)

LEMMA InitHolds == Init => IInv
  <1> SUFFICES ASSUME Init PROVE IInv
    OBVIOUS
  <1> USE DEF Init
  <1>1. AnyIssued = {} /\ IssueInv
    <2>1. AnyIssued = {}
      BY DEF AnyIssued, NoCode
    <2> QED
      BY <2>1, FS_EmptySet DEF IssueInv
  <1>2. TypeInv
    <2>1. codes \in [Code -> CodeRow] /\ \A c \in Code : codes[c].purpose = None
      BY DEF NoCode, CodeRow
    <2>2. DOMAIN accepted = Code /\ \A c \in Code : ~(accepted[c] > 0)
      OBVIOUS
    <2>3. user \in {None} \cup User /\ app \in {None} \cup 1..secrets /\ proved \subseteq 1..secrets
      OBVIOUS
    <2>4. user # None /\ ~user.verified => user = NewUser
      OBVIOUS
    <2>5. TypeOK
      BY <2>1, <2>2, <2>3, <2>4 DEF TypeOK
    <2> QED
      BY <2>1, <2>2, <2>5 DEF TypeInv
  <1>3. PlanInv /\ CodesInv /\ EnrolInv /\ EnabledWasConfirmed
    BY DEF PlanInv, CodesInv, EnrolInv, EnabledWasConfirmed, Alone, Plan
  <1>4. \A p \in Purpose : Issued(p) = {} /\ Recent(p) = {} /\ Live(p) = {}
    BY NoneAssumption DEF Issued, Recent, Live, Unused, NoCode
  <1>5. CodesInTurn
    BY <1>4, FS_EmptySet, LimitAssumption DEF CodesInTurn, Purpose
  <1> QED
    BY <1>1, <1>2, <1>3, <1>5 DEF IInv

LEMMA StepKeeps == IInv /\ [AnyStep]_vars => IInv'
  <1> SUFFICES ASSUME IInv, [AnyStep]_vars PROVE IInv'
    OBVIOUS
  <1>1. ASSUME NEW r \in Request, Reads(r) PROVE IInv'
    BY <1>1, ReadKeeps
  <1>2. ASSUME NEW r \in Request, CodeStep(r) PROVE IInv'
    BY <1>1, <1>2, CodeCommitKeeps DEF CodeStep, Reads
  <1>3. ASSUME NEW r \in Request, TotpStep(r) PROVE IInv'
    <2>1. CASE Validate \/ TokenExpires
      BY <2>1, TokenKeeps DEF Validate, TokenExpires, Holds
    <2> QED
      BY <1>1, <1>3, <2>1, EnrolCommitKeeps, SetupKeeps DEF TotpStep, Reads
  <1>4. CASE \E c \in Code : HourPasses(c) \/ CodeExpires(c)
    BY <1>4, TimeKeeps
  <1>5. CASE UNCHANGED vars
    BY <1>5, TokenKeeps DEF vars, IInv, TypeInv, TypeOK
  <1> QED
    BY <1>2, <1>3, <1>4, <1>5 DEF AnyStep

(* The inductive invariant, whatever the order of requests.                *)
THEOREM InductiveCorrect == Whole => []IInv
  BY InitHolds, StepKeeps, PTL DEF Whole

(* The order of codes and enrolment in Spec only leaves out behaviours.    *)
THEOREM BoundLeavesOut == Spec => Whole
  <1>1. [Next]_vars => [AnyStep]_vars
    BY DEF Next, AnyStep
  <1> QED
    BY <1>1, PTL DEF Spec, Whole

(* Types of an account's row, codes and enrolment.                         *)
THEOREM TypeCorrect == Whole => []TypeOK
  <1>1. IInv => TypeOK
    BY DEF IInv, TypeInv
  <1> QED
    BY <1>1, InductiveCorrect, PTL

(* Requests for codes that come one at a time use a code once, leave one   *)
(* live code of a purpose and keep the hourly limit (auth/otp.py).         *)
THEOREM CodesInTurnCorrect == Whole => []CodesInTurn
  <1>1. IInv => CodesInTurn
    BY DEF IInv
  <1> QED
    BY <1>1, InductiveCorrect, PTL

(* An enabled enrolment was confirmed with its own secret, unless setup    *)
(* ran over it or requests overlapped (auth/totp_router.py).               *)
THEOREM EnabledWasConfirmedCorrect == Whole => []EnabledWasConfirmed
  <1>1. IInv => EnabledWasConfirmed
    BY DEF IInv
  <1> QED
    BY <1>1, InductiveCorrect, PTL
=============================================================================
