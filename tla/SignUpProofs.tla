----------------------------- MODULE SignUpProofs -----------------------------
(***************************************************************************)
(* Theorems about SignUp for any emails, phones, attempts and requests,    *)
(* with or without faults.  IInv is the inductive invariant: an attempt    *)
(* owns its email once it has created the account (AttemptState), only a   *)
(* finished attempt has an OTP page and requests of its own (RequestState, *)
(* PageState), and a code that proves a phone was texted to it.            *)
(***************************************************************************)
EXTENDS SignUp, TLAPS

(* The backend has texted a code for this request. *)
Texted(r) == request[r].pc \notin {"none", "sending", "failed"}

(* What a call of signUpWithEmailAndPassword has done so far. *)
Attempted(a) ==
    LET pc == signUp[a].pc  email == signUp[a].email  left == signUp[a].page = "left" IN
    /\ pc # "none" => email \in Emails
    /\ left => pc \in {"create", "created", "save"}
    /\ pc \in {"created", "save", "success", "over"} => email \in accounts
    /\ pc = "save" \/ (pc \in {"create", "created"} /\ left) => signUp[a].form # None
    /\ pc \in {"success", "over"} => profile[email] # None
    /\ otpPage[a].phone # None => pc = "over"

AttemptState == \A a \in Attempts : Attempted(a)

(* A request comes from an OTP page that is open. *)
RequestState ==
    \A r \in Requests : request[r].pc # "none" =>
        request[r].page \in Attempts /\ otpPage[request[r].page].phone # None

(* A verificationId came with a text message of this page, and so does a *)
(* code that proves the phone. *)
PageState ==
    /\ \A a \in Attempts :
        LET r == otpPage[a].verificationId IN
        r # None => request[r].page = a /\ Texted(r)
    /\ \A v \in verify :
        v.proven => \E r \in Requests : request[r].page = v.page /\ Texted(r)

IInv ==
    /\ TypeOK
    /\ AttemptState
    /\ RequestState
    /\ PageState
    /\ OneWriterPerAccount
    /\ LinkedIsTexted

------------------------------------------------------------------------------
(* Nothing was typed, created, requested or linked yet. *)
LEMMA InitInv == Init => IInv
  BY NamesAssumption
     DEF Init, IInv, TypeOK, Users, SignUps, SignUpPcs, NoSignUp, OTPPages, PhoneRequests, Verifies,
         Fields, AttemptState, Attempted, RequestState, PageState, OneWriterPerAccount, LinkedIsTexted

(* A call that goes on is still a call of signUpWithEmailAndPassword.       *)
LEMMA SignUpRecord ==
  ASSUME NEW v \in SignUps, NEW pc \in SignUpPcs, NEW email \in Emails \cup {None},
         NEW page \in {"open", "left"}, NEW form \in Fields \cup {None}, NEW by \in Users
  PROVE  /\ [v EXCEPT !.pc = pc] \in SignUps
         /\ [v EXCEPT !.page = page] \in SignUps
         /\ [v EXCEPT !.pc = pc, !.email = email] \in SignUps
         /\ [v EXCEPT !.page = page, !.form = form] \in SignUps
         /\ [v EXCEPT !.pc = pc, !.by = by, !.form = form] \in SignUps
         /\ [v EXCEPT !.pc = pc, !.page = page, !.form = form, !.by = by] \in SignUps
<1>1. [v EXCEPT !.pc = pc] \in SignUps
  BY ZenonT(40) DEF SignUps
<1>2. [v EXCEPT !.page = page] \in SignUps
  BY ZenonT(40) DEF SignUps
<1>3. [v EXCEPT !.pc = pc, !.email = email] \in SignUps
  BY ZenonT(40) DEF SignUps
<1>4. [v EXCEPT !.page = page, !.form = form] \in SignUps
  BY ZenonT(40) DEF SignUps
<1>5. [v EXCEPT !.pc = pc, !.by = by, !.form = form] \in SignUps
  BY ZenonT(40) DEF SignUps
<1>6. [v EXCEPT !.pc = pc, !.page = page, !.form = form, !.by = by] \in SignUps
  BY ZenonT(40) DEF SignUps
<1>7. QED
  BY <1>1, <1>2, <1>3, <1>4, <1>5, <1>6

(* Every step keeps every variable in its type: a call that goes on has an  *)
(* email, and a request that is answered has a page with a phone.           *)
LEMMA TypeStep == TypeOK /\ AttemptState /\ RequestState /\ [Next]_vars => TypeOK'
<1> SUFFICES ASSUME TypeOK, AttemptState, RequestState, [Next]_vars PROVE TypeOK'
  OBVIOUS
<1> DEFINE SignUpOK  == signUp \in [Attempts -> SignUps]
           PageOK    == otpPage \in [Attempts -> OTPPages]
           RequestOK == request \in [Requests -> PhoneRequests]
           VerifyOK  == verify \in SUBSET Verifies
<1> USE DEF TypeOK, OTPPages, PhoneRequests, Verifies
<1>0. /\ field \in Fields /\ currentUser \in Users
      /\ {"create", "created", "save", "success", "error", "unseen", "over"} \subseteq SignUpPcs
      /\ Emails \subseteq Users /\ Phones \subseteq Users /\ None \in Users
  BY DEF SignUpPcs, Users
<1>1. CASE Type \/ SignInOrOut
  BY <1>0, <1>1 DEF Type, SignInOrOut
<1>2. ASSUME NEW a \in Attempts, Submit(a) PROVE TypeOK'
  <2>1. signUp' = [signUp EXCEPT ![a] = [@ EXCEPT
              !.pc = IF field.email = AdminEmail THEN "error" ELSE "create", !.email = field.email]]
    BY <1>2 DEF Submit
  <2>2. field.email \in Emails
    BY DEF Fields
  <2>3. SignUpOK'
    <3>1. \A pc \in SignUpPcs :
            [signUp[a] EXCEPT !.pc = pc, !.email = field.email] \in SignUps
      <4>1. signUp[a] \in SignUps /\ field.email \in Emails \cup {None}
        BY <2>2
      <4>2. QED
        BY <4>1, SignUpRecord
    <3>2. PICK pc \in SignUpPcs :
            signUp' = [signUp EXCEPT ![a] = [signUp[a] EXCEPT !.pc = pc, !.email = field.email]]
      BY <1>0, <2>1
    <3>3. QED
      BY <3>1, <3>2
  <2>4. QED
    BY <1>2, <2>3 DEF Submit
<1>l. CASE LeavePage
  <2>1. ASSUME NEW a \in Attempts PROVE signUp'[a] \in SignUps
    BY <1>0, <1>l, SignUpRecord DEF LeavePage
  <2>2. SignUpOK'
    BY <1>l, <2>1 DEF LeavePage
  <2>3. QED
    BY <1>l, <2>2 DEF LeavePage
<1>a. ASSUME NEW a \in Attempts, NEW pc \in SignUpPcs, signUp' = [signUp EXCEPT ![a].pc = pc]
      PROVE  SignUpOK'
  <2>1. signUp' = [signUp EXCEPT ![a] = [signUp[a] EXCEPT !.pc = pc]]
    BY <1>a
  <2>2. QED
    BY <2>1, SignUpRecord
<1>b. ASSUME NEW r \in Requests, NEW a \in Attempts, Send(r, a) PROVE RequestOK'
  BY <1>b DEF Send
<1>e. ASSUME NEW a \in Attempts, NEW dialog \in {"success", "error"}, End(a, dialog)
      PROVE  SignUpOK'
  <2>1. PICK pc \in SignUpPcs : signUp' = [signUp EXCEPT ![a] =
           [signUp[a] EXCEPT !.pc = pc, !.page = "open", !.form = None, !.by = None]]
    BY <1>0, <1>e DEF End
  <2>2. QED
    BY <1>0, <2>1, SignUpRecord
<1>3. ASSUME NEW a \in Attempts, SignUpCall(a) \/ ProfileArrives(a) PROVE TypeOK'
  <2>1. /\ signUp[a].pc # "none" => signUp[a].email \in Emails
        /\ signUp[a].pc = "save" => signUp[a].form \in Fields
    BY DEF AttemptState, Attempted, SignUps
  <2>2. CASE CreateUser(a)
    <3>1. SignUpOK' /\ signUp[a].email \in Emails
      BY <1>0, <1>a, <2>1, <2>2 DEF CreateUser
    <3>2. QED
      BY <1>0, <2>2, <3>1 DEF CreateUser
  <2>3. CASE CreateUserFails(a) \/ SaveProfileFails(a)
    BY <1>e, <2>3 DEF CreateUserFails, SaveProfileFails
  <2>4. CASE SetProfile(a)
    <3>1. SignUpOK'
      <4>1. PICK form \in Fields \cup {None} : signUp' = [signUp EXCEPT ![a] =
               [signUp[a] EXCEPT !.pc = "save", !.by = currentUser, !.form = form]]
        BY <1>0, <2>4 DEF SetProfile, SignUps
      <4>2. [signUp[a] EXCEPT !.pc = "save", !.by = currentUser, !.form = form] \in SignUps
        <5>1. signUp[a] \in SignUps /\ "save" \in SignUpPcs /\ currentUser \in Users
          BY <1>0
        <5>2. QED
          BY <5>1, SignUpRecord
      <4>3. QED
        BY <4>1, <4>2
    <3>2. QED
      BY <2>4, <3>1 DEF SetProfile
  <2>5. CASE SaveProfile(a) \/ ProfileArrives(a)
    <3>1. profile' \in [Emails -> Fields \cup {None}]
      BY <2>1, <2>5 DEF SaveProfile, ProfileArrives, Answerable
    <3>2. SignUpOK'
      BY <1>e, <2>5 DEF SaveProfile, ProfileArrives
    <3>3. QED
      BY <2>5, <3>1, <3>2 DEF SaveProfile, ProfileArrives
  <2>6. QED
    BY <1>3, <2>2, <2>3, <2>4, <2>5 DEF SignUpCall
<1>4. ASSUME NEW a \in Attempts, VerifyOTP(a) PROVE TypeOK'
  <2>1. ASSUME NEW typed PROVE (typed = otpPage[a].verificationId) \in BOOLEAN
    OBVIOUS
  <2>2. PICK proven \in BOOLEAN :
           verify' = verify \cup {[page |-> a, user |-> currentUser, proven |-> proven]}
    BY <1>4, <2>1, Zenon DEF VerifyOTP
  <2>3. [page |-> a, user |-> currentUser, proven |-> proven] \in Verifies
    BY <1>0
  <2>4. QED
    BY <1>4, <2>2, <2>3 DEF VerifyOTP
<1>5. ASSUME NEW v \in verify, LinkWithCredential(v) PROVE TypeOK'
  <2>1. linked' \in [Emails -> Phones \cup {None}]
    BY <1>5 DEF LinkWithCredential, Linkable
  <2>2. QED
    BY <1>5, <2>1 DEF LinkWithCredential
<1>d. ASSUME NEW v \in verify, LinkWithCredentialFails(v) PROVE TypeOK'
  BY <1>d DEF LinkWithCredentialFails
<1>6. ASSUME NEW a \in Attempts, NEW r \in Requests, OpenOTPPage(a, r) \/ ResendOTP(a, r)
      PROVE  TypeOK'
  <2>1. CASE OpenOTPPage(a, r)
    <3>1. ASSUME NEW phone \in Phones, otpPage' = [otpPage EXCEPT ![a].phone = phone]
          PROVE  PageOK'
      BY <3>1, SMTT(30)
    <3>2. PageOK'
      BY <2>1, <3>1 DEF OpenOTPPage, Fields
    <3>3. QED
      BY <1>0, <2>1, <3>2, <1>a, <1>b DEF OpenOTPPage
  <2>2. CASE ResendOTP(a, r)
    BY <2>2, <1>b DEF ResendOTP
  <2>3. QED
    BY <1>6, <2>1, <2>2
<1>7. ASSUME NEW r \in Requests, PhoneAnswer(r) PROVE TypeOK'
  <2>1. PICK pc \in {"sent", "failed", "completed"} : request' = [request EXCEPT ![r].pc = pc]
    BY <1>7 DEF PhoneAnswer
  <2>2. RequestOK'
    BY <2>1, ZenonT(40)
  <2>3. QED
    BY <1>7, <2>2 DEF PhoneAnswer
<1>8. ASSUME NEW r \in Requests, CodeSent(r) PROVE TypeOK'
  BY <1>8, SMTT(30) DEF CodeSent, RequestState
<1>9. ASSUME NEW r \in Requests, VerificationCompleted(r) PROVE TypeOK'
  <2>1. request[r].page \in Attempts /\ otpPage[request[r].page].phone # None
    BY <1>9 DEF VerificationCompleted, RequestState
  <2>2. otpPage[request[r].page].phone \in Phones
    BY <2>1
  <2>3. QED
    BY <1>0, <1>9, <2>2 DEF VerificationCompleted
<1>10. CASE UNCHANGED vars
  BY <1>10 DEF vars
<1>11. QED
  BY <1>1, <1>2, <1>l, <1>3, <1>4, <1>5, <1>d, <1>6, <1>7, <1>8, <1>9, <1>10 DEF Next

(* Only the call that created an account goes on to write its profile: an   *)
(* email in use is refused, and no account is ever removed.                 *)
LEMMA AttemptStep ==
  TypeOK /\ AttemptState /\ OneWriterPerAccount /\ [Next]_vars =>
      AttemptState' /\ OneWriterPerAccount'
<1> SUFFICES ASSUME TypeOK, AttemptState, OneWriterPerAccount, [Next]_vars
             PROVE  AttemptState' /\ OneWriterPerAccount'
  OBVIOUS
<1> USE DEF TypeOK, SignUps, OTPPages, AttemptState, Attempted, OneWriterPerAccount
<1>1. CASE Type \/ SignInOrOut
  BY <1>1 DEF Type, SignInOrOut
<1>2. ASSUME NEW a \in Attempts, Submit(a) PROVE AttemptState' /\ OneWriterPerAccount'
  <2>1. /\ signUp[a].pc = "none" /\ field.email \in Emails
        /\ UNCHANGED <<accounts, profile, otpPage>>
    BY <1>2 DEF Submit, Fields
  <2>2. \A b \in Attempts : b # a => signUp'[b] = signUp[b]
    BY <1>2 DEF Submit
  <2>3. /\ signUp'[a].email = field.email /\ signUp'[a].page = signUp[a].page
        /\ signUp'[a].pc \in {"error", "create"}
    BY <1>2 DEF Submit
  <2>4. signUp'[a].page = "open" /\ otpPage'[a].phone = None
    BY <2>1, <2>3
  <2>5. ASSUME NEW b \in Attempts, b # a
        PROVE  Attempted(b)'
    BY <2>1, <2>2, <2>5
  <2>6. AttemptState'
    <3> SUFFICES ASSUME NEW b \in Attempts
                 PROVE  Attempted(b)'
      OBVIOUS
    <3>1. CASE b = a
      BY <2>1, <2>3, <2>4, <3>1
    <3>2. CASE b # a
      BY <2>5, <3>2
    <3>3. QED
      BY <3>1, <3>2
  <2>7. OneWriterPerAccount'
    BY <2>2, <2>3
  <2>8. QED
    BY <2>6, <2>7
<1>l. CASE LeavePage
  <2>1. ASSUME NEW a \in Attempts
        PROVE  /\ signUp'[a].email = signUp[a].email
               /\ signUp'[a].pc = (IF signUp[a].pc = "success" THEN "over" ELSE signUp[a].pc)
               /\ signUp'[a].form = signUp[a].form \/ signUp'[a].form = field
               /\ signUp'[a].page = signUp[a].page
                  \/ signUp[a].pc \in {"create", "created", "save"}
               /\ (signUp'[a].page # signUp[a].page /\ signUp[a].pc # "save") =>
                     signUp'[a].form = field
    <3>1. \/ signUp'[a] = [signUp[a] EXCEPT !.page = "left", !.form = field]
             /\ signUp[a].pc \in {"create", "created"}
          \/ signUp'[a] = [signUp[a] EXCEPT !.page = "left"] /\ signUp[a].pc = "save"
          \/ signUp'[a] = [signUp[a] EXCEPT !.pc = "over"] /\ signUp[a].pc = "success"
          \/ signUp'[a] = signUp[a] /\ signUp[a].pc # "success"
      BY <1>l DEF LeavePage
    <3>2. signUp[a] \in SignUps
      OBVIOUS
    <3>3. QED
      <4> HIDE DEF AttemptState, Attempted, OneWriterPerAccount, TypeOK
      <4>1. QED
        BY <3>1, <3>2
  <2>2. UNCHANGED <<accounts, profile, otpPage>> /\ field # None
    BY <1>l, NamesAssumption DEF LeavePage, Fields
  <2>3. AttemptState'
    BY <2>1, <2>2
  <2>4. OneWriterPerAccount'
    BY <2>1
  <2>5. QED
    BY <2>3, <2>4
<1>3. ASSUME NEW a \in Attempts, CreateUser(a) PROVE AttemptState' /\ OneWriterPerAccount'
  <2>1. /\ signUp[a].pc = "create" /\ signUp[a].email \notin accounts
        /\ accounts \subseteq accounts' /\ signUp[a].email \in accounts'
        /\ UNCHANGED <<profile, otpPage>>
    BY <1>3 DEF CreateUser
  <2>2. \A b \in Attempts : /\ signUp'[b].email = signUp[b].email
                           /\ signUp'[b].page = signUp[b].page /\ signUp'[b].form = signUp[b].form
                           /\ signUp'[b].pc = IF b = a THEN "created" ELSE signUp[b].pc
    BY <1>3 DEF CreateUser
  <2>3. AttemptState'
    BY <2>1, <2>2
  <2>4. OneWriterPerAccount'
    BY <2>1, <2>2
  <2>5. QED
    BY <2>3, <2>4
<1>s. ASSUME NEW a \in Attempts, SetProfile(a) PROVE AttemptState' /\ OneWriterPerAccount'
  <2>1. /\ signUp[a].pc = "created" /\ field # None
        /\ UNCHANGED <<accounts, profile, otpPage>>
    BY <1>s, NamesAssumption DEF SetProfile, Fields
  <2>2. \A b \in Attempts : /\ signUp'[b].email = signUp[b].email
                           /\ signUp'[b].page = signUp[b].page
                           /\ signUp'[b].form = (IF b = a /\ signUp[a].page = "open" THEN field
                                                 ELSE signUp[b].form)
                           /\ signUp'[b].pc = IF b = a THEN "save" ELSE signUp[b].pc
    BY <1>s DEF SetProfile
  <2>3. AttemptState'
    BY <2>1, <2>2
  <2>4. OneWriterPerAccount'
    BY <2>1, <2>2
  <2>5. QED
    BY <2>3, <2>4
<1>e. ASSUME NEW a \in Attempts, NEW dialog \in {"success", "error"}, End(a, dialog)
      PROVE  \A b \in Attempts :
                /\ signUp'[b].email = signUp[b].email
                /\ b # a => signUp'[b] = signUp[b]
                /\ b = a => signUp'[b].pc \in {dialog, "unseen"} /\ signUp'[b].page = "open"
  BY <1>e DEF End
<1>4. ASSUME NEW a \in Attempts, SaveProfile(a) PROVE AttemptState' /\ OneWriterPerAccount'
  <2>1. /\ signUp[a].pc = "save" /\ profile'[signUp[a].email] # None
        /\ \A e \in Emails : profile[e] # None => profile'[e] # None
        /\ UNCHANGED <<accounts, otpPage>>
    BY <1>4 DEF SaveProfile, Answerable
  <2>2. \A b \in Attempts :
           /\ signUp'[b].email = signUp[b].email
           /\ b # a => signUp'[b] = signUp[b]
           /\ b = a => signUp'[b].pc \in {"success", "unseen"} /\ signUp'[b].page = "open"
    BY <1>4, <1>e DEF SaveProfile
  <2>3. AttemptState'
    BY <2>1, <2>2
  <2>4. OneWriterPerAccount'
    BY <2>1, <2>2
  <2>5. QED
    BY <2>3, <2>4
<1>p. ASSUME NEW a \in Attempts, ProfileArrives(a) PROVE AttemptState' /\ OneWriterPerAccount'
  <2>1. /\ \A e \in Emails : profile[e] # None => profile'[e] # None
        /\ UNCHANGED <<accounts, otpPage, signUp>>
    BY <1>p DEF ProfileArrives
  <2>2. QED
    BY <2>1
<1>5. ASSUME NEW a \in Attempts, CreateUserFails(a) \/ SaveProfileFails(a)
      PROVE  AttemptState' /\ OneWriterPerAccount'
  <2>1. signUp[a].pc \in {"create", "save"} /\ UNCHANGED <<accounts, profile, otpPage>>
    BY <1>5 DEF CreateUserFails, SaveProfileFails, Answerable
  <2>2. \A b \in Attempts :
           /\ signUp'[b].email = signUp[b].email
           /\ b # a => signUp'[b] = signUp[b]
           /\ b = a => signUp'[b].pc \in {"error", "unseen"} /\ signUp'[b].page = "open"
    BY <1>5, <1>e DEF CreateUserFails, SaveProfileFails
  <2>3. AttemptState'
    BY <2>1, <2>2
  <2>4. OneWriterPerAccount'
    BY <2>2
  <2>5. QED
    BY <2>3, <2>4
<1>6. CASE UNCHANGED <<accounts, profile, signUp>>
           /\ \A a \in Attempts : otpPage'[a].phone = otpPage[a].phone
  BY <1>6
<1>7. ASSUME NEW a \in Attempts, NEW r \in Requests, OpenOTPPage(a, r)
      PROVE  AttemptState' /\ OneWriterPerAccount'
  <2>1. signUp[a].pc = "success" /\ UNCHANGED <<accounts, profile>>
    BY <1>7 DEF OpenOTPPage
  <2>2. \A b \in Attempts : /\ signUp'[b].email = signUp[b].email
                           /\ signUp'[b].page = signUp[b].page /\ signUp'[b].form = signUp[b].form
                           /\ signUp'[b].pc = IF b = a THEN "over" ELSE signUp[b].pc
    BY <1>7 DEF OpenOTPPage
  <2>3. \A b \in Attempts : b # a => otpPage'[b] = otpPage[b]
    BY <1>7 DEF OpenOTPPage
  <2>4. AttemptState'
    BY <2>1, <2>2, <2>3
  <2>5. OneWriterPerAccount'
    BY <2>1, <2>2
  <2>6. QED
    BY <2>4, <2>5
<1>a. ASSUME NEW r \in Requests, CodeSent(r) PROVE AttemptState' /\ OneWriterPerAccount'
  <2>1. \A b \in Attempts : otpPage'[b].phone = otpPage[b].phone
    BY <1>a DEF CodeSent
  <2>2. QED
    BY <1>6, <1>a, <2>1 DEF CodeSent
<1>b. ASSUME NEW r \in Requests, VerificationCompleted(r)
      PROVE  AttemptState' /\ OneWriterPerAccount'
  <2>1. UNCHANGED <<profile, signUp, otpPage>> /\ accounts \subseteq accounts'
    BY <1>b DEF VerificationCompleted
  <2>2. QED
    BY <2>1
<1>8. ASSUME NEW a, VerifyOTP(a) \/ LinkWithCredential(a) \/ LinkWithCredentialFails(a)
      PROVE  AttemptState' /\ OneWriterPerAccount'
  BY <1>6, <1>8 DEF VerifyOTP, LinkWithCredential, LinkWithCredentialFails
<1>c. ASSUME NEW a, NEW r, ResendOTP(a, r) \/ PhoneAnswer(r)
      PROVE  AttemptState' /\ OneWriterPerAccount'
  BY <1>6, <1>c DEF ResendOTP, PhoneAnswer
<1>9. CASE UNCHANGED vars
  BY <1>9 DEF vars
<1>10. ASSUME NEW a \in Attempts, SignUpCall(a) PROVE AttemptState' /\ OneWriterPerAccount'
  BY <1>3, <1>s, <1>4, <1>5, <1>10 DEF SignUpCall
<1>11. QED
  <2> HIDE DEF AttemptState, Attempted, OneWriterPerAccount, TypeOK
  <2>1. QED
    BY <1>1, <1>2, <1>l, <1>p, <1>7, <1>8, <1>9, <1>10, <1>a, <1>b, <1>c DEF Next

(* An OTP page keeps the phone it was opened with, and a request its page;  *)
(* a code that was texted stays texted.                                     *)
LEMMA KeptStep ==
  TypeOK /\ AttemptState /\ RequestState /\ [Next]_vars =>
    /\ \A a \in Attempts : otpPage[a].phone # None => otpPage'[a].phone = otpPage[a].phone
    /\ \A r \in Requests :
          request[r].pc # "none" => request'[r].pc # "none" /\ request'[r].page = request[r].page
    /\ \A r \in Requests : Texted(r) => Texted(r)'
<1> DEFINE KeptPage == \A a \in Attempts : otpPage[a].phone # None => otpPage'[a].phone = otpPage[a].phone
           KeptRequest == /\ \A r \in Requests : request[r].pc # "none" =>
                                request'[r].pc # "none" /\ request'[r].page = request[r].page
                          /\ \A r \in Requests : Texted(r) => Texted(r)'
<1> SUFFICES ASSUME TypeOK, AttemptState, RequestState, [Next]_vars PROVE KeptPage /\ KeptRequest
  OBVIOUS
<1> USE DEF TypeOK, AttemptState, Attempted, Texted
<1>1. CASE UNCHANGED <<otpPage, request>>
  BY <1>1
<1>2. ASSUME NEW a \in Attempts, NEW r \in Requests, OpenOTPPage(a, r) \/ ResendOTP(a, r)
      PROVE  KeptPage /\ KeptRequest
  BY <1>2 DEF OpenOTPPage, ResendOTP, Send
<1>3. ASSUME NEW r \in Requests, PhoneAnswer(r) PROVE KeptPage /\ KeptRequest
  <2>1. PICK pc \in {"sent", "failed", "completed"} :
           /\ request[r].pc \in {"sending", "received"} /\ UNCHANGED otpPage
           /\ request[r].pc = "received" => pc = "completed"
           /\ request' = [request EXCEPT ![r].pc = pc]
    BY <1>3 DEF PhoneAnswer
  <2>2. QED
    BY <2>1 DEF PhoneRequests
<1>4. ASSUME NEW r \in Requests, CodeSent(r) PROVE KeptPage /\ KeptRequest
  BY <1>4 DEF CodeSent, RequestState
<1>5. ASSUME NEW r \in Requests, VerificationCompleted(r) PROVE KeptPage /\ KeptRequest
  BY <1>5 DEF VerificationCompleted
<1>6. QED
  BY <1>1, <1>2, <1>3, <1>4, <1>5
     DEF Next, SignUpCall, vars, Type, LeavePage, SignInOrOut, Submit, CreateUser,
         CreateUserFails, SetProfile, SaveProfile, SaveProfileFails, ProfileArrives, VerifyOTP, LinkWithCredential, LinkWithCredentialFails

(* A request is only ever made by a page with a phone.                      *)
LEMMA RequestStep ==
  TypeOK /\ AttemptState /\ RequestState /\ [Next]_vars => RequestState'
<1> SUFFICES ASSUME TypeOK, AttemptState, RequestState, [Next]_vars PROVE RequestState'
  OBVIOUS
<1> USE DEF TypeOK, OTPPages, PhoneRequests
<1>1. \A a \in Attempts : otpPage[a].phone # None => otpPage'[a].phone # None
  BY KeptStep
<1>2. ASSUME NEW a \in Attempts, NEW r \in Requests, Send(r, a), otpPage'[a].phone # None
      PROVE  RequestState'
  BY <1>1, <1>2 DEF Send, RequestState
<1>3. ASSUME NEW a \in Attempts, NEW r \in Requests, OpenOTPPage(a, r) \/ ResendOTP(a, r)
      PROVE  RequestState'
  <2>1. otpPage'[a].phone # None
    BY <1>3, NamesAssumption DEF OpenOTPPage, ResendOTP, Fields
  <2>2. QED
    BY <1>2, <1>3, <2>1 DEF OpenOTPPage, ResendOTP
<1>4. ASSUME NEW r \in Requests, PhoneAnswer(r) \/ CodeSent(r) \/ VerificationCompleted(r)
      PROVE  RequestState'
  <2>1. request[r].pc # "none" /\ \A q \in Requests :
           request'[q].page = request[q].page /\ (q # r => request'[q].pc = request[q].pc)
    BY <1>4 DEF PhoneAnswer, CodeSent, VerificationCompleted
  <2>2. QED
    BY <1>1, <2>1 DEF RequestState
<1>5. CASE UNCHANGED request
  BY <1>1, <1>5 DEF RequestState
<1>6. QED
  BY <1>3, <1>4, <1>5
     DEF Next, SignUpCall, vars, Type, LeavePage, SignInOrOut, Submit, CreateUser,
         CreateUserFails, SetProfile, SaveProfile, SaveProfileFails, ProfileArrives, VerifyOTP, LinkWithCredential, LinkWithCredentialFails

(* A page only believes codes that were texted to it.                       *)
LEMMA PageStep ==
  TypeOK /\ AttemptState /\ RequestState /\ PageState /\ [Next]_vars => PageState'
<1> SUFFICES ASSUME TypeOK, AttemptState, RequestState, PageState, [Next]_vars PROVE PageState'
  OBVIOUS
<1> USE DEF TypeOK, OTPPages, PhoneRequests, Verifies
<1>1. /\ \A r \in Requests : Texted(r) => Texted(r)'
      /\ \A r \in Requests : request[r].pc # "none" => request'[r].page = request[r].page
      /\ \A r \in Requests : Texted(r) => request[r].pc # "none"
  BY KeptStep DEF Texted
<1>2. ASSUME \A a \in Attempts : otpPage'[a].verificationId = otpPage[a].verificationId,
             verify' \subseteq verify
      PROVE  PageState'
  BY <1>1, <1>2 DEF PageState
<1>3. ASSUME NEW a \in Attempts, NEW r \in Requests, OpenOTPPage(a, r) PROVE PageState'
  BY <1>2, <1>3 DEF OpenOTPPage
<1>4. ASSUME NEW r \in Requests, CodeSent(r) PROVE PageState'
  <2>1. request'[r].page = request[r].page /\ Texted(r)'
    BY <1>4 DEF CodeSent, Texted
  <2>2. \A a \in Attempts : otpPage'[a].verificationId =
           IF a = request[r].page THEN r ELSE otpPage[a].verificationId
    BY <1>4 DEF CodeSent
  <2>3. UNCHANGED verify
    BY <1>4 DEF CodeSent
  <2>4. ASSUME NEW a \in Attempts, NEW q \in Requests, otpPage'[a].verificationId = q
        PROVE  request'[q].page = a /\ Texted(q)'
    <3>1. CASE a = request[r].page
      <4>1. q = r
        BY <2>2, <2>4, <3>1
      <4>2. QED
        BY <2>1, <3>1, <4>1
    <3>2. CASE a # request[r].page
      <4>1. otpPage[a].verificationId = q
        BY <2>2, <2>4, <3>2
      <4>2. request[q].page = a /\ Texted(q)
        BY <4>1, NamesAssumption DEF PageState
      <4>3. QED
        BY <1>1, <4>2
    <3>3. QED
      BY <3>1, <3>2
  <2>5. ASSUME NEW v \in verify, v.proven
        PROVE  \E q \in Requests : request'[q].page = v.page /\ Texted(q)'
    <3>1. PICK q \in Requests : request[q].page = v.page /\ Texted(q)
      BY <2>5 DEF PageState
    <3>2. QED
      BY <1>1, <3>1
  <2>6. \A a \in Attempts : otpPage'[a].verificationId \in Requests \cup {None}
    BY <2>2
  <2>7. ASSUME NEW a \in Attempts
        PROVE  LET q == otpPage'[a].verificationId IN
               q # None => request'[q].page = a /\ request'[q].pc \notin {"none", "sending", "failed"}
    BY <2>4, <2>6 DEF Texted
  <2>8. QED
    BY <2>3, <2>5, <2>7 DEF PageState, Texted
<1>5. ASSUME NEW a \in Attempts, VerifyOTP(a) PROVE PageState'
  <2>1. otpPage[a].verificationId \in Requests /\ UNCHANGED <<otpPage, request>>
    BY <1>5 DEF VerifyOTP
  <2>2. PICK r \in Requests : request[r].page = a /\ Texted(r)
    BY <1>5, <2>1 DEF VerifyOTP, PageState
  <2>3. \A v \in verify' : v \in verify \/ v.page = a
    BY <1>5 DEF VerifyOTP
  <2>4. QED
    BY <2>1, <2>2, <2>3 DEF PageState, Texted
<1>6. ASSUME NEW v \in verify, LinkWithCredential(v) \/ LinkWithCredentialFails(v) PROVE PageState'
  <2>1. verify' \subseteq verify /\ UNCHANGED otpPage
    BY <1>6 DEF LinkWithCredential, LinkWithCredentialFails
  <2>2. QED
    BY <1>2, <2>1
<1>7. CASE UNCHANGED <<otpPage, verify>>
  BY <1>2, <1>7
<1>8. QED
  BY <1>3, <1>4, <1>5, <1>6, <1>7
     DEF Next, SignUpCall, vars, Type, LeavePage, SignInOrOut, Submit, CreateUser,
         CreateUserFails, SetProfile, SaveProfile, SaveProfileFails, ProfileArrives, ResendOTP, PhoneAnswer, VerificationCompleted

(* A phone is linked by the page it was texted from.                        *)
LEMMA LinkedStep ==
  TypeOK /\ AttemptState /\ RequestState /\ PageState /\ LinkedIsTexted /\ [Next]_vars => LinkedIsTexted'
<1> SUFFICES ASSUME TypeOK, AttemptState, RequestState, PageState, LinkedIsTexted, [Next]_vars,
                    NEW e \in Emails, linked'[e] # None
             PROVE  \E r \in Requests : /\ Texted(r)'
                                       /\ otpPage'[request'[r].page].phone = linked'[e]
  BY DEF LinkedIsTexted, Texted
<1>1. ASSUME NEW r \in Requests, Texted(r)
      PROVE  Texted(r)' /\ otpPage'[request'[r].page].phone = otpPage[request[r].page].phone
  <2>1. request[r].pc # "none"
    BY <1>1 DEF Texted
  <2>2. request[r].page \in Attempts /\ otpPage[request[r].page].phone # None
    BY <2>1 DEF RequestState
  <2>3. QED
    BY <1>1, <2>1, <2>2, KeptStep
<1>2. CASE linked'[e] = linked[e]
  BY <1>1, <1>2 DEF LinkedIsTexted, Texted
<1>3. ASSUME NEW v \in verify, LinkWithCredential(v), linked'[e] # linked[e]
      PROVE  \E r \in Requests : /\ Texted(r)'
                                /\ otpPage'[request'[r].page].phone = linked'[e]
  <2>1. linked'[e] = otpPage[v.page].phone /\ v.proven
    BY <1>3 DEF LinkWithCredential, Linkable, TypeOK
  <2>2. PICK r \in Requests : request[r].page = v.page /\ Texted(r)
    BY <2>1 DEF PageState
  <2>3. QED
    BY <1>1, <2>1, <2>2
<1>4. QED
  BY <1>2, <1>3
     DEF Next, SignUpCall, vars, Type, LeavePage, SignInOrOut, Submit, CreateUser,
         CreateUserFails, SetProfile, SaveProfile, SaveProfileFails, ProfileArrives, OpenOTPPage, ResendOTP, PhoneAnswer, CodeSent,
         VerificationCompleted, VerifyOTP, LinkWithCredentialFails

------------------------------------------------------------------------------
(* Every call, dialog and callback keeps each part of IInv. *)
LEMMA Invariance == Spec => []IInv
<1>1. IInv /\ [Next]_vars => IInv'
  BY TypeStep, AttemptStep, RequestStep, PageStep, LinkedStep DEF IInv
<1>2. QED
  BY InitInv, <1>1, PTL DEF Spec

(* The calls of the three backends always find what they are given: an email *)
(* for the account, an open page and its phone for the text message.         *)
THEOREM TypeCorrect == Spec => []TypeOK
  BY Invariance, PTL DEF IInv

(* The success dialog of signup_screen.dart does not lie: account and profile *)
(* exist when it is shown, although the fields may be edited while it runs.  *)
THEOREM SuccessIsSavedHolds == Spec => []SuccessIsSaved
<1>1. IInv => SuccessIsSaved
  BY DEF IInv, AttemptState, Attempted, SuccessIsSaved
<1>2. QED
  BY Invariance, <1>1, PTL

(* The sign-up button is never disabled, and still only one call per email  *)
(* gets past createUserWithEmailAndPassword to write the profile.           *)
THEOREM OneWriterPerAccountHolds == Spec => []OneWriterPerAccount
  BY Invariance, PTL DEF IInv

(* linkWithCredential only succeeds for a phone that a code was texted to:  *)
(* an OTP page never mixes up the codes of its own and of other pages.      *)
THEOREM LinkedIsTextedHolds == Spec => []LinkedIsTexted
  BY Invariance, PTL DEF IInv

=============================================================================
