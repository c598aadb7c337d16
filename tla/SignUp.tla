-------------------------------- MODULE SignUp --------------------------------
(***************************************************************************)
(* Registration on one device: the sign-up page (signup_screen.dart), the  *)
(* phone verification page it opens (otp_verification_page.dart) and the   *)
(* Firebase accounts and profile documents they write.  The text fields    *)
(* stay editable while a submit is running, and no button is ever disabled;*)
(* the sign-up page may be left at any time, and its calls run on.         *)
(*                                                                         *)
(* An account is named by the email or, for an account made by signing in  *)
(* with a phone, by the phone it was created with.                         *)
(***************************************************************************)
EXTENDS FiniteSets, Naturals

CONSTANTS
    Emails, Phones,
    ShortPhone,    \* a phone the page marks as too short
    AdminEmail,    \* AdminCredentials.email
    Attempts,      \* taps on SIGN UP (bounds them); a success opens one OTP page
    Requests,      \* calls of verifyPhoneNumber (bounds them)
    MaxLinks,      \* calls of linkWithCredential that may run at once (bounds them)
    None,
    Faults         \* whether a backend call may fail for no fault of the user

ASSUME NamesAssumption ==
    /\ Emails \cap Phones = {} /\ None \notin Emails \cup Phones \cup Attempts \cup Requests
    /\ None \notin [email: Emails, phone: Phones]
    /\ ShortPhone \in Phones /\ AdminEmail \in Emails
    /\ Faults \in BOOLEAN /\ MaxLinks \in Nat

VARIABLES
    field,        \* emailController, phoneNumberController
    accounts,     \* accounts of Firebase Auth
    linked,       \* the phone linked to an email account
    profile,      \* users/<uid>
    currentUser,  \* FirebaseAuth.instance.currentUser
    signUp,       \* running calls of signUpWithEmailAndPassword
    otpPage,      \* the OTP page each attempt opened
    request,      \* running calls of verifyPhoneNumber
    verify        \* running calls of verifyOTP, each in its linkWithCredential

vars == <<field, accounts, linked, profile, currentUser, signUp, otpPage, request, verify>>

Fields        == [email: Emails, phone: Phones]
Users         == Emails \cup Phones \cup {None}
SignUpPcs     == {"none", "create", "created", "save", "success", "error", "unseen", "over"}
\* [page]: its page; [form]: the fields it goes on with; [by]: whose write it is.
SignUps       == [pc: SignUpPcs, email: Emails \cup {None}, page: {"open", "left"},
                  form: Fields \cup {None}, by: Users]
OTPPages      == [phone: Phones \cup {None}, verificationId: Requests \cup {None}]
PhoneRequests == [page: Attempts \cup {None},
                  pc: {"none", "sending", "sent", "received", "failed", "completed", "signedIn"}]
Verifies      == [page: Attempts, user: Users, proven: BOOLEAN]

TypeOK ==
    /\ field \in Fields
    /\ accounts \in SUBSET (Emails \cup Phones)
    /\ linked \in [Emails -> Phones \cup {None}]
    /\ profile \in [Emails -> Fields \cup {None}]
    /\ currentUser \in Users
    /\ signUp \in [Attempts -> SignUps]
    /\ otpPage \in [Attempts -> OTPPages]
    /\ request \in [Requests -> PhoneRequests]
    /\ verify \in SUBSET Verifies

NoSignUp == [pc |-> "none", email |-> None, page |-> "open", form |-> None, by |-> None]

Init ==
    /\ field \in Fields
    /\ accounts = {} /\ currentUser = None
    /\ linked = [e \in Emails |-> None]
    /\ profile = [e \in Emails |-> None]
    /\ signUp = [a \in Attempts |-> NoSignUp]
    /\ otpPage = [a \in Attempts |-> [phone |-> None, verificationId |-> None]]
    /\ request = [r \in Requests |-> [page |-> None, pc |-> "none"]]
    /\ verify = {}

------------------------------------------------------------------------------
(* The form.  Its fields show error texts but have no validator, so        *)
(* _formKey.currentState!.validate() accepts anything.                     *)

Type ==
    /\ field' \in Fields
    /\ UNCHANGED <<accounts, linked, profile, currentUser, signUp, otpPage, request, verify>>

\* The page is popped, and the next one is filled in.  Its calls keep its fields; a
\* success dialog is dismissed with it.
LeavePage ==
    /\ field' \in Fields
    /\ signUp' = [a \in Attempts |->
          IF signUp[a].pc \in {"create", "created"} /\ signUp[a].page = "open"
          THEN [signUp[a] EXCEPT !.page = "left", !.form = field]
          ELSE IF signUp[a].pc = "save" THEN [signUp[a] EXCEPT !.page = "left"]
          ELSE IF signUp[a].pc = "success" THEN [signUp[a] EXCEPT !.pc = "over"]
          ELSE signUp[a]]
    /\ UNCHANGED <<accounts, linked, profile, currentUser, otpPage, request, verify>>

Submit(a) ==
    /\ signUp[a].pc = "none"
    /\ signUp' = [signUp EXCEPT ![a] =
          [@ EXCEPT !.pc = IF field.email = AdminEmail THEN "error" ELSE "create",
                    !.email = field.email]]
    /\ UNCHANGED <<field, accounts, linked, profile, currentUser, otpPage, request, verify>>

\* The call ends with a dialog; on a page that was left showDialog throws, and the
\* catch clause's as well.
End(a, dialog) ==
    signUp' = [signUp EXCEPT ![a] =
        [@ EXCEPT !.pc = IF signUp[a].page = "left" THEN "unseen" ELSE dialog,
                  !.page = "open", !.form = None, !.by = None]]

\* Mutant: an email in use signs the old account in instead of failing.
CreateUser_Reuses(a) ==
    /\ signUp[a].pc = "create"
    /\ accounts' = accounts \cup {signUp[a].email}
    /\ currentUser' = signUp[a].email
    /\ signUp' = [signUp EXCEPT ![a].pc = "created"]
    /\ UNCHANGED <<field, linked, profile, otpPage, request, verify>>

CreateUser(a) ==
    /\ signUp[a].pc = "create"
    /\ signUp[a].email \notin accounts
    /\ accounts' = accounts \cup {signUp[a].email}
    /\ currentUser' = signUp[a].email
    /\ signUp' = [signUp EXCEPT ![a].pc = "created"]
    /\ UNCHANGED <<field, linked, profile, otpPage, request, verify>>

\* email-already-in-use, weak-password, or no connection.
CreateUserFails(a) ==
    /\ signUp[a].pc = "create"
    /\ signUp[a].email \in accounts \/ Faults
    /\ End(a, "error")
    /\ UNCHANGED <<field, accounts, linked, profile, currentUser, otpPage, request, verify>>

\* The document is built from the fields as they are now, after the first await, and
\* its write waits in the queue of whoever is logged in now.
SetProfile(a) ==
    /\ signUp[a].pc = "created"
    /\ signUp' = [signUp EXCEPT ![a] =
          [@ EXCEPT !.pc = "save", !.by = currentUser,
                    !.form = IF signUp[a].page = "left" THEN signUp[a].form ELSE field]]
    /\ UNCHANGED <<field, accounts, linked, profile, currentUser, otpPage, request, verify>>

\* The user whose write it is is the current one: the backend's answer finds its await.
Answerable(a) == signUp[a].pc = "save" /\ signUp[a].by = currentUser

SaveProfile(a) ==
    /\ Answerable(a)
    /\ profile' = [profile EXCEPT ![signUp[a].email] = signUp[a].form]
    /\ End(a, "success")
    /\ UNCHANGED <<field, accounts, linked, currentUser, otpPage, request, verify>>

\* Mutant: the write is not awaited, so its failure goes unseen.
SaveProfileFails_Unseen(a) ==
    /\ Faults
    /\ Answerable(a)
    /\ End(a, "success")
    /\ UNCHANGED <<field, accounts, linked, profile, currentUser, otpPage, request, verify>>

\* Mutant: only FirebaseAuthException is caught, so the call just ends.
SaveProfileFails_Uncaught(a) ==
    /\ Faults
    /\ Answerable(a)
    /\ End(a, "none")
    /\ UNCHANGED <<field, accounts, linked, profile, currentUser, otpPage, request, verify>>

SaveProfileFails(a) ==
    /\ Faults
    /\ Answerable(a)
    /\ End(a, "error")
    /\ UNCHANGED <<field, accounts, linked, profile, currentUser, otpPage, request, verify>>

\* A write that was sent before its user left is stored; its await stays as it is.
ProfileArrives(a) ==
    /\ signUp[a].pc = "save" /\ ~Answerable(a)
    /\ profile' = [profile EXCEPT ![signUp[a].email] = signUp[a].form]
    /\ UNCHANGED <<field, accounts, linked, currentUser, signUp, otpPage, request, verify>>

------------------------------------------------------------------------------
(* The OTP page: its initState and its Resend button call verifyPhoneNumber*)
(* for the phone it was opened with.                                       *)

Send(r, a) ==
    /\ request[r].pc = "none"
    /\ request' = [request EXCEPT ![r] = [page |-> a, pc |-> "sending"]]

\* Mutant: the page is handed the name of the account instead of the phone.
OpenOTPPage_NoPhone(a, r) ==
    /\ signUp[a].pc = "success"
    /\ signUp' = [signUp EXCEPT ![a].pc = "over"]
    /\ otpPage' = [otpPage EXCEPT ![a].phone = signUp[a].email]
    /\ Send(r, a)
    /\ UNCHANGED <<field, accounts, linked, profile, currentUser, verify>>

\* OK in the success dialog.
OpenOTPPage(a, r) ==
    /\ signUp[a].pc = "success"
    /\ signUp' = [signUp EXCEPT ![a].pc = "over"]
    /\ otpPage' = [otpPage EXCEPT ![a].phone = field.phone]
    /\ Send(r, a)
    /\ UNCHANGED <<field, accounts, linked, profile, currentUser, verify>>

ResendOTP(a, r) ==
    /\ otpPage[a].phone # None
    /\ Send(r, a)
    /\ UNCHANGED <<field, accounts, linked, profile, currentUser, signUp, otpPage, verify>>

\* The backend texts a code, refuses the phone, or verifies the phone by itself.
PhoneAnswer(r) ==
    LET answer(from, to) == request[r].pc \in from /\ request' = [request EXCEPT ![r].pc = to]
        phone == otpPage[request[r].page].phone IN
    /\ \/ answer({"sending"}, "sent") /\ phone # ShortPhone
       \/ answer({"sending"}, "failed") /\ (phone = ShortPhone \/ Faults)
       \/ answer({"sending", "received"}, "completed") /\ phone # ShortPhone
    /\ UNCHANGED <<field, accounts, linked, profile, currentUser, signUp, otpPage, verify>>

\* Callbacks of several requests come in any order; the last one wins.
CodeSent(r) ==
    /\ request[r].pc = "sent"
    /\ request' = [request EXCEPT ![r].pc = "received"]
    /\ otpPage' = [otpPage EXCEPT ![request[r].page].verificationId = r]
    /\ UNCHANGED <<field, accounts, linked, profile, currentUser, signUp, verify>>

\* signInWithCredential makes the phone's own account the current user, unless
\* the phone is linked to an account.
VerificationCompleted(r) ==
    LET phone == otpPage[request[r].page].phone IN
    /\ request[r].pc = "completed"
    /\ request' = [request EXCEPT ![r].pc = "signedIn"]
    /\ \/ \E e \in Emails : linked[e] = phone /\ currentUser' = e /\ UNCHANGED accounts
       \/ /\ \A e \in Emails : linked[e] # phone
          /\ currentUser' = phone
          /\ accounts' = accounts \cup {phone}
    /\ UNCHANGED <<field, linked, profile, signUp, otpPage, verify>>

\* The codes of the text messages of this page, and any other text.
Typed(a) == {r \in Requests : request[r].page = a /\ request[r].pc \in {"sent", "received"}}
            \cup {None}

\* Mutant: the check for a missing verificationId is dropped.
VerifyOTP_NoCheck(a) ==
    /\ otpPage[a].phone # None
    /\ currentUser # None /\ Cardinality(verify) < MaxLinks
    /\ \E typed \in Typed(a) :
          verify' = verify \cup {[page |-> a, user |-> currentUser,
                                 proven |-> typed = otpPage[a].verificationId]}
    /\ UNCHANGED <<field, accounts, linked, profile, currentUser, signUp, otpPage, request>>

\* Without a verificationId the tap only shows an error, without a current user it
\* does nothing at all.  It may be repeated while the first call still runs.
VerifyOTP(a) ==
    /\ otpPage[a].phone # None /\ otpPage[a].verificationId # None
    /\ currentUser # None /\ Cardinality(verify) < MaxLinks
    /\ \E typed \in Typed(a) :
          verify' = verify \cup {[page |-> a, user |-> currentUser,
                                 proven |-> typed = otpPage[a].verificationId]}
    /\ UNCHANGED <<field, accounts, linked, profile, currentUser, signUp, otpPage, request>>

\* The credential is right, and neither it nor the user is linked already.
Linkable(v) ==
    LET phone == otpPage[v.page].phone IN
    /\ v.proven
    /\ v.user \in Emails /\ linked[v.user] = None
    /\ phone \notin accounts /\ \A e \in Emails : linked[e] # phone

LinkWithCredential(v) ==
    /\ Linkable(v)
    /\ linked' = [linked EXCEPT ![v.user] = otpPage[v.page].phone]
    /\ verify' = verify \ {v}
    /\ UNCHANGED <<field, accounts, profile, currentUser, signUp, otpPage, request>>

LinkWithCredentialFails(v) ==
    /\ ~Linkable(v) \/ Faults
    /\ verify' = verify \ {v}
    /\ UNCHANGED <<field, accounts, linked, profile, currentUser, signUp, otpPage, request>>

\* The login page, pushed over any of these, or a logout behind it.
SignInOrOut ==
    /\ currentUser' \in (accounts \cap Emails) \cup {None}
    /\ UNCHANGED <<field, accounts, linked, profile, signUp, otpPage, request, verify>>

------------------------------------------------------------------------------
SignUpCall(a) ==
    \/ CreateUser(a) \/ CreateUserFails(a)
    \/ SetProfile(a) \/ SaveProfile(a) \/ SaveProfileFails(a)

Next ==
    \/ Type \/ LeavePage \/ SignInOrOut
    \/ \E a \in Attempts : Submit(a) \/ SignUpCall(a) \/ ProfileArrives(a) \/ VerifyOTP(a)
    \/ \E v \in verify : LinkWithCredential(v) \/ LinkWithCredentialFails(v)
    \/ \E a \in Attempts, r \in Requests : OpenOTPPage(a, r) \/ ResendOTP(a, r)
    \/ \E r \in Requests : PhoneAnswer(r) \/ CodeSent(r) \/ VerificationCompleted(r)

Spec == Init /\ [][Next]_vars

\* The backend answers each call of a sign-up, with a result or an error; a write is
\* only answered to the user whose write it is.
FairSpec == Spec /\ \A a \in Attempts : WF_vars(SignUpCall(a))

------------------------------------------------------------------------------
(* What holds.                                                             *)

\* The success dialog is shown only when the account and its profile exist.
SuccessIsSaved ==
    \A a \in Attempts : signUp[a].pc \in {"success", "over"} =>
        signUp[a].email \in accounts /\ profile[signUp[a].email] # None

\* However often SIGN UP is tapped for an email, one call at most goes on to
\* write that account's profile.
OneWriterPerAccount ==
    \A a, b \in Attempts :
        a # b /\ {signUp[a].pc, signUp[b].pc} \subseteq {"created", "save", "success", "over"} =>
            signUp[a].email # signUp[b].email

\* A phone is linked only after a code went out to it from a page opened for it.
LinkedIsTexted ==
    \A e \in Emails : linked[e] # None =>
        \E r \in Requests : /\ request[r].pc \notin {"none", "sending", "failed"}
                            /\ otpPage[request[r].page].phone = linked[e]

\* A submit ends in the success dialog or in an error dialog, however its calls fail,
\* unless its page is left first or somebody else logs in while its write is on the way.
SubmitIsAnswered ==
    \A a \in Attempts :
        signUp[a].pc \in {"create", "created", "save"} ~>
            \/ signUp[a].pc \in {"success", "error"}
            \/ signUp[a].page = "left"
            \/ signUp[a].pc = "save" /\ currentUser # signUp[a].by

------------------------------------------------------------------------------
(* What the repository says and the code does not do.                      *)

\* A signed-in user has a profile document (nav_bar.dart asserts it: data()!).
SignedInHasProfile ==
    currentUser \notin {None} =>
        \/ currentUser \in Emails /\ profile[currentUser] # None
        \/ \E a \in Attempts : /\ signUp[a].pc \in {"created", "save"}
                                /\ signUp[a].email = currentUser

=============================================================================
