------------------------------ MODULE Navigation ------------------------------
(***************************************************************************)
(* The Navigator stack over all pages and dialogs of the app, with the     *)
(* calls that navigate only after an await: the splash delay, login,       *)
(* registration, phone verification, logout and the password reset.  Such  *)
(* a call acts on whatever route is on top when it resumes; if its own page*)
(* is gone by then, it acts all the same or throws (the page may still be  *)
(* in its exit transition; a release build drops the check of a stateless  *)
(* page's context).                                                        *)
(***************************************************************************)
EXTENDS Naturals, Sequences

CONSTANTS
    Users,
    None,
    Calls,       \* running calls that will navigate (bounds them)
    MaxDepth     \* bound on the depth of the stack

ASSUME NoneAssumption  == None \notin Users
ASSUME DepthAssumption == MaxDepth \in Nat \ {0}

VARIABLES
    stack,      \* the routes, dialogs among them, the visible one last
    session,    \* FirebaseAuth.instance.currentUser
    call        \* the calls that are waiting

vars == <<stack, session, call>>

\* "SignedUp" and "Linked" are the dialogs whose OK leads to another page; "Dialog"
\* is any other, the date picker included.
Dialogs    == {"Dialog", "SignedUp", "Linked"}
OpenPages  == {"Splash", "Login", "SignUp", "OTP", "Forgot"} \cup Dialogs
AdminPages == {"AdminHome", "AdminNav", "ViewUsers", "ViewData", "AdminPayments",
               "AdminNotifications"}
UserPages  == {"Home", "NavBar", "Cards", "Rents", "Pay", "Transactions", "AddCards", "AddRent",
               "Profile", "EditProfile", "Settings", "Notifications"}

Routes == [page: OpenPages \cup AdminPages, user: {None}] \cup [page: UserPages, user: Users]
Idle   == [kind |-> "idle", at |-> 0, gone |-> FALSE]
Kinds  == {"splash", "login", "register", "verify", "logout", "reset"}

TypeOK ==
    /\ stack \in Seq(Routes) /\ Len(stack) <= MaxDepth
    /\ session \in Users \cup {None}
    /\ call \in [Calls -> [kind: Kinds \cup {"idle"},
                           at: 0..MaxDepth, gone: BOOLEAN]]

Top == stack[Len(stack)]
On(page) == stack # <<>> /\ Top.page = page

------------------------------------------------------------------------------
(* Where the buttons of a page lead, with Navigator.push.                  *)

CustomAppBarTargets == {"NavBar", "Home", "Notifications"}

NavBarTargets == {"Home", "Cards", "Rents", "Pay", "Transactions", "AddCards", "AddRent",
                  "Profile", "Settings", "Notifications"}

HomeButtonTargets == {"Pay", "Cards", "Rents", "Transactions"}

AdminAppBarTargets == {"AdminNav", "AdminHome", "AdminNotifications"}

AdminNavTargets == {"AdminHome", "ViewUsers", "AdminPayments", "AdminNotifications"}

AdminButtonTargets == {"ViewUsers", "AdminPayments", "AdminNotifications"}

FormTargets(page) ==
    CASE page = "AddCards"    -> {"Cards"}        \* after the card is stored
      [] page = "AddRent"     -> {"Rents"}        \* after the rent is stored
      [] page = "Rents"       -> {"AddRent"}
      [] page = "Profile"     -> {"EditProfile"}
      [] page = "EditProfile" -> {"Profile"}      \* while the update still runs
      [] page = "ViewUsers"   -> {"ViewData"}
      [] OTHER                -> {}

Targets(page) ==
    FormTargets(page) \cup
    CASE page = "NavBar"     -> NavBarTargets
      [] page = "Home"       -> CustomAppBarTargets \cup HomeButtonTargets
      [] page = "AdminNav"   -> AdminNavTargets
      [] page = "AdminHome"  -> AdminAppBarTargets \cup AdminButtonTargets
      [] page = "ViewData"   -> {}
      [] page \in AdminPages -> AdminAppBarTargets
      [] page \in UserPages  -> CustomAppBarTargets
      [] OTHER               -> {}

------------------------------------------------------------------------------
Route(page, user) == [page |-> page, user |-> user]

\* The pages at depth d and above leave the stack: their calls lose them.
Leave(d, calls) == [c \in Calls |-> IF calls[c].at >= d THEN [calls[c] EXCEPT !.gone = TRUE]
                                    ELSE calls[c]]

Push(page, user) ==
    /\ Len(stack) < MaxDepth
    /\ stack' = Append(stack, Route(page, user))

\* pushReplacement and pop act on the route on top, a dialog or a page, whoever calls
\* them.
ReplaceTop(page, user, calls) ==
    /\ stack # <<>>
    /\ stack' = [stack EXCEPT ![Len(stack)] = Route(page, user)]
    /\ call' = Leave(Len(stack), calls)

PopTop(calls) ==
    /\ stack # <<>>
    /\ stack' = SubSeq(stack, 1, Len(stack) - 1)
    /\ call' = Leave(Len(stack), calls)

Start(c, kind) ==
    /\ call[c].kind = "idle"
    /\ call' = [call EXCEPT ![c] = [kind |-> kind, at |-> Len(stack), gone |-> FALSE]]

\* The other calls once c has returned.
Others(c) == [call EXCEPT ![c] = Idle]

\* c's page is gone and the call throws before it navigates.
Lost(c) == call[c].gone /\ call' = Others(c) /\ UNCHANGED stack

\* showDialog, when c resumes.
Show(dialog, c) ==
    /\ stack # <<>>
    /\ Push(dialog, None)
    /\ call' = Others(c)

Init ==
    /\ stack = <<Route("Splash", None)>>
    /\ session = None
    /\ \E c \in Calls : call = [d \in Calls |->
          IF d = c THEN [kind |-> "splash", at |-> 1, gone |-> FALSE] ELSE Idle]

------------------------------------------------------------------------------
\* Mutant: the page opens its successor for the current user, not for its own.
Tap_CurrentUser(page) ==
    /\ stack # <<>>
    /\ page \in Targets(Top.page)
    /\ Push(page, IF page \in UserPages THEN session ELSE None)
    /\ UNCHANGED <<session, call>>

Tap(page) ==
    /\ stack # <<>>
    /\ page \in Targets(Top.page)
    /\ Push(page, Top.user)
    /\ UNCHANGED <<session, call>>

\* Links between the pages of a signed-out user.
TapLoginLink ==
    /\ On("SignUp") \/ On("OTP")
    /\ Push("Login", None)
    /\ UNCHANGED <<session, call>>

TapSignUpOrForgot ==
    /\ On("Login")
    /\ \E page \in {"SignUp", "Forgot"} : ReplaceTop(page, None, call)
    /\ UNCHANGED session

\* The dialogs that open at once: the admin's email, or a wrong password for it, and
\* the date picker.
OpenDialog ==
    /\ On("SignUp") \/ On("Login") \/ On("AddRent")
    /\ Push("Dialog", None)
    /\ UNCHANGED <<session, call>>

\* OK after a registration: the dialog is popped and the OTP page pushed.
ConfirmSignUp ==
    /\ On("SignedUp")
    /\ ReplaceTop("OTP", None, call)
    /\ UNCHANGED session

\* OK after a verification: the dialog is popped and what is below it replaced.
ConfirmLink ==
    /\ On("Linked") /\ Len(stack) > 1
    /\ LET below == SubSeq(stack, 1, Len(stack) - 1) IN
       stack' = [below EXCEPT ![Len(below)] = Route("Login", None)]
    /\ call' = Leave(Len(stack) - 1, call)
    /\ UNCHANGED session

\* The system's back button, and OK in any other dialog; on the last page it leaves
\* the app.
Back ==
    /\ Len(stack) > 1
    /\ PopTop(call)
    /\ UNCHANGED session

\* The app is closed and opened again; the session is kept by Firebase.
Relaunch(c) ==
    /\ stack' = <<Route("Splash", None)>>
    /\ call' = [d \in Calls |->
          IF d = c THEN [kind |-> "splash", at |-> 1, gone |-> FALSE] ELSE Idle]
    /\ UNCHANGED session

SplashOver(c) ==
    /\ call[c].kind = "splash"
    /\ ReplaceTop("Login", None, Others(c)) \/ Lost(c)
    /\ UNCHANGED session

------------------------------------------------------------------------------
AdminLogin ==
    /\ On("Login")
    /\ ReplaceTop("AdminHome", None, call)
    /\ UNCHANGED session

TapLogin(c) ==
    /\ On("Login")
    /\ Start(c, "login")
    /\ UNCHANGED <<stack, session>>

\* Mutant: the home page is opened without the user of the credential.
LoginReturns_NoUser(c, u) ==
    /\ call[c].kind = "login"
    /\ session' = u
    /\ ReplaceTop("Home", None, Others(c)) \/ Lost(c)

LoginReturns(c, u) ==
    /\ call[c].kind = "login"
    /\ session' = u
    /\ ReplaceTop("Home", u, Others(c)) \/ Lost(c)

TapSignUp(c) ==
    /\ On("SignUp")
    /\ Start(c, "register")
    /\ UNCHANGED <<stack, session>>

\* The new account is the current user from the first of two awaits on.
RegisterReturns(c, u) ==
    /\ call[c].kind = "register"
    /\ session' = u
    /\ Show("SignedUp", c) \/ Lost(c)

TapVerify(c) ==
    /\ On("OTP")
    /\ Start(c, "verify")
    /\ UNCHANGED <<stack, session>>

VerifyReturns(c) ==
    /\ call[c].kind = "verify"
    /\ Show("Linked", c) \/ Lost(c)
    /\ UNCHANGED session

\* An error dialog.  A registration may fail after its account was created.
CallFails(c) ==
    /\ call[c].kind \in {"login", "register", "verify"}
    /\ Show("Dialog", c) \/ Lost(c)
    /\ \/ UNCHANGED session
       \/ call[c].kind = "register" /\ session' \in Users

TapLogout(c) ==
    /\ On("NavBar") \/ On("AdminNav")
    /\ Start(c, "logout")
    /\ UNCHANGED <<stack, session>>

\* Mutant: the logout goes back instead of opening the login page.
LogoutReturns_Pops(c) ==
    /\ call[c].kind = "logout"
    /\ session' = None
    /\ PopTop(Others(c)) \/ Lost(c)

LogoutReturns(c) ==
    /\ call[c].kind = "logout"
    /\ session' = None
    /\ ReplaceTop("Login", None, Others(c)) \/ Lost(c)

TapReset(c) ==
    /\ On("Forgot")
    /\ Start(c, "reset")
    /\ UNCHANGED <<stack, session>>

ResetReturns(c) ==
    /\ call[c].kind = "reset"
    /\ PopTop(Others(c)) \/ Lost(c)
    /\ UNCHANGED session

ResetFails(c) ==
    /\ call[c].kind = "reset"
    /\ call' = Others(c)
    /\ UNCHANGED <<stack, session>>

Next ==
    \/ \E page \in UserPages \cup AdminPages : Tap(page)
    \/ TapLoginLink \/ TapSignUpOrForgot \/ AdminLogin
    \/ OpenDialog \/ ConfirmSignUp \/ ConfirmLink \/ Back
    \/ \E c \in Calls :
          \/ Relaunch(c) \/ SplashOver(c)
          \/ TapLogin(c) \/ TapSignUp(c) \/ TapVerify(c) \/ VerifyReturns(c) \/ CallFails(c)
          \/ TapLogout(c) \/ LogoutReturns(c)
          \/ TapReset(c) \/ ResetReturns(c) \/ ResetFails(c)
          \/ \E u \in Users : LoginReturns(c, u) \/ RegisterReturns(c, u)

Spec == Init /\ [][Next]_vars

------------------------------------------------------------------------------
\* A page of a user rests on that user's own HomePage, and an admin page on the
\* AdminPage: pages are handed on along one sign-in, however many logins,
\* logouts and late calls have reshuffled the stack.
PagesRestOnSignIn ==
    \A i \in 1..Len(stack) :
        LET root == IF stack[i].page \in UserPages THEN Route("Home", stack[i].user)
                    ELSE Route("AdminHome", None) IN
        stack[i].page \notin OpenPages => \E j \in 1..i : stack[j] = root

\* Only the return of a password reset leaves the user without a page: it pops
\* whatever is on top.  No late login, logout or splash, no dialog and no back button
\* does.
OnlyResetBlanks ==
    [][stack # <<>> /\ stack' = <<>> =>
         \E c \in Calls : call[c].kind = "reset" /\ call'[c].kind = "idle"]_vars

=============================================================================
