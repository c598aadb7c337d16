--------------------------- MODULE NavigationProofs ---------------------------
(***************************************************************************)
(* Theorems about Navigation for any users, calls and depth of the stack.  *)
(* PagesRestOnSignIn is inductive beside TypeOK; what pushing, replacing   *)
(* and popping do to it are lemmas about any stack.                        *)
(***************************************************************************)
EXTENDS Navigation, SequenceTheorems, TLAPS

(* The page that a page rests on. *)
RootOf(r) == IF r.page \in UserPages THEN Route("Home", r.user) ELSE Route("AdminHome", None)

Resting(s) ==
    \A i \in 1..Len(s) : s[i].page \notin OpenPages => \E j \in 1..i : s[j] = RootOf(s[i])

IInv == TypeOK /\ Resting(stack)

CallTypes == [kind: Kinds \cup {"idle"}, at: 0..MaxDepth, gone: BOOLEAN]

Stacks == {s \in Seq(Routes) : Len(s) <= MaxDepth}

------------------------------------------------------------------------------
(* No page is of two kinds.                                                 *)
LEMMA PageKinds == /\ OpenPages \cap AdminPages = {} /\ OpenPages \cap UserPages = {}
                   /\ AdminPages \cap UserPages = {}
  BY DEF OpenPages, Dialogs, AdminPages, UserPages

(* Buttons lead from user pages to user pages and from admin pages to admin *)
(* pages; the pages of a signed-out user have none of these.                *)
LEMMA TargetKinds ==
  ASSUME NEW page
  PROVE  /\ page \in UserPages => Targets(page) \subseteq UserPages
         /\ page \in AdminPages => Targets(page) \subseteq AdminPages
         /\ page \in OpenPages => Targets(page) = {}
<1>1. ASSUME page \in UserPages PROVE FormTargets(page) \subseteq UserPages
  BY <1>1 DEF FormTargets, UserPages
<1>2. ASSUME page \in AdminPages PROVE FormTargets(page) \subseteq AdminPages
  BY <1>2 DEF FormTargets, AdminPages
<1>3. ASSUME page \in OpenPages PROVE FormTargets(page) = {}
  BY <1>3 DEF FormTargets, OpenPages, Dialogs
<1>4. ASSUME page \in UserPages PROVE Targets(page) \subseteq UserPages
  BY <1>1, <1>4 DEF Targets, UserPages, AdminPages, NavBarTargets, CustomAppBarTargets, HomeButtonTargets
<1>5. ASSUME page \in AdminPages PROVE Targets(page) \subseteq AdminPages
  BY <1>2, <1>5 DEF Targets, UserPages, AdminPages, AdminNavTargets, AdminAppBarTargets, AdminButtonTargets
<1>6. ASSUME page \in OpenPages PROVE Targets(page) = {}
  BY <1>3, <1>6 DEF Targets, UserPages, AdminPages, OpenPages, Dialogs
<1>7. QED
  BY <1>4, <1>5, <1>6

(* A route has a user exactly when it is a user's page.                     *)
LEMMA RouteKinds ==
  ASSUME NEW r \in Routes
  PROVE  /\ r.page \in OpenPages \cup AdminPages \cup UserPages
         /\ r.page \in UserPages => r.user \in Users
         /\ r.page \notin UserPages => r.user = None
  BY PageKinds DEF Routes

LEMMA RouteTypes ==
  /\ \A page \in OpenPages \cup AdminPages : Route(page, None) \in Routes
  /\ \A page \in UserPages, u \in Users : Route(page, u) \in Routes
  BY DEF Routes, Route

(* Pushing a page of the kind and the user of the page on top.              *)
LEMMA AppendRests ==
  ASSUME NEW s \in Seq(Routes), Resting(s), NEW r \in Routes,
         \/ r.page \in OpenPages
         \/ s # <<>> /\ s[Len(s)].page \notin OpenPages /\ RootOf(r) = RootOf(s[Len(s)])
  PROVE  Resting(Append(s, r))
<1> DEFINE t == Append(s, r)
<1>1. /\ t \in Seq(Routes) /\ Len(t) = Len(s) + 1
      /\ \A i \in 1..Len(s) : t[i] = s[i]
      /\ t[Len(s) + 1] = r
  BY AppendProperties
<1>2. Len(s) \in Nat
  BY LenProperties
<1>3. ASSUME NEW i \in 1..Len(t), t[i].page \notin OpenPages
      PROVE  \E j \in 1..i : t[j] = RootOf(t[i])
  <2>1. CASE i \in 1..Len(s)
    <3>1. PICK j \in 1..i : s[j] = RootOf(s[i])
      BY <1>1, <1>3, <2>1 DEF Resting
    <3>2. t[j] = s[j] /\ t[i] = s[i]
      BY <1>1, <1>2, <2>1
    <3>3. QED
      BY <3>1, <3>2
  <2>2. CASE i = Len(s) + 1
    <3>1. s # <<>> /\ s[Len(s)].page \notin OpenPages /\ RootOf(r) = RootOf(s[Len(s)])
      BY <1>1, <1>3, <2>2
    <3>2. Len(s) \in 1..Len(s)
      BY <1>2, <3>1, EmptySeq
    <3>3. PICK j \in 1..Len(s) : s[j] = RootOf(s[Len(s)])
      BY <3>1, <3>2 DEF Resting
    <3>4. t[j] = RootOf(t[i]) /\ j \in 1..i
      BY <1>1, <1>2, <2>2, <3>1, <3>3
    <3>5. QED
      BY <3>4
  <2>3. QED
    BY <1>1, <1>2, <2>1, <2>2
<1>4. QED
  BY <1>3 DEF Resting

(* Replacing the page on top by a page that needs no other below it.        *)
LEMMA ReplaceRests ==
  ASSUME NEW s \in Seq(Routes), Resting(s), s # <<>>, NEW r \in Routes,
         r.page \in OpenPages \/ r = RootOf(r)
  PROVE  Resting([s EXCEPT ![Len(s)] = r])
<1> DEFINE t == [s EXCEPT ![Len(s)] = r]  n == Len(s)
<1>1. n \in Nat \ {0} /\ n \in 1..n
  BY LenProperties, EmptySeq
<1>2. Len(t) = n /\ \A j \in 1..n : t[j] = IF j = n THEN r ELSE s[j]
  BY <1>1, ExceptSeq
<1>3. ASSUME NEW i \in 1..n, t[i].page \notin OpenPages
      PROVE  \E j \in 1..i : t[j] = RootOf(t[i])
  <2>1. CASE i = n
    BY <1>1, <1>2, <1>3, <2>1
  <2>2. CASE i # n
    <3>1. PICK j \in 1..i : s[j] = RootOf(s[i])
      BY <1>2, <1>3, <2>2 DEF Resting
    <3>2. j \in 1..n /\ j # n
      BY <1>1, <2>2, <3>1
    <3>3. QED
      BY <1>2, <2>2, <3>1, <3>2
  <2>3. QED
    BY <2>1, <2>2
<1>4. QED
  BY <1>2, <1>3 DEF Resting

(* What is left below the page on top.                                      *)
LEMMA PopProperties ==
  ASSUME NEW s \in Seq(Routes), s # <<>>
  PROVE  /\ Len(s) - 1 \in Nat
         /\ SubSeq(s, 1, Len(s) - 1) \in Seq(Routes)
         /\ Len(SubSeq(s, 1, Len(s) - 1)) = Len(s) - 1
         /\ \A i \in 1..Len(s) - 1 : SubSeq(s, 1, Len(s) - 1)[i] = s[i]
<1> DEFINE n == Len(s) - 1  t == SubSeq(s, 1, n)
<1>1. n \in Nat
  BY LenProperties, EmptySeq
<1>2. \A i \in 1..n : s[i] \in Routes
  BY <1>1, ElementOfSeq
<1>3. t \in Seq(Routes) /\ Len(t) = n /\ \A i \in 1..n : t[i] = s[i]
  <2> HIDE DEF n
  <2>1. 1 \in Int /\ n \in Int
    BY <1>1
  <2>2. /\ t \in Seq(Routes)
        /\ Len(t) = IF 1 <= n THEN n - 1 + 1 ELSE 0
        /\ \A i \in 1..n - 1 + 1 : t[i] = s[1 + i - 1]
    BY <1>2, <2>1, SubSeqProperties
  <2>3. QED
    BY <1>1, <2>2
<1>4. QED
  BY <1>1, <1>3

(* Popping the page on top: nothing rests on it.                            *)
LEMMA PopRests ==
  ASSUME NEW s \in Seq(Routes), Resting(s), s # <<>>
  PROVE  Resting(SubSeq(s, 1, Len(s) - 1))
<1> DEFINE n == Len(s) - 1  t == SubSeq(s, 1, n)
<1>1. n \in Nat /\ Len(s) = n + 1
  BY PopProperties
<1>2. Len(t) = n /\ \A i \in 1..n : t[i] = s[i]
  BY PopProperties
<1>3. ASSUME NEW i \in 1..n, t[i].page \notin OpenPages
      PROVE  \E j \in 1..i : t[j] = RootOf(t[i])
  <2>1. PICK j \in 1..i : s[j] = RootOf(s[i])
    BY <1>1, <1>2, <1>3 DEF Resting
  <2>2. j \in 1..n
    BY <1>1
  <2>3. QED
    BY <1>2, <2>1, <2>2
<1>4. QED
  BY <1>2, <1>3 DEF Resting

------------------------------------------------------------------------------
(* The splash screen rests on nothing.                                      *)
LEMMA InitInv == Init => IInv
<1> SUFFICES ASSUME Init PROVE IInv
  OBVIOUS
<1>1. Route("Splash", None) \in Routes
  BY RouteTypes DEF OpenPages, Dialogs
<1>2. stack \in Seq(Routes) /\ Len(stack) = 1 /\ stack[1] = Route("Splash", None)
  BY <1>1 DEF Init
<1>3. call \in [Calls -> CallTypes]
  BY DepthAssumption DEF Init, Idle, CallTypes, Kinds
<1>4. Resting(stack)
  BY <1>2 DEF Resting, Route, OpenPages, Dialogs
<1>5. QED
  BY <1>2, <1>3, <1>4, DepthAssumption DEF Init, IInv, TypeOK, CallTypes

(* A call that has returned or is started is a call.                        *)
LEMMA CallType ==
  ASSUME NEW c \in Calls, call \in [Calls -> CallTypes]
  PROVE  /\ Others(c) \in [Calls -> CallTypes]
         /\ \A kind \in Kinds : \A at \in 0..MaxDepth :
               [call EXCEPT ![c] = [kind |-> kind, at |-> at, gone |-> FALSE]] \in [Calls -> CallTypes]
<1>1. Idle \in CallTypes
  BY DepthAssumption DEF Idle, CallTypes
<1>2. ASSUME NEW kind \in Kinds, NEW at \in 0..MaxDepth
      PROVE  [kind |-> kind, at |-> at, gone |-> FALSE] \in CallTypes
  BY DEF CallTypes
<1>3. QED
  BY <1>1, <1>2 DEF Others

(* The three moves keep IInv, whoever makes them.                           *)
LEMMA PushStep ==
  ASSUME IInv, NEW page, NEW user, Push(page, user), Route(page, user) \in Routes,
         \/ page \in OpenPages
         \/ /\ stack # <<>> /\ Top.page \notin OpenPages
            /\ RootOf(Route(page, user)) = RootOf(Top)
  PROVE  stack' \in Stacks /\ Resting(stack')
<1>1. stack \in Seq(Routes) /\ Resting(stack) /\ Len(stack) \in Nat
  BY LenProperties DEF IInv, TypeOK
<1>2. Route(page, user).page = page
  BY DEF Route
<1>3. Resting(Append(stack, Route(page, user)))
  BY <1>1, <1>2, AppendRests DEF Top
<1>4. /\ Append(stack, Route(page, user)) \in Seq(Routes)
      /\ Len(Append(stack, Route(page, user))) = Len(stack) + 1
  BY <1>1, AppendProperties
<1>5. QED
  BY <1>1, <1>3, <1>4, DepthAssumption DEF Push, Stacks

LEMMA ReplaceStep ==
  ASSUME IInv, NEW page, NEW user, NEW calls \in [Calls -> CallTypes],
         ReplaceTop(page, user, calls), Route(page, user) \in Routes,
         page \in OpenPages \cup {"Home", "AdminHome"}
  PROVE  stack' \in Stacks /\ Resting(stack') /\ call' \in [Calls -> CallTypes]
<1> DEFINE r == Route(page, user)
<1>1. stack \in Seq(Routes) /\ Len(stack) <= MaxDepth /\ Resting(stack) /\ stack # <<>>
  BY DEF IInv, TypeOK, ReplaceTop
<1>2. r.page \in OpenPages \/ r = RootOf(r)
  <2>1. r.page = page /\ r.user = user
    BY DEF Route
  <2>2. "Home" \in UserPages /\ "AdminHome" \notin UserPages
    BY DEF UserPages
  <2>3. page = "AdminHome" => user = None
    BY <2>1, <2>2, RouteKinds
  <2>4. QED
    BY <2>1, <2>2, <2>3 DEF RootOf
<1>3. Resting([stack EXCEPT ![Len(stack)] = r])
  BY <1>1, <1>2, ReplaceRests
<1>4. Len(stack) \in 1..Len(stack)
  BY <1>1, EmptySeq
<1>5. /\ [stack EXCEPT ![Len(stack)] = r] \in Seq(Routes)
      /\ Len([stack EXCEPT ![Len(stack)] = r]) = Len(stack)
  BY <1>1, <1>4, ExceptSeq
<1>6. call' \in [Calls -> CallTypes]
  BY DepthAssumption DEF ReplaceTop, Leave, CallTypes
<1>7. QED
  BY <1>1, <1>3, <1>5, <1>6 DEF ReplaceTop, Stacks

LEMMA PopStep ==
  ASSUME IInv, NEW calls \in [Calls -> CallTypes], PopTop(calls)
  PROVE  stack' \in Stacks /\ Resting(stack') /\ call' \in [Calls -> CallTypes]
<1>1. stack \in Seq(Routes) /\ Len(stack) <= MaxDepth /\ Resting(stack) /\ stack # <<>>
  BY DEF IInv, TypeOK, PopTop
<1>2. stack' \in Seq(Routes) /\ Len(stack') = Len(stack) - 1 /\ Resting(stack')
  BY <1>1, PopProperties, PopRests DEF PopTop
<1>3. call' \in [Calls -> CallTypes]
  BY DepthAssumption DEF PopTop, Leave, CallTypes
<1>4. QED
  BY <1>1, <1>2, <1>3, LenProperties, DepthAssumption DEF Stacks

(* What lies below the route on top, with its own top replaced.             *)
LEMMA ConfirmStep ==
  ASSUME IInv, ConfirmLink, "Login" \in OpenPages
  PROVE  /\ stack' \in Stacks /\ Resting(stack') /\ Len(stack') # 0
         /\ call' \in [Calls -> CallTypes]
<1> DEFINE below == SubSeq(stack, 1, Len(stack) - 1)  r == Route("Login", None)
<1>1. /\ stack \in Seq(Routes) /\ Len(stack) <= MaxDepth /\ Resting(stack)
      /\ Len(stack) > 1 /\ Len(stack) \in Nat /\ stack # <<>>
      /\ call \in [Calls -> CallTypes]
  BY LenProperties, EmptySeq DEF IInv, TypeOK, ConfirmLink, CallTypes
<1>2. below \in Seq(Routes) /\ Len(below) = Len(stack) - 1 /\ Resting(below)
  BY <1>1, PopProperties, PopRests
<1>3. r \in Routes /\ r.page \in OpenPages
  BY RouteTypes DEF Route
<1>4. below # <<>> /\ Len(below) \in 1..Len(below)
  <2>1. PICK n \in Nat : n = Len(stack) - 1 /\ n >= 1
    BY <1>1
  <2>2. Len(below) = n
    BY <1>2, <2>1
  <2> HIDE DEF below
  <2>3. QED
    BY <2>1, <2>2
<1>5. Resting([below EXCEPT ![Len(below)] = r])
  BY <1>2, <1>3, <1>4, ReplaceRests
<1>6. /\ [below EXCEPT ![Len(below)] = r] \in Seq(Routes)
      /\ Len([below EXCEPT ![Len(below)] = r]) = Len(below)
  BY <1>2, <1>3, <1>4, ExceptSeq
<1>7. stack' = [below EXCEPT ![Len(below)] = r]
  BY DEF ConfirmLink
<1>8. call' \in [Calls -> CallTypes]
  BY <1>1, DepthAssumption DEF ConfirmLink, Leave, CallTypes
<1>9. QED
  BY <1>1, <1>2, <1>5, <1>6, <1>7, <1>8, DepthAssumption DEF Stacks

(* Nothing that happens to the stack separates a page from its root.        *)
LEMMA InvStep == IInv /\ [Next]_vars => IInv'
<1> SUFFICES ASSUME IInv, [Next]_vars
             PROVE  /\ stack' \in Stacks /\ Resting(stack')
                    /\ session' \in Users \cup {None}
                    /\ call' \in [Calls -> CallTypes]
  BY DEF IInv, TypeOK, Stacks, Resting, RootOf, Route, CallTypes
<1> DEFINE StackOK == stack' \in Stacks /\ Resting(stack')
           CallOK == call' \in [Calls -> CallTypes]
           Goal == StackOK /\ session' \in Users \cup {None} /\ CallOK
<1>a. /\ stack \in Stacks /\ Resting(stack) /\ session \in Users \cup {None}
      /\ call \in [Calls -> CallTypes]
  BY DEF IInv, TypeOK, Stacks, CallTypes
<1>b. Len(stack) \in 0..MaxDepth
  BY <1>a, LenProperties, DepthAssumption DEF Stacks
<1>c. \A c \in Calls : Others(c) \in [Calls -> CallTypes]
  BY <1>a, CallType
<1>d. ASSUME NEW c \in Calls, NEW kind \in Kinds, Start(c, kind)
      PROVE  CallOK
  BY <1>a, <1>b, <1>d, CallType DEF Start
<1>e. \A page \in OpenPages \cup {"AdminHome"} : Route(page, None) \in Routes
  BY RouteTypes DEF AdminPages
<1>f. \A u \in Users : Route("Home", u) \in Routes
  BY RouteTypes DEF UserPages
<1>g. ASSUME NEW page \in OpenPages \cup {"AdminHome"}, NEW calls \in [Calls -> CallTypes],
             ReplaceTop(page, None, calls)
      PROVE  StackOK /\ CallOK
  BY <1>e, <1>g, ReplaceStep
<1>h. {"Splash", "Login", "SignUp", "OTP", "Forgot", "Dialog", "SignedUp", "Linked"} = OpenPages
  BY DEF OpenPages, Dialogs
<1>i. ASSUME NEW page \in OpenPages, Push(page, None) PROVE StackOK
  BY <1>e, <1>i, PushStep
<1>j. ASSUME NEW c \in Calls, NEW dialog \in OpenPages, Show(dialog, c) \/ Lost(c)
      PROVE  StackOK /\ CallOK
  BY <1>a, <1>c, <1>i, <1>j DEF Show, Lost
<1>1. ASSUME NEW page \in UserPages \cup AdminPages, Tap(page) PROVE Goal
  <2>1. stack # <<>> /\ page \in Targets(Top.page) /\ Push(page, Top.user)
    BY <1>1 DEF Tap
  <2>2. Top \in Routes
    <3>1. Len(stack) \in 1..Len(stack)
      BY <1>a, <2>1, EmptySeq DEF Stacks
    <3>2. QED
      BY <1>a, <3>1, ElementOfSeq DEF Stacks, Top
  <2>3. \/ page \in UserPages /\ Top.page \in UserPages /\ Top.user \in Users
        \/ page \in AdminPages /\ Top.page \in AdminPages /\ Top.user = None
    BY <2>1, <2>2, RouteKinds, TargetKinds, PageKinds
  <2>4. Route(page, Top.user) \in Routes
    BY <2>3, RouteTypes
  <2>5. RootOf(Route(page, Top.user)) = RootOf(Top) /\ Top.page \notin OpenPages
    BY <2>3, PageKinds DEF RootOf, Route
  <2>6. StackOK
    BY <2>1, <2>4, <2>5, PushStep
  <2>7. QED
    BY <1>1, <1>a, <2>6 DEF Tap
<1>2. CASE TapLoginLink \/ OpenDialog
  BY <1>2, <1>a, <1>h, <1>i DEF TapLoginLink, OpenDialog
<1>3. CASE ConfirmLink
  <2>1. StackOK /\ CallOK
    BY <1>3, <1>h, ConfirmStep
  <2>2. QED
    BY <1>3, <1>a, <2>1 DEF ConfirmLink
<1>4. CASE TapSignUpOrForgot \/ ConfirmSignUp \/ AdminLogin
  <2>1. \E page \in OpenPages \cup {"AdminHome"} : ReplaceTop(page, None, call)
    BY <1>4, <1>h DEF TapSignUpOrForgot, ConfirmSignUp, AdminLogin
  <2>2. UNCHANGED session
    BY <1>4 DEF TapSignUpOrForgot, ConfirmSignUp, AdminLogin
  <2>3. QED
    BY <1>a, <1>g, <2>1, <2>2
<1>5. CASE Back
  BY <1>5, <1>a, PopStep DEF Back
<1>6. ASSUME NEW c \in Calls, Relaunch(c) PROVE Goal
  <2>1. stack' \in Seq(Routes) /\ Len(stack') = 1 /\ stack'[1].page \in OpenPages
    BY <1>6, <1>e, <1>h DEF Relaunch, Route
  <2>2. StackOK
    <3>1. stack' \in Stacks
      BY <2>1, DepthAssumption DEF Stacks
    <3>2. \A i \in 1..Len(stack') : stack'[i].page \in OpenPages
      BY <2>1
    <3>3. QED
      BY <3>1, <3>2 DEF Resting
  <2>3. CallOK
    BY <1>6, DepthAssumption DEF Relaunch, Idle, CallTypes, Kinds
  <2>4. QED
    BY <1>6, <1>a, <2>2, <2>3 DEF Relaunch
<1>7. ASSUME NEW c \in Calls, SplashOver(c) PROVE Goal
  <2>1. CASE ReplaceTop("Login", None, Others(c))
    BY <1>7, <1>a, <1>c, <1>g, <1>h, <2>1 DEF SplashOver
  <2>2. QED
    BY <1>7, <1>a, <1>c, <2>1 DEF SplashOver, Lost
<1>8. ASSUME NEW c \in Calls,
             TapLogin(c) \/ TapSignUp(c) \/ TapVerify(c) \/ TapLogout(c) \/ TapReset(c)
      PROVE  Goal
  <2>1. \E kind \in Kinds : Start(c, kind)
    BY <1>8 DEF TapLogin, TapSignUp, TapVerify, TapLogout, TapReset, Kinds
  <2>2. UNCHANGED <<stack, session>>
    BY <1>8 DEF TapLogin, TapSignUp, TapVerify, TapLogout, TapReset
  <2>3. QED
    BY <1>a, <1>d, <2>1, <2>2
<1>9. ASSUME NEW c \in Calls, ResetFails(c) PROVE Goal
  BY <1>9, <1>a, <1>c DEF ResetFails
<1>10. ASSUME NEW c \in Calls, NEW u \in Users, LoginReturns(c, u) PROVE Goal
  <2>1. CASE ReplaceTop("Home", u, Others(c))
    BY <1>10, <1>c, <1>f, <2>1, ReplaceStep DEF LoginReturns
  <2>2. QED
    BY <1>10, <1>a, <1>c, <2>1 DEF LoginReturns, Lost
<1>11. ASSUME NEW c \in Calls, LogoutReturns(c) PROVE Goal
  <2>1. CASE ReplaceTop("Login", None, Others(c))
    BY <1>11, <1>c, <1>g, <1>h, <2>1 DEF LogoutReturns
  <2>2. QED
    BY <1>11, <1>a, <1>c, <2>1 DEF LogoutReturns, Lost
<1>12. ASSUME NEW c \in Calls, ResetReturns(c) PROVE Goal
  <2>1. CASE PopTop(Others(c))
    BY <1>12, <1>a, <1>c, <2>1, PopStep DEF ResetReturns
  <2>2. QED
    BY <1>12, <1>a, <1>c, <2>1 DEF ResetReturns, Lost
<1>13. ASSUME NEW c \in Calls, NEW u \in Users, RegisterReturns(c, u) PROVE Goal
  BY <1>13, <1>h, <1>j DEF RegisterReturns
<1>14. ASSUME NEW c \in Calls, VerifyReturns(c) \/ CallFails(c) PROVE Goal
  <2>1. StackOK /\ CallOK
    BY <1>14, <1>h, <1>j DEF VerifyReturns, CallFails
  <2>2. QED
    BY <1>14, <1>a, <2>1 DEF VerifyReturns, CallFails
<1>15. CASE UNCHANGED vars
  BY <1>15, <1>a DEF vars
<1>16. QED
  BY <1>1, <1>2, <1>3, <1>4, <1>5, <1>6, <1>7, <1>8, <1>9, <1>10, <1>11, <1>12, <1>13, <1>14,
     <1>15 DEF Next

(* The navigator never mixes up what the stack may hold. *)
LEMMA Invariance == Spec => []IInv
  BY InitInv, InvStep, PTL DEF Spec

(* The stack holds pages of the app with the user they need and no others,  *)
(* and the waiting calls know a depth that the stack can have.              *)
THEOREM TypeCorrect == Spec => []TypeOK
  BY Invariance, PTL DEF IInv

(* However late a login, a logout or a reset returns and whatever page it    *)
(* then replaces or pops, no page is left without the home page it was      *)
(* opened from: a page is handed its user along one sign-in.                *)
THEOREM PagesRestOnSignInHolds == Spec => []PagesRestOnSignIn
<1>1. IInv => PagesRestOnSignIn
  BY DEF IInv, Resting, RootOf, PagesRestOnSignIn
<1>2. QED
  BY Invariance, <1>1, PTL

(* A stack with pages is only emptied by a pop that is not the back button.  *)
LEMMA BlankStep ==
  IInv /\ [Next]_vars =>
    (stack # <<>> /\ stack' = <<>> =>
        \E c \in Calls : call[c].kind = "reset" /\ call'[c].kind = "idle")
<1> SUFFICES ASSUME IInv, [Next]_vars, stack # <<>>, stack' = <<>>
             PROVE  \E c \in Calls : call[c].kind = "reset" /\ call'[c].kind = "idle"
  OBVIOUS
<1>a. stack \in Seq(Routes) /\ Len(stack) \in Nat \ {0} /\ Len(stack) \in 1..Len(stack)
  BY EmptySeq DEF IInv, TypeOK
<1>1. ASSUME NEW page, NEW user PROVE ~Push(page, user)
  BY <1>a DEF Push
<1>2. ASSUME NEW page, NEW user, NEW calls, Route(page, user) \in Routes
      PROVE  ~ReplaceTop(page, user, calls)
  <2>1. Len([stack EXCEPT ![Len(stack)] = Route(page, user)]) = Len(stack)
    BY <1>2, <1>a, ExceptSeq
  <2>2. QED
    BY <1>a, <2>1 DEF ReplaceTop
<1>3. /\ \A page \in {"Splash", "Login", "SignUp", "OTP", "Forgot", "AdminHome"} :
            Route(page, None) \in Routes
      /\ \A u \in Users : Route("Home", u) \in Routes
  BY RouteTypes DEF OpenPages, AdminPages, UserPages
<1>4. stack' # stack
  OBVIOUS
<1>5. ASSUME NEW page, Tap(page) PROVE FALSE
  BY <1>1, <1>5 DEF Tap
<1>6. CASE TapLoginLink \/ OpenDialog
  BY <1>1, <1>6 DEF TapLoginLink, OpenDialog
<1>7. CASE TapSignUpOrForgot \/ ConfirmSignUp \/ AdminLogin
  BY <1>2, <1>3, <1>7 DEF TapSignUpOrForgot, ConfirmSignUp, AdminLogin
<1>b. ASSUME ConfirmLink PROVE FALSE
  <2>1. "Login" \in OpenPages
    BY DEF OpenPages, Dialogs
  <2>2. Len(stack') # 0
    BY <1>b, <2>1, ConfirmStep, Zenon
  <2>3. QED
    BY <2>2
<1>8. ASSUME Back PROVE FALSE
  <2>1. PICK n \in Nat : n = Len(stack)
    BY <1>a
  <2>2. n > 1 /\ Len(stack') = n - 1
    BY <1>8, <1>a, <2>1, PopProperties DEF Back, PopTop
  <2>3. Len(stack') = 0
    OBVIOUS
  <2>4. QED
    BY <2>2, <2>3
<1>9. ASSUME NEW c \in Calls, Relaunch(c) PROVE FALSE
  <2>1. stack' = <<Route("Splash", None)>>
    BY <1>9 DEF Relaunch
  <2>2. Len(stack') = 1 /\ Len(stack') = 0
    BY <2>1
  <2>3. QED
    BY <2>2
<1>10. ASSUME NEW c \in Calls,
              \/ SplashOver(c) \/ LogoutReturns(c) \/ \E u \in Users : LoginReturns(c, u)
       PROVE  FALSE
  BY <1>2, <1>3, <1>4, <1>10 DEF SplashOver, LogoutReturns, LoginReturns, Lost
<1>11. ASSUME NEW c \in Calls,
              \/ TapLogin(c) \/ TapSignUp(c) \/ TapVerify(c) \/ TapLogout(c) \/ TapReset(c)
              \/ ResetFails(c) \/ VerifyReturns(c) \/ CallFails(c)
              \/ \E u \in Users : RegisterReturns(c, u)
       PROVE  FALSE
  BY <1>1, <1>4, <1>11 DEF TapLogin, TapSignUp, TapVerify, TapLogout, TapReset, ResetFails,
                          VerifyReturns, CallFails, RegisterReturns, Show, Lost
<1>12. ASSUME NEW c \in Calls, ResetReturns(c)
       PROVE  call[c].kind = "reset" /\ call'[c].kind = "idle"
  <2>1. call[c].kind = "reset" /\ PopTop(Others(c))
    BY <1>4, <1>12 DEF ResetReturns, Lost
  <2>2. Others(c)[c] = Idle
    BY DEF Others, IInv, TypeOK
  <2>3. call'[c] \in {Idle, [Idle EXCEPT !.gone = TRUE]}
    BY <2>1, <2>2 DEF PopTop, Leave
  <2>4. QED
    BY <2>1, <2>3 DEF Idle
<1>13. CASE UNCHANGED vars
  BY <1>4, <1>13 DEF vars
<1>14. QED
  BY <1>5, <1>6, <1>7, <1>b, <1>8, <1>9, <1>10, <1>11, <1>12, <1>13 DEF Next

(* The user loses the last page to the return of a password reset only, the  *)
(* one pop that forgot_password.dart makes after an await without looking.  *)
THEOREM OnlyResetBlanksHolds == Spec => OnlyResetBlanks
<1>1. IInv /\ [Next]_vars =>
         [stack # <<>> /\ stack' = <<>> =>
            \E c \in Calls : call[c].kind = "reset" /\ call'[c].kind = "idle"]_vars
  BY BlankStep
<1>2. QED
  BY Invariance, <1>1, PTL DEF Spec, OnlyResetBlanks

=============================================================================
