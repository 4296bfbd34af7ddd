------------------------------- MODULE AppShell -------------------------------
(***************************************************************************)
(* The app around its pages: the gate that shows the login form or the     *)
(* tabs (AuthPage), the navigator's stack of routes, the sign-in calls     *)
(* that are under way, and the account and Users document of the one       *)
(* e-mail address the forms are filled in with.                            *)
(*                                                                         *)
(* A sign-in call is issued by a form, answered by Firebase, and continued *)
(* by the form's code after its await: three steps between which the user  *)
(* taps and frames are built.  The continuation pops whatever route is on  *)
(* top by then, or throws when its form is no longer mounted.  The drawer  *)
(* is no route: the pop before its pushNamed only closes it.               *)
(***************************************************************************)
EXTENDS Integers, Sequences

CONSTANTS Slots,        \* bound: sign-in calls under way at a time
          MaxStack,     \* bound: routes on the stack
          Schools,      \* entries of the school menu
          NoSchool

ASSUME ShellAssumption == NoSchool \notin Schools /\ MaxStack \in Nat /\ MaxStack >= 2

VARIABLES signed,       \* FirebaseAuth.instance.currentUser # null
          leaving,      \* a signOut() has been called and not yet taken effect
          account,      \* the address has a Firebase account
          profile,      \* its Users document: username there? which school?
          gate,         \* what AuthPage has built
          stack,        \* the navigator's routes, the visible one last
          calls,        \* sign-in calls under way
          abandoned     \* a loading circle was dismissed before its call ended

vars == <<signed, leaving, account, profile, gate, stack, calls, abandoned>>

DrawerTargets == {"Profile", "CreateAClub", "Home", "Search", "Volunteer", "Calendar", "Help"}

(* ChooseSchool was opened with a user signed in, ChooseSchoolAnon without *)
(* one: the page reads currentUser once, when it is created.               *)
Routes == DrawerTargets \cup
          {"AuthPage", "Loading", "Message", "ChooseSchool", "ChooseSchoolAnon",
           "ClubOutline", "Placeholder", "EventForm"}

NoCall == [kind |-> "none", answer |-> "waiting", mounted |-> FALSE]

Top == IF stack = << >> THEN "none" ELSE stack[Len(stack)]
HasGate(s) == s # << >> /\ s[1] = "AuthPage"

TypeOK ==
  /\ signed \in BOOLEAN /\ leaving \in BOOLEAN /\ account \in BOOLEAN
  /\ profile \in [name : BOOLEAN, school : Schools \cup {NoSchool}]
  /\ gate \in {"Login", "Register", "SideBar"}
  /\ stack \in Seq(Routes) /\ Len(stack) =< MaxStack
  /\ calls \in [Slots -> [kind : {"none", "login", "register", "google"},
                          answer : {"waiting", "ok", "failed"},
                          mounted : BOOLEAN]]
  /\ abandoned \in BOOLEAN

(* The app starts with whatever Firebase remembers; before the first event *)
(* of authStateChanges the gate shows the login form.                      *)
Init ==
  /\ signed \in BOOLEAN /\ leaving = FALSE
  /\ account \in BOOLEAN /\ (signed => account)
  /\ profile = [name |-> FALSE, school |-> NoSchool]
  /\ gate = "Login"
  /\ stack = <<"AuthPage">>
  /\ calls = [c \in Slots |-> NoCall]
  /\ abandoned = FALSE

-----------------------------------------------------------------------------
(* The navigator.                                                          *)

Pop(s) == SubSeq(s, 1, Len(s) - 1)
Push(s, r) == Append(s, r)

(* Mutant of Replace: push where pushReplacement is meant.                 *)
ReplaceByPush(s, r) == Append(s, r)

(* pushReplacement throws when there is no route to replace.               *)
Replace(s, r) == IF s = << >> THEN s ELSE Append(Pop(s), r)

(* A form is unmounted when the gate builds something else or AuthPage     *)
(* leaves the stack.                                                       *)
Unmounted == [c \in Slots |-> [calls[c] EXCEPT !.mounted = FALSE]]
CallsOver(s) == IF HasGate(s) THEN calls ELSE Unmounted

GoTo(s) == Len(s) =< MaxStack /\ stack' = s /\ calls' = CallsOver(s)

(* What the visible route shows; the tabs hold home, search, volunteer and *)
(* calendar page together.                                                 *)
OnForm(form) == Top = "AuthPage" /\ gate = form
OnTabs == Top = "AuthPage" /\ gate = "SideBar"
OnHome == Top = "Home" \/ OnTabs
OnSearch == Top = "Search" \/ OnTabs
OnVolunteer == Top = "Volunteer" \/ OnTabs
OnCalendar == Top = "Calendar" \/ OnTabs
OnClub == Top = "ClubOutline"

HasDrawer == OnHome \/ OnSearch \/ OnVolunteer \/ OnCalendar \/ OnClub

-----------------------------------------------------------------------------
(* The gate.                                                               *)

(* AuthPage's StreamBuilder builds after an auth event, under any route.   *)
AuthBuild ==
  /\ HasGate(stack)
  /\ \/ signed /\ gate # "SideBar" /\ gate' = "SideBar"
     \/ ~signed /\ gate = "SideBar" /\ gate' = "Login"
  /\ calls' = Unmounted
  /\ UNCHANGED <<signed, leaving, account, profile, stack, abandoned>>

togglePages ==
  /\ \/ OnForm("Login") /\ gate' = "Register"
     \/ OnForm("Register") /\ gate' = "Login"
  /\ calls' = Unmounted
  /\ UNCHANGED <<signed, leaving, account, profile, stack, abandoned>>

-----------------------------------------------------------------------------
(* Signing in and registering.                                             *)

Issue(c, kind) == [calls EXCEPT ![c] = [kind |-> kind, answer |-> "waiting", mounted |-> TRUE]]

(* Mutant of login: the circle does not come up before the call.           *)
LoginWithoutCircle(c) ==
  /\ OnForm("Login") /\ calls[c] = NoCall
  /\ calls' = Issue(c, "login")
  /\ UNCHANGED <<signed, leaving, account, profile, gate, stack, abandoned>>

(* login(), up to its await: the circle covers the form.                   *)
login(c) ==
  /\ OnForm("Login") /\ calls[c] = NoCall
  /\ stack' = Push(stack, "Loading")
  /\ calls' = Issue(c, "login")
  /\ UNCHANGED <<signed, leaving, account, profile, gate, abandoned>>

(* registerUser(), up to its await.                                        *)
registerUser(c) ==
  /\ OnForm("Register") /\ calls[c] = NoCall
  /\ stack' = Push(stack, "Loading")
  /\ calls' = Issue(c, "register")
  /\ UNCHANGED <<signed, leaving, account, profile, gate, abandoned>>

(* registerUser() with differing passwords: circle up, circle down,        *)
(* message, without a call.                                                *)
registerMismatch ==
  /\ OnForm("Register")
  /\ GoTo(Push(Pop(Push(stack, "Loading")), "Message"))
  /\ UNCHANGED <<signed, leaving, account, profile, gate, abandoned>>

signInWithGoogleFirebase(c) ==
  /\ OnForm("Login") /\ calls[c] = NoCall
  /\ calls' = Issue(c, "google")
  /\ UNCHANGED <<signed, leaving, account, profile, gate, stack, abandoned>>

(* Firebase accepts: a login needs an account, a registration needs that   *)
(* there is none, Google creates one when needed.  Nothing awaits Google's *)
(* result.                                                                 *)
Accept(c) ==
  /\ calls[c].kind # "none" /\ calls[c].answer = "waiting"
  /\ calls[c].kind = "login" => account
  /\ calls[c].kind = "register" => ~account
  /\ signed' = TRUE /\ account' = TRUE
  /\ calls' = [calls EXCEPT ![c] =
       IF @.kind = "google" THEN NoCall ELSE [@ EXCEPT !.answer = "ok"]]
  /\ UNCHANGED <<leaving, profile, gate, stack, abandoned>>

(* The server may have created the account although the app never hears.  *)
MayCreateAccount(c) ==
  calls[c].kind \in {"register", "google"} /\ calls[c].answer = "waiting"

(* Firebase refuses: wrong password, address in use, ...; or the network   *)
(* fails, before or after the server got the request.                      *)
Decline(c) ==
  /\ calls[c].kind # "none" /\ calls[c].answer = "waiting"
  /\ account' = account \/ (MayCreateAccount(c) /\ account' = TRUE)
  /\ calls' = [calls EXCEPT ![c] =
       IF @.kind = "google" THEN NoCall ELSE [@ EXCEPT !.answer = "failed"]]
  /\ UNCHANGED <<signed, leaving, profile, gate, stack, abandoned>>

Finish(c, s) ==
  /\ stack' = s
  /\ calls' = [CallsOver(s) EXCEPT ![c] = NoCall]

(* Mutant of loginContinue: an error pops the circle and, because the      *)
(* success path's pop is shared, pops once more.                           *)
LoginPopsTwice(c) ==
  /\ calls[c].kind = "login" /\ calls[c].answer # "waiting"
  /\ Finish(c, IF ~calls[c].mounted THEN stack
               ELSE IF calls[c].answer = "ok" THEN Pop(stack)
               ELSE Pop(Pop(stack)))
  /\ UNCHANGED <<signed, leaving, account, profile, gate, abandoned>>

(* Mutant of loginContinue: errors are not caught.                         *)
LoginUncaught(c) ==
  /\ calls[c].kind = "login" /\ calls[c].answer # "waiting"
  /\ Finish(c, IF calls[c].mounted /\ calls[c].answer = "ok" THEN Pop(stack) ELSE stack)
  /\ UNCHANGED <<signed, leaving, account, profile, gate, abandoned>>

(* login() after its await.  Reading `context` of an unmounted form throws *)
(* before anything is popped.                                              *)
loginContinue(c) ==
  /\ calls[c].kind = "login" /\ calls[c].answer # "waiting"
  /\ Finish(c, IF ~calls[c].mounted THEN stack
               ELSE IF calls[c].answer = "ok" THEN Pop(stack)
               ELSE Push(Pop(stack), "Message"))
  /\ UNCHANGED <<signed, leaving, account, profile, gate, abandoned>>

ChooseSchoolRoute == IF signed THEN "ChooseSchool" ELSE "ChooseSchoolAnon"

(* Mutant of registerContinue: an unmounted form returns after the await.  *)
RegisterIfMounted(c) ==
  /\ calls[c].kind = "register" /\ calls[c].answer # "waiting"
  /\ profile' = IF calls[c].mounted /\ calls[c].answer = "ok"
                THEN [name |-> TRUE, school |-> NoSchool] ELSE profile
  /\ Finish(c, IF ~calls[c].mounted THEN stack
               ELSE Replace(IF calls[c].answer = "ok" THEN Pop(stack)
                            ELSE Push(Pop(stack), "Message"),
                            ChooseSchoolRoute))
  /\ UNCHANGED <<signed, leaving, account, gate, abandoned>>

(* registerUser() after its await: on success the Users document is set    *)
(* (without merge) before the form's context is used; on failure a message *)
(* is shown; either way the top route is then replaced by ChooseSchool.    *)
registerContinue(c) ==
  /\ calls[c].kind = "register" /\ calls[c].answer # "waiting"
  /\ profile' = IF calls[c].answer = "ok" THEN [name |-> TRUE, school |-> NoSchool] ELSE profile
  /\ Finish(c, IF ~calls[c].mounted THEN stack
               ELSE Replace(IF calls[c].answer = "ok" THEN Pop(stack)
                            ELSE Push(Pop(stack), "Message"),
                            ChooseSchoolRoute))
  /\ UNCHANGED <<signed, leaving, account, gate, abandoned>>

-----------------------------------------------------------------------------
(* Navigating.                                                             *)

(* The back gesture, a tap beside a dialog, or a form's Cancel or Add: the *)
(* top route goes, unless it is the only one.                              *)
Back ==
  /\ Len(stack) > 1
  /\ GoTo(Pop(stack))
  /\ abandoned' = (abandoned \/ (Top = "Loading" /\ \E c \in Slots : calls[c].kind # "none"))
  /\ UNCHANGED <<signed, leaving, account, profile, gate>>

DrawerNav(r) ==
  /\ HasDrawer
  /\ GoTo(Push(stack, r))
  /\ UNCHANGED <<signed, leaving, account, profile, gate, abandoned>>

(* signOut() is called and not awaited.                                    *)
logout ==
  /\ HasDrawer
  /\ leaving' = TRUE
  /\ UNCHANGED <<signed, account, profile, gate, stack, calls, abandoned>>

SignedOut ==
  /\ leaving
  /\ leaving' = FALSE /\ signed' = FALSE
  /\ UNCHANGED <<account, profile, gate, stack, calls, abandoned>>

(* A club tile: "pop drawer", but no drawer is open, so that the page the  *)
(* tile is on goes, even AuthPage itself.                                  *)
ClubTileTap ==
  /\ OnHome \/ OnSearch
  /\ GoTo(Push(Pop(stack), "ClubOutline"))
  /\ UNCHANGED <<signed, leaving, account, profile, gate, abandoned>>

OpenEventForm ==
  /\ OnVolunteer \/ OnClub
  /\ GoTo(Push(stack, "EventForm"))
  /\ UNCHANGED <<signed, leaving, account, profile, gate, abandoned>>

(* CreateAClub: the back arrow, the button around Submit, and Submit.      *)
CreateAClubNav ==
  /\ Top = "CreateAClub"
  /\ \/ GoTo(Replace(stack, "Home"))
     \/ GoTo(Push(stack, "Placeholder"))
     \/ GoTo(Push(stack, "Home"))
  /\ UNCHANGED <<signed, leaving, account, profile, gate, abandoned>>

ChangeSchool ==
  /\ Top = "Help"
  /\ GoTo(Push(Pop(stack), ChooseSchoolRoute))
  /\ UNCHANGED <<signed, leaving, account, profile, gate, abandoned>>

(* Mutant of saveSchoolToFirestore: a set without merge.                   *)
SaveSchoolUnmerged(s) ==
  /\ Top = "ChooseSchool"
  /\ profile' = [name |-> FALSE, school |-> s]
  /\ UNCHANGED <<signed, leaving, account, gate, stack, calls, abandoned>>

(* Picking a school: merged into the Users document, unless the page was   *)
(* created without a user.                                                 *)
saveSchoolToFirestore(s) ==
  /\ Top = "ChooseSchool"
  /\ profile' = [profile EXCEPT !.school = s]
  /\ UNCHANGED <<signed, leaving, account, gate, stack, calls, abandoned>>

ChooseSchoolNext ==
  /\ Top \in {"ChooseSchool", "ChooseSchoolAnon"}
  /\ GoTo(Replace(stack, "Home"))
  /\ UNCHANGED <<signed, leaving, account, profile, gate, abandoned>>

(* The process is killed and started again.  Calls under way get no        *)
(* continuation, though Firebase may still have created the account.       *)
Relaunch ==
  /\ stack' = <<"AuthPage">> /\ gate' = "Login"
  /\ calls' = [c \in Slots |-> NoCall]
  /\ abandoned' = FALSE /\ leaving' = FALSE
  /\ \/ account' = account
     \/ (\E c \in Slots : MayCreateAccount(c)) /\ account' = TRUE
  /\ UNCHANGED <<signed, profile>>

-----------------------------------------------------------------------------
Call(c) ==
  \/ login(c) \/ registerUser(c) \/ signInWithGoogleFirebase(c)
  \/ Accept(c) \/ Decline(c)
  \/ loginContinue(c) \/ registerContinue(c)

UserNav ==
  \/ togglePages \/ registerMismatch
  \/ Back \/ logout \/ ClubTileTap \/ OpenEventForm
  \/ CreateAClubNav \/ ChangeSchool \/ ChooseSchoolNext
  \/ \E r \in DrawerTargets : DrawerNav(r)
  \/ \E s \in Schools : saveSchoolToFirestore(s)

Next ==
  \/ AuthBuild \/ SignedOut \/ Relaunch \/ UserNav
  \/ \E c \in Slots : Call(c)

(* Frames are built, signOut completes, Firebase answers in the end (its   *)
(* calls time out) and Dart runs the continuations.                        *)
Fairness ==
  /\ WF_vars(AuthBuild) /\ WF_vars(SignedOut)
  /\ \A c \in Slots : /\ WF_vars(Accept(c) \/ Decline(c))
                      /\ WF_vars(loginContinue(c) \/ registerContinue(c))

Spec == Init /\ [][Next]_vars /\ Fairness

-----------------------------------------------------------------------------
(* Properties.                                                             *)

IsFormCall(c) == calls[c].kind \in {"login", "register"}

(* As long as the user waits for the circle, a form whose call is under    *)
(* way is covered by that call's circle and nothing else, also after the   *)
(* gate has opened under it, so that the pop after the await takes the     *)
(* circle: with logins, registrations, Google sign-ins and auth events in  *)
(* any order.                                                              *)
CircleCoversForm ==
  ~abandoned => \A c \in Slots : IsFormCall(c) => stack = <<"AuthPage", "Loading">>

(* The navigator is never left without a route, unless the user dismissed  *)
(* a circle early: neither tiles that pop the page they are on nor         *)
(* continuations that pop and replace empty it.                            *)
NeverBlank == ~abandoned => stack # << >>

(* The Users document loses no field: the set without merge at the end of  *)
(* a registration comes before any school can be picked, and picking one   *)
(* merges.  (Unless a circle was dismissed early.)                         *)
ProfileKept ==
  [][~abandoned => /\ profile.name => profile'.name
                   /\ profile.school # NoSchool => profile'.school # NoSchool]_vars

IsRegistered(c) == calls[c].kind = "register" /\ calls[c].answer = "ok"

(* A registration the app has heard Firebase accept never ends without its *)
(* Users document, short of a kill: not when the auth event of that very   *)
(* registration unmounts the form before the code after the await runs,    *)
(* nor when the circle was dismissed, the form toggled away, or the user   *)
(* signed out meanwhile.                                                   *)
RegistrationDocumented ==
  [][\A c \in Slots :
       IsRegistered(c) /\ ~Relaunch => IsRegistered(c)' \/ profile'.name]_vars

(* The circle never stays over a form for good: as long as a form waits    *)
(* under it, either Firebase's answer takes it away or the sign-in opens   *)
(* the gate, whichever calls were abandoned, overtaken or declined before. *)
FormFreed ==
  \A c \in Slots :
    (IsFormCall(c) /\ calls[c].mounted) ~> (Top # "Loading" \/ gate = "SideBar")

-----------------------------------------------------------------------------
(* What comments and texts of the app say, and the code does not do.       *)

(* "pop loading circle": when a call has ended, so has its circle.         *)
CircleEndsWithCall ==
  (\A c \in Slots : ~IsFormCall(c)) => \A i \in 1 .. Len(stack) : stack[i] # "Loading"
=============================================================================
