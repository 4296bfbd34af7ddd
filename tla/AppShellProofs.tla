---------------------------- MODULE AppShellProofs ----------------------------
(***************************************************************************)
(* Proofs about the app shell, for any number of sign-in calls, any depth  *)
(* of the navigator and any list of schools.                               *)
(*                                                                         *)
(* CircleCoversForm is not inductive: that the continuation of one call    *)
(* leaves no other call uncovered needs OneFormCall; that a form's circle  *)
(* lands on the bare gate needs GateAtBottom.  That a registration's set   *)
(* erases no school needs FreshProfile, which in turn needs that a school  *)
(* can only have been saved for an account that exists (AccountKnown).     *)
(***************************************************************************)
EXTENDS AppShell, SequenceTheorems, TLAPS

(* AuthPage lies at the bottom of the stack and nowhere else.              *)
GateAtBottom == \A i \in 2 .. Len(stack) : stack[i] # "AuthPage"

(* At most one form call is under way, unless a circle was dismissed.      *)
OneFormCall ==
  ~abandoned => \A c1, c2 \in Slots : IsFormCall(c1) /\ IsFormCall(c2) => c1 = c2

(* Signed in, with a school saved, or on a page that can save one: the     *)
(* account exists.                                                         *)
AccountKnown ==
  /\ signed => account
  /\ profile.school # NoSchool => account
  /\ \A i \in 1 .. Len(stack) : stack[i] = "ChooseSchool" => account

(* When a registration has succeeded and its document is still to be set,  *)
(* no school is there to be lost.                                          *)
FreshProfile ==
  ~abandoned => \A c \in Slots :
    calls[c].kind = "register" /\ calls[c].answer = "ok" => profile.school = NoSchool

(* The inductive invariant.                                                *)
IInv ==
  /\ TypeOK /\ GateAtBottom
  /\ CircleCoversForm /\ OneFormCall /\ NeverBlank
  /\ AccountKnown /\ FreshProfile

-----------------------------------------------------------------------------
(* The stack.                                                              *)

(* What every reachable stack is; a stands for the account.                *)
Sound(s, a) ==
  /\ s \in Seq(Routes)
  /\ \A i \in 2 .. Len(s) : s[i] # "AuthPage"
  /\ \A i \in 1 .. Len(s) : s[i] = "ChooseSchool" => a

(* Navigator.pop keeps a stack sound and takes one route.                  *)
LEMMA PopSound ==
  ASSUME NEW a, NEW s, Sound(s, a)
  PROVE /\ Sound(Pop(s), a)
        /\ s # << >> => Len(Pop(s)) = Len(s) - 1
        /\ s = << >> => Pop(s) = << >>
<1>1. s \in Seq(Routes) /\ Len(s) \in Nat
  BY DEF Sound
<1>2. CASE s = << >>
  <2>1. Len(s) = 0
    BY <1>2
  <2>2. Pop(s) = << >>
    BY <1>2, <2>1 DEF Pop
  <2> QED
    BY <1>2, <2>2
<1>3. CASE s # << >>
  <2>1. Len(s) >= 1
    BY <1>1, <1>3, EmptySeq
  <2>2. /\ Pop(s) \in Seq(Routes)
        /\ Len(Pop(s)) = Len(s) - 1
        /\ \A i \in 1 .. Len(s) - 1 : Pop(s)[i] = s[i]
    <3>1. \A i \in 1 .. Len(s) - 1 : s[i] \in Routes
      BY <1>1, <2>1
    <3>2. PICK n \in Int : n = Len(s) - 1
      BY <1>1
    <3>3. /\ SubSeq(s, 1, n) \in Seq(Routes)
          /\ Len(SubSeq(s, 1, n)) = IF 1 <= n THEN n - 1 + 1 ELSE 0
          /\ \A i \in 1 .. n - 1 + 1 : SubSeq(s, 1, n)[i] = s[1 + i - 1]
      <4>1. \A i \in 1 .. n : s[i] \in Routes
        BY <3>1, <3>2
      <4> QED
        BY <4>1, <3>2, SubSeqProperties
    <3>4. Pop(s) = SubSeq(s, 1, n)
      BY <3>2 DEF Pop
    <3> QED
      BY <1>1, <2>1, <3>2, <3>3, <3>4
  <2> QED
    BY <1>1, <1>3, <2>1, <2>2 DEF Sound
<1> QED
  BY <1>2, <1>3

(* Navigator.push of a route other than AuthPage keeps a stack sound.      *)
LEMMA PushSound ==
  ASSUME NEW a, NEW s, Sound(s, a),
         NEW r \in Routes \ {"AuthPage"}, r = "ChooseSchool" => a
  PROVE /\ Sound(Push(s, r), a)
        /\ Len(Push(s, r)) = Len(s) + 1
        /\ Push(s, r) # << >>
<1>1. s \in Seq(Routes) /\ Len(s) \in Nat
  BY DEF Sound
<1>2. /\ Push(s, r) \in Seq(Routes)
      /\ Len(Push(s, r)) = Len(s) + 1
      /\ \A i \in 1 .. Len(s) : Push(s, r)[i] = s[i]
      /\ Push(s, r)[Len(s) + 1] = r
  BY <1>1 DEF Push
<1>3. Push(s, r) # << >>
  BY <1>1, <1>2
<1> QED
  BY <1>1, <1>2, <1>3 DEF Sound

(* pushReplacement keeps a stack sound and as long as it was.              *)
LEMMA ReplaceSound ==
  ASSUME NEW a, NEW s, Sound(s, a),
         NEW r \in Routes \ {"AuthPage"}, r = "ChooseSchool" => a
  PROVE /\ Sound(Replace(s, r), a)
        /\ Len(Replace(s, r)) = Len(s)
        /\ s # << >> => Replace(s, r) # << >>
<1>1. s \in Seq(Routes) /\ Len(s) \in Nat
  BY DEF Sound
<1>2. CASE s = << >>
  BY <1>2 DEF Replace
<1>3. CASE s # << >>
  <2>1. Replace(s, r) = Push(Pop(s), r)
    BY <1>3 DEF Replace, Push
  <2>2. Sound(Pop(s), a) /\ Len(Pop(s)) = Len(s) - 1
    BY <1>3, PopSound
  <2>3. /\ Sound(Push(Pop(s), r), a)
        /\ Len(Push(Pop(s), r)) = Len(Pop(s)) + 1
        /\ Push(Pop(s), r) # << >>
    BY <2>2, PushSound
  <2> QED
    BY <1>1, <2>1, <2>2, <2>3
<1> QED
  BY <1>2, <1>3

-----------------------------------------------------------------------------
(* The calls.                                                              *)

CallRecords == [kind : {"none", "login", "register", "google"},
                answer : {"waiting", "ok", "failed"},
                mounted : BOOLEAN]
CallTable == [Slots -> CallRecords]

(* Unmounting forms changes neither the kind of a call nor its answer.     *)
LEMMA CallTables ==
  ASSUME calls \in CallTable, NEW s
  PROVE /\ Unmounted \in CallTable /\ CallsOver(s) \in CallTable
        /\ \A c \in Slots : /\ Unmounted[c].kind = calls[c].kind
                            /\ Unmounted[c].answer = calls[c].answer
                            /\ CallsOver(s)[c].kind = calls[c].kind
                            /\ CallsOver(s)[c].answer = calls[c].answer
<1>1. /\ Unmounted \in CallTable
      /\ \A c \in Slots : /\ Unmounted[c].kind = calls[c].kind
                          /\ Unmounted[c].answer = calls[c].answer
  BY DEF Unmounted, CallTable, CallRecords
<1> QED
  BY <1>1 DEF CallsOver

(* The empty slot is a call record.                                        *)
LEMMA NoCallType == NoCall \in CallRecords
BY DEF NoCall, CallRecords

(* Overwriting one slot leaves the others alone.                           *)
LEMMA OneCallChanged ==
  ASSUME calls \in CallTable, NEW c \in Slots, NEW r \in CallRecords,
         calls' = [calls EXCEPT ![c] = r]
  PROVE /\ calls' \in CallTable
        /\ calls'[c] = r
        /\ \A x \in Slots : x # c => calls'[x] = calls[x]
BY DEF CallTable

(* Wherever the user can tap something, no form call is under way, unless  *)
(* a circle was dismissed.                                                 *)
LEMMA TapMeansNoCall ==
  ASSUME IInv, Top # "Loading", ~abandoned
  PROVE \A c \in Slots : ~IsFormCall(c)
<1> SUFFICES ASSUME NEW c \in Slots, IsFormCall(c) PROVE FALSE
  OBVIOUS
<1>1. stack = <<"AuthPage", "Loading">>
  BY DEF IInv, CircleCoversForm
<1>2. stack # << >> /\ stack[Len(stack)] = "Loading"
  BY <1>1
<1> QED
  BY <1>2 DEF Top

(* The invariant makes the navigator's stack sound.                        *)
LEMMA StackSound ==
  ASSUME IInv
  PROVE Sound(stack, account)
BY DEF IInv, TypeOK, GateAtBottom, AccountKnown, Sound

-----------------------------------------------------------------------------
(* Steps that only navigate.                                               *)

(* A change of the stack while no form call needs its circle keeps the     *)
(* invariant.                                                              *)
LEMMA NavigationStep ==
  ASSUME IInv, NEW s, GoTo(s), Sound(s, account), s # << >>,
         UNCHANGED <<signed, leaving, account, profile, gate>>,
         abandoned' \in BOOLEAN, abandoned => abandoned',
         ~abandoned' => \A c \in Slots : ~IsFormCall(c)
  PROVE IInv'
<1>1. calls \in CallTable
  BY DEF IInv, TypeOK, CallTable, CallRecords
<1>2. /\ calls' \in CallTable
      /\ \A c \in Slots : calls'[c].kind = calls[c].kind /\ calls'[c].answer = calls[c].answer
  BY <1>1, CallTables DEF GoTo
<1>3. stack' = s /\ Len(stack') =< MaxStack
  BY DEF GoTo
<1>4. TypeOK'
  BY <1>2, <1>3 DEF IInv, TypeOK, CallTable, CallRecords, Sound
<1>5. GateAtBottom' /\ NeverBlank'
  BY <1>3 DEF GateAtBottom, NeverBlank, Sound
<1>6. CircleCoversForm' /\ OneFormCall'
  BY <1>2 DEF CircleCoversForm, OneFormCall, IsFormCall
<1>7. AccountKnown'
  BY <1>3 DEF IInv, AccountKnown, Sound
<1>8. FreshProfile'
  BY <1>2 DEF IInv, FreshProfile
<1> QED
  BY <1>4, <1>5, <1>6, <1>7, <1>8 DEF IInv

(* A tap that puts route r where the page was, or on top of it.            *)
LEMMA TapStep ==
  ASSUME IInv, Top # "none", Top # "Loading",
         NEW r \in Routes \ {"AuthPage"}, r = "ChooseSchool" => account,
         \/ GoTo(Push(stack, r))
         \/ GoTo(Push(Pop(stack), r))
         \/ GoTo(Replace(stack, r)),
         UNCHANGED <<signed, leaving, account, profile, gate, abandoned>>
  PROVE IInv'
<1>1. Sound(stack, account) /\ stack # << >>
  BY StackSound DEF Top
<1>2. Sound(Pop(stack), account)
  BY <1>1, PopSound
<1>3. ~abandoned => \A c \in Slots : ~IsFormCall(c)
  BY TapMeansNoCall
<1>4. abandoned' \in BOOLEAN /\ abandoned' = abandoned
  BY DEF IInv, TypeOK
<1>5. CASE GoTo(Push(stack, r))
  <2>1. Sound(Push(stack, r), account) /\ Push(stack, r) # << >>
    BY <1>1, PushSound
  <2> QED
    BY <1>3, <1>4, <1>5, <2>1, NavigationStep
<1>6. CASE GoTo(Push(Pop(stack), r))
  <2>1. Sound(Push(Pop(stack), r), account) /\ Push(Pop(stack), r) # << >>
    BY <1>2, PushSound
  <2> QED
    BY <1>3, <1>4, <1>6, <2>1, NavigationStep
<1>7. CASE GoTo(Replace(stack, r))
  <2>1. Sound(Replace(stack, r), account) /\ Replace(stack, r) # << >>
    BY <1>1, ReplaceSound
  <2> QED
    BY <1>3, <1>4, <1>7, <2>1, NavigationStep
<1> QED
  BY <1>5, <1>6, <1>7

(* The back gesture keeps the invariant: dismissing a needed circle is     *)
(* recorded in abandoned.                                                  *)
LEMMA BackStep ==
  ASSUME IInv, Back
  PROVE IInv'
<1>1. Sound(stack, account) /\ Len(stack) > 1
  BY StackSound DEF Back
<1>2. Sound(Pop(stack), account) /\ Pop(stack) # << >>
  <2>1. stack # << >>
    BY <1>1
  <2>2. Sound(Pop(stack), account) /\ Len(Pop(stack)) = Len(stack) - 1
    BY <1>1, <2>1, PopSound
  <2>3. Len(Pop(stack)) > 0
    BY <1>1, <2>2 DEF Sound
  <2> QED
    BY <2>2, <2>3
<1>3. abandoned' \in BOOLEAN /\ (abandoned => abandoned')
  BY DEF IInv, TypeOK, Back
<1>4. ~abandoned' => \A c \in Slots : ~IsFormCall(c)
  <2> SUFFICES ASSUME ~abandoned' PROVE \A c \in Slots : ~IsFormCall(c)
    OBVIOUS
  <2>1. ~abandoned /\ (Top # "Loading" \/ \A c \in Slots : calls[c].kind = "none")
    BY DEF Back
  <2>2. CASE Top # "Loading"
    BY <2>1, <2>2, TapMeansNoCall
  <2>3. CASE \A c \in Slots : calls[c].kind = "none"
    BY <2>3 DEF IsFormCall
  <2> QED
    BY <2>1, <2>2, <2>3
<1> QED
  BY <1>2, <1>3, <1>4, NavigationStep DEF Back

-----------------------------------------------------------------------------
(* Steps that leave the stack alone.                                       *)

(* A step that leaves the stack alone and starts no form call keeps the    *)
(* invariant.                                                              *)
LEMMA StillStep ==
  ASSUME IInv, stack' = stack, abandoned' = abandoned,
         signed' \in BOOLEAN, leaving' \in BOOLEAN, account' \in BOOLEAN,
         profile' \in [name : BOOLEAN, school : Schools \cup {NoSchool}],
         gate' \in {"Login", "Register", "SideBar"},
         calls' \in CallTable,
         account => account', signed' => account',
         profile'.school # NoSchool => account',
         \A c \in Slots : calls'[c].kind \in {"login", "register"} => IsFormCall(c),
         ~abandoned => \A c \in Slots :
           (calls'[c].kind = "register" /\ calls'[c].answer = "ok") => profile'.school = NoSchool
  PROVE IInv'
<1>1. TypeOK'
  BY DEF IInv, TypeOK, CallTable, CallRecords
<1>2. GateAtBottom' /\ NeverBlank'
  BY DEF IInv, GateAtBottom, NeverBlank
<1>3. \A c \in Slots : IsFormCall(c)' => IsFormCall(c)
  BY DEF IsFormCall
<1>4. CircleCoversForm'
  BY <1>3 DEF IInv, CircleCoversForm
<1>5. OneFormCall'
  BY <1>3 DEF IInv, OneFormCall
<1>6. AccountKnown'
  BY DEF IInv, AccountKnown
<1>7. FreshProfile'
  BY DEF FreshProfile
<1> QED
  BY <1>1, <1>2, <1>4, <1>5, <1>6, <1>7 DEF IInv

(* Auth events and the login/register switch keep the invariant.           *)
LEMMA GateStep ==
  ASSUME IInv, AuthBuild \/ togglePages
  PROVE IInv'
<1>1. calls \in CallTable
  BY DEF IInv, TypeOK, CallTable, CallRecords
<1>2. /\ calls' \in CallTable
      /\ \A c \in Slots : calls'[c].kind = calls[c].kind /\ calls'[c].answer = calls[c].answer
  BY <1>1, CallTables DEF AuthBuild, togglePages
<1>3. gate' \in {"Login", "Register", "SideBar"}
  BY DEF AuthBuild, togglePages
<1>4. UNCHANGED <<signed, leaving, account, profile, stack, abandoned>>
  BY DEF AuthBuild, togglePages
<1>5. \A c \in Slots : calls'[c].kind \in {"login", "register"} => IsFormCall(c)
  BY <1>2 DEF IsFormCall
<1>6. ~abandoned => \A c \in Slots :
        (calls'[c].kind = "register" /\ calls'[c].answer = "ok") => profile'.school = NoSchool
  BY <1>2, <1>4 DEF IInv, FreshProfile
<1>7. /\ signed' \in BOOLEAN /\ leaving' \in BOOLEAN /\ account' \in BOOLEAN
      /\ profile' \in [name : BOOLEAN, school : Schools \cup {NoSchool}]
      /\ (account => account') /\ (signed' => account')
      /\ (profile'.school # NoSchool => account')
  BY <1>4 DEF IInv, TypeOK, AccountKnown
<1> QED
  BY <1>2, <1>3, <1>4, <1>5, <1>6, <1>7, StillStep

(* Firebase's answers and a Google sign-in keep the invariant: a           *)
(* registration is only accepted for a new account, which has no school.   *)
LEMMA AnswerStep ==
  ASSUME IInv, NEW c \in Slots,
         Accept(c) \/ Decline(c) \/ signInWithGoogleFirebase(c)
  PROVE IInv'
<1>1. calls \in CallTable /\ calls[c] \in CallRecords
  BY DEF IInv, TypeOK, CallTable, CallRecords
<1>2. PICK r \in CallRecords :
        /\ calls' = [calls EXCEPT ![c] = r]
        /\ r.kind \in {"login", "register"} => r.kind = calls[c].kind
        /\ (r.kind = "register" /\ r.answer = "ok") => ~account
  <2>1. CASE Accept(c) \/ Decline(c)
    <3>1. CASE calls[c].kind = "google"
      BY <1>1, <2>1, <3>1, NoCallType DEF Accept, Decline, NoCall
    <3>2. CASE calls[c].kind # "google" /\ Accept(c)
      <4>1. [calls[c] EXCEPT !.answer = "ok"] \in CallRecords
        BY <1>1 DEF CallRecords
      <4>2. [calls[c] EXCEPT !.answer = "ok"].kind = calls[c].kind
        BY <1>1 DEF CallRecords
      <4> QED
        BY <3>2, <4>1, <4>2 DEF Accept
    <3>3. CASE calls[c].kind # "google" /\ Decline(c)
      <4>1. [calls[c] EXCEPT !.answer = "failed"] \in CallRecords
        BY <1>1 DEF CallRecords
      <4>2. /\ [calls[c] EXCEPT !.answer = "failed"].kind = calls[c].kind
            /\ [calls[c] EXCEPT !.answer = "failed"].answer = "failed"
        BY <1>1 DEF CallRecords
      <4> QED
        BY <3>3, <4>1, <4>2 DEF Decline
    <3> QED
      BY <2>1, <3>1, <3>2, <3>3
  <2>2. CASE signInWithGoogleFirebase(c)
    <3>1. [kind |-> "google", answer |-> "waiting", mounted |-> TRUE] \in CallRecords
      BY DEF CallRecords
    <3> QED
      BY <2>2, <3>1 DEF signInWithGoogleFirebase, Issue
  <2> QED
    BY <2>1, <2>2
<1>3. UNCHANGED <<leaving, profile, gate, stack, abandoned>>
  BY DEF Accept, Decline, signInWithGoogleFirebase
<1>4. /\ signed' \in BOOLEAN /\ account' \in BOOLEAN
      /\ (account => account') /\ (signed' => account')
  <2>1. CASE Accept(c)
    BY <2>1 DEF Accept
  <2>2. CASE Decline(c) \/ signInWithGoogleFirebase(c)
    <3>1. signed' = signed /\ (account' = account \/ account' = TRUE)
      BY <2>2 DEF Decline, signInWithGoogleFirebase
    <3> QED
      BY <3>1, Zenon DEF IInv, TypeOK, AccountKnown
  <2> QED
    BY <2>1, <2>2
<1>5. /\ leaving' \in BOOLEAN
      /\ profile' \in [name : BOOLEAN, school : Schools \cup {NoSchool}]
      /\ gate' \in {"Login", "Register", "SideBar"}
      /\ (profile'.school # NoSchool => account')
  BY <1>3, <1>4 DEF IInv, TypeOK, AccountKnown
<1>6. /\ calls' \in CallTable
      /\ calls'[c] = r
      /\ \A x \in Slots : x # c => calls'[x] = calls[x]
  BY <1>1, <1>2, OneCallChanged
<1>7. \A x \in Slots : calls'[x].kind \in {"login", "register"} => IsFormCall(x)
  BY <1>2, <1>6 DEF IsFormCall
<1>8. ~abandoned => \A x \in Slots :
        (calls'[x].kind = "register" /\ calls'[x].answer = "ok") => profile'.school = NoSchool
  <2> SUFFICES ASSUME ~abandoned, NEW x \in Slots,
                      calls'[x].kind = "register", calls'[x].answer = "ok"
               PROVE profile.school = NoSchool
    BY <1>3
  <2>1. CASE x = c
    BY <1>2, <1>6, <2>1 DEF IInv, AccountKnown
  <2>2. CASE x # c
    BY <1>6, <2>2 DEF IInv, FreshProfile
  <2> QED
    BY <2>1, <2>2
<1> QED
  BY <1>3, <1>4, <1>5, <1>6, <1>7, <1>8, StillStep

(* Signing out keeps the invariant.                                        *)
LEMMA LogoutStep ==
  ASSUME IInv, logout \/ SignedOut
  PROVE IInv'
<1>1. UNCHANGED <<account, profile, gate, stack, calls, abandoned>>
  BY DEF logout, SignedOut
<1>2. /\ signed' \in BOOLEAN /\ leaving' \in BOOLEAN
      /\ (signed' => signed)
  <2>1. CASE logout
    BY <2>1 DEF logout, IInv, TypeOK
  <2>2. CASE SignedOut
    BY <2>2 DEF SignedOut
  <2> QED
    BY <2>1, <2>2
<1>3. /\ account' \in BOOLEAN
      /\ profile' \in [name : BOOLEAN, school : Schools \cup {NoSchool}]
      /\ gate' \in {"Login", "Register", "SideBar"}
      /\ calls' \in CallTable
      /\ (account => account') /\ (signed' => account')
      /\ (profile'.school # NoSchool => account')
  BY <1>1, <1>2 DEF IInv, TypeOK, AccountKnown, CallTable, CallRecords
<1>4. \A c \in Slots : calls'[c].kind \in {"login", "register"} => IsFormCall(c)
  BY <1>1 DEF IsFormCall
<1>5. ~abandoned => \A c \in Slots :
        (calls'[c].kind = "register" /\ calls'[c].answer = "ok") => profile'.school = NoSchool
  BY <1>1 DEF IInv, FreshProfile
<1> QED
  BY <1>1, <1>2, <1>3, <1>4, <1>5, StillStep

(* A school is picked on a page that was opened for a user, while no       *)
(* registration is under way.                                              *)
LEMMA SchoolStep ==
  ASSUME IInv, NEW sc \in Schools, saveSchoolToFirestore(sc)
  PROVE IInv'
<1>1. UNCHANGED <<signed, leaving, account, gate, stack, calls, abandoned>>
  BY DEF saveSchoolToFirestore
<1>2. account
  <2>1. Top = "ChooseSchool"
    BY DEF saveSchoolToFirestore
  <2>2. stack # << >> /\ stack[Len(stack)] = "ChooseSchool"
    BY <2>1 DEF Top
  <2>3. stack \in Seq(Routes) /\ Len(stack) \in Nat
    BY DEF IInv, TypeOK
  <2>4. Len(stack) \in 1 .. Len(stack)
    BY <2>2, <2>3, EmptySeq
  <2> QED
    BY <2>2, <2>4 DEF IInv, AccountKnown
<1>3. profile' \in [name : BOOLEAN, school : Schools \cup {NoSchool}]
  BY DEF saveSchoolToFirestore, IInv, TypeOK
<1>4. ~abandoned => \A c \in Slots : ~IsFormCall(c)
  BY TapMeansNoCall DEF saveSchoolToFirestore
<1>5. \A c \in Slots : calls'[c].kind \in {"login", "register"} => IsFormCall(c)
  BY <1>1 DEF IsFormCall
<1>6. ~abandoned => \A c \in Slots :
        (calls'[c].kind = "register" /\ calls'[c].answer = "ok") => profile'.school = NoSchool
  BY <1>4, <1>5
<1>7. /\ signed' \in BOOLEAN /\ leaving' \in BOOLEAN /\ account' \in BOOLEAN
      /\ gate' \in {"Login", "Register", "SideBar"}
      /\ calls' \in CallTable
      /\ (account => account') /\ (signed' => account')
      /\ (profile'.school # NoSchool => account')
  BY <1>1, <1>2 DEF IInv, TypeOK, CallTable, CallRecords
<1> QED
  BY <1>1, <1>3, <1>5, <1>6, <1>7, StillStep

-----------------------------------------------------------------------------
(* A form's call: the tap and the continuation.                            *)

(* login() and registerUser() up to their await keep the invariant: the    *)
(* form is the whole stack, so the circle covers it alone.                 *)
LEMMA IssueStep ==
  ASSUME IInv, NEW c \in Slots, login(c) \/ registerUser(c)
  PROVE IInv'
<1>1. Top = "AuthPage"
  BY DEF login, registerUser, OnForm
<1>2. stack = <<"AuthPage">>
  <2>1. stack # << >> /\ stack[Len(stack)] = "AuthPage"
    BY <1>1 DEF Top
  <2>2. stack \in Seq(Routes) /\ Len(stack) \in Nat
    BY DEF IInv, TypeOK
  <2>3. Len(stack) >= 1
    BY <2>1, <2>2, EmptySeq
  <2>4. ~(Len(stack) >= 2)
    BY <2>1, <2>2 DEF IInv, GateAtBottom
  <2>5. Len(stack) = 1
    <3>1. PICK n \in Nat : n = Len(stack)
      BY <2>2
    <3>2. n >= 1 /\ ~(n >= 2)
      BY <2>3, <2>4, <3>1
    <3>3. n = 1
      BY <3>2
    <3> QED
      BY <3>1, <3>3
  <2>6. stack[1] = "AuthPage"
    BY <2>1, <2>5
  <2> QED
    BY <2>2, <2>5, <2>6
<1>3. stack' = <<"AuthPage", "Loading">>
  BY <1>2 DEF login, registerUser, Push
<1>4. PICK r \in CallRecords :
        calls' = [calls EXCEPT ![c] = r] /\ r.answer = "waiting"
  <2>1. /\ [kind |-> "login", answer |-> "waiting", mounted |-> TRUE] \in CallRecords
        /\ [kind |-> "register", answer |-> "waiting", mounted |-> TRUE] \in CallRecords
    BY DEF CallRecords
  <2> QED
    BY <2>1 DEF login, registerUser, Issue
<1>5. calls \in CallTable
  BY DEF IInv, TypeOK, CallTable, CallRecords
<1>6. /\ calls' \in CallTable
      /\ calls'[c] = r
      /\ \A x \in Slots : x # c => calls'[x] = calls[x]
  BY <1>4, <1>5, OneCallChanged
<1>7. ~abandoned => \A x \in Slots : ~IsFormCall(x)
  BY <1>1, TapMeansNoCall
<1>8. UNCHANGED <<signed, leaving, account, profile, gate, abandoned>>
  BY DEF login, registerUser
<1>9. TypeOK'
  <2>1. stack' \in Seq(Routes) /\ Len(stack') =< MaxStack
    BY <1>3, ShellAssumption DEF Routes
  <2> QED
    BY <1>6, <1>8, <2>1 DEF IInv, TypeOK, CallTable, CallRecords
<1>10. GateAtBottom' /\ NeverBlank' /\ CircleCoversForm'
  BY <1>3 DEF GateAtBottom, NeverBlank, CircleCoversForm
<1>11. OneFormCall'
  <2> SUFFICES ASSUME ~abandoned, NEW x \in Slots, IsFormCall(x)' PROVE x = c
    BY <1>8 DEF OneFormCall
  <2> QED
    BY <1>6, <1>7 DEF IsFormCall
<1>12. AccountKnown'
  BY <1>3, <1>8 DEF IInv, AccountKnown
<1>13. FreshProfile'
  BY <1>4, <1>6, <1>8 DEF IInv, FreshProfile
<1> QED
  BY <1>9, <1>10, <1>11, <1>12, <1>13 DEF IInv

(* login() and registerUser() after their await keep the invariant: the    *)
(* only form call ends, and what it pops is its circle.                    *)
LEMMA ContinueStep ==
  ASSUME IInv, NEW c \in Slots, loginContinue(c) \/ registerContinue(c)
  PROVE IInv'
<1>1. IsFormCall(c)
  BY DEF loginContinue, registerContinue, IsFormCall
<1>2. UNCHANGED <<signed, leaving, account, gate, abandoned>>
  BY DEF loginContinue, registerContinue
<1>3. Sound(stack, account) /\ Len(stack) \in Nat /\ Len(stack) =< MaxStack
  BY StackSound DEF IInv, TypeOK
<1>4. ~abandoned => stack = <<"AuthPage", "Loading">>
  BY <1>1 DEF IInv, CircleCoversForm
<1>5. PICK low : low = Pop(stack)
  OBVIOUS
<1>6. /\ Sound(low, account) /\ Len(low) \in Nat /\ Len(low) + 1 =< MaxStack
      /\ ~abandoned => low # << >>
  <2>1. /\ Sound(low, account)
        /\ stack # << >> => Len(low) = Len(stack) - 1
        /\ stack = << >> => low = << >>
    BY <1>3, <1>5, PopSound
  <2>2. Len(low) \in Nat
    BY <2>1 DEF Sound
  <2>3. Len(low) + 1 =< MaxStack
    BY <1>3, <2>1, ShellAssumption
  <2>4. ~abandoned => low # << >>
    <3>1. stack = <<"AuthPage", "Loading">> => Len(stack) = 2 /\ stack # << >>
      OBVIOUS
    <3> QED
      BY <1>4, <2>1, <3>1
  <2> QED
    BY <2>1, <2>2, <2>3, <2>4
<1>7. PICK shownMessage : shownMessage = Push(low, "Message")
  OBVIOUS
<1>8. /\ Sound(shownMessage, account) /\ Len(shownMessage) = Len(low) + 1
      /\ shownMessage # << >>
  <2>1. "Message" \in Routes \ {"AuthPage"}
    BY DEF Routes
  <2> QED
    BY <1>6, <1>7, <2>1, PushSound
<1>9. /\ ChooseSchoolRoute \in Routes \ {"AuthPage"}
      /\ ChooseSchoolRoute = "ChooseSchool" => account
  BY DEF ChooseSchoolRoute, Routes, IInv, AccountKnown
<1>10. /\ Sound(Replace(low, ChooseSchoolRoute), account)
       /\ Len(Replace(low, ChooseSchoolRoute)) = Len(low)
       /\ low # << >> => Replace(low, ChooseSchoolRoute) # << >>
  BY <1>6, <1>9, ReplaceSound
<1>11. /\ Sound(Replace(shownMessage, ChooseSchoolRoute), account)
       /\ Len(Replace(shownMessage, ChooseSchoolRoute)) = Len(shownMessage)
       /\ Replace(shownMessage, ChooseSchoolRoute) # << >>
  BY <1>8, <1>9, ReplaceSound
<1>12. PICK s :
         /\ Finish(c, s)
         /\ s \in {stack, low, shownMessage, Replace(low, ChooseSchoolRoute),
                   Replace(shownMessage, ChooseSchoolRoute)}
  BY <1>5, <1>7 DEF loginContinue, registerContinue
<1>13. Sound(s, account) /\ Len(s) =< MaxStack /\ (~abandoned => s # << >>)
  <2>1. stack = <<"AuthPage", "Loading">> => stack # << >>
    OBVIOUS
  <2> QED
    BY <1>3, <1>4, <1>6, <1>8, <1>10, <1>11, <1>12, <2>1, ShellAssumption
<1>14. stack' = s /\ calls' = [CallsOver(s) EXCEPT ![c] = NoCall]
  BY <1>12 DEF Finish
<1>15. /\ calls' \in CallTable
       /\ calls'[c] = NoCall
       /\ \A x \in Slots : x # c => /\ calls'[x].kind = calls[x].kind
                                    /\ calls'[x].answer = calls[x].answer
  <2>1. calls \in CallTable
    BY DEF IInv, TypeOK, CallTable, CallRecords
  <2>2. PICK over : over = CallsOver(s)
    OBVIOUS
  <2>3. /\ over \in CallTable
        /\ \A x \in Slots : over[x].kind = calls[x].kind /\ over[x].answer = calls[x].answer
    BY <2>1, <2>2, CallTables
  <2>4. calls' = [over EXCEPT ![c] = NoCall]
    BY <1>14, <2>2
  <2> QED
    BY <2>3, <2>4, NoCallType DEF CallTable
<1>16. profile' \in [name : BOOLEAN, school : Schools \cup {NoSchool}]
  <2>1. profile' = profile \/ profile' = [name |-> TRUE, school |-> NoSchool]
    BY DEF loginContinue, registerContinue
  <2>2. [name |-> TRUE, school |-> NoSchool] \in [name : BOOLEAN, school : Schools \cup {NoSchool}]
    OBVIOUS
  <2> QED
    BY <2>1, <2>2 DEF IInv, TypeOK
<1>17. profile' = profile \/ profile'.school = NoSchool
  BY DEF loginContinue, registerContinue
<1>18. TypeOK'
  BY <1>2, <1>13, <1>14, <1>15, <1>16 DEF IInv, TypeOK, CallTable, CallRecords, Sound
<1>19. GateAtBottom' /\ NeverBlank'
  BY <1>2, <1>13, <1>14 DEF GateAtBottom, NeverBlank, Sound
<1>20. ~abandoned => \A x \in Slots : ~IsFormCall(x)'
  BY <1>1, <1>15 DEF IInv, OneFormCall, IsFormCall, NoCall
<1>21. CircleCoversForm' /\ OneFormCall'
  BY <1>2, <1>20 DEF CircleCoversForm, OneFormCall
<1>22. AccountKnown'
  BY <1>2, <1>13, <1>14, <1>17 DEF IInv, AccountKnown, Sound
<1>23. FreshProfile'
  BY <1>2, <1>20 DEF FreshProfile, IsFormCall
<1> QED
  BY <1>18, <1>19, <1>21, <1>22, <1>23 DEF IInv

-----------------------------------------------------------------------------
(* The navigator starts with AuthPage.                                     *)
LEMMA FirstRoute ==
  /\ <<"AuthPage">> \in Seq(Routes) /\ Len(<<"AuthPage">>) = 1
  /\ <<"AuthPage">> # << >> /\ <<"AuthPage">>[1] = "AuthPage"
BY DEF Routes

(* No calls are under way at the start.                                    *)
LEMMA NoCalls ==
  /\ [c \in Slots |-> NoCall] \in CallTable
  /\ \A c \in Slots : [x \in Slots |-> NoCall][c].kind = "none"
BY NoCallType DEF CallTable, NoCall

(* The invariant holds when the app starts.                                *)
LEMMA InitStep ==
  ASSUME Init
  PROVE IInv
<1>1. calls \in CallTable /\ \A c \in Slots : calls[c].kind = "none"
  BY NoCalls DEF Init
<1>2. stack \in Seq(Routes) /\ Len(stack) = 1 /\ stack # << >> /\ stack[1] = "AuthPage"
  BY FirstRoute DEF Init
<1>3. profile \in [name : BOOLEAN, school : Schools \cup {NoSchool}] /\ profile.school = NoSchool
  BY DEF Init
<1>4. TypeOK
  <2>1. Len(stack) =< MaxStack
    BY <1>2, ShellAssumption
  <2>2. signed \in BOOLEAN /\ leaving \in BOOLEAN /\ account \in BOOLEAN /\ abandoned \in BOOLEAN
        /\ gate \in {"Login", "Register", "SideBar"}
    BY DEF Init
  <2> QED
    BY <1>1, <1>2, <1>3, <2>1, <2>2 DEF TypeOK, CallTable, CallRecords
<1>5. GateAtBottom /\ NeverBlank
  BY <1>2 DEF GateAtBottom, NeverBlank
<1>6. CircleCoversForm /\ OneFormCall /\ FreshProfile
  BY <1>1 DEF CircleCoversForm, OneFormCall, FreshProfile, IsFormCall
<1>7. AccountKnown
  BY <1>2, <1>3 DEF AccountKnown, Init
<1> QED
  BY <1>4, <1>5, <1>6, <1>7 DEF IInv

(* Killing and restarting the app keeps the invariant.                     *)
LEMMA RelaunchStep ==
  ASSUME IInv, Relaunch
  PROVE IInv'
<1>1. calls' \in CallTable /\ \A c \in Slots : calls'[c].kind = "none"
  BY NoCalls DEF Relaunch
<1>2. stack' \in Seq(Routes) /\ Len(stack') = 1 /\ stack' # << >> /\ stack'[1] = "AuthPage"
  BY FirstRoute DEF Relaunch
<1>3. account' \in BOOLEAN /\ (account => account')
  <2>1. account' = account \/ account' = TRUE
    BY DEF Relaunch
  <2> QED
    BY <2>1, Zenon DEF IInv, TypeOK
<1>4. UNCHANGED <<signed, profile>> /\ abandoned' = FALSE /\ leaving' = FALSE /\ gate' = "Login"
  BY DEF Relaunch
<1>5. TypeOK'
  <2>1. Len(stack') =< MaxStack
    BY <1>2, ShellAssumption
  <2>2. signed' \in BOOLEAN /\ leaving' \in BOOLEAN /\ abandoned' \in BOOLEAN
        /\ profile' \in [name : BOOLEAN, school : Schools \cup {NoSchool}]
        /\ gate' \in {"Login", "Register", "SideBar"}
    BY <1>4 DEF IInv, TypeOK
  <2> QED
    BY <1>1, <1>2, <1>3, <2>1, <2>2 DEF TypeOK, CallTable, CallRecords
<1>6. GateAtBottom' /\ NeverBlank'
  BY <1>2 DEF GateAtBottom, NeverBlank
<1>7. CircleCoversForm' /\ OneFormCall' /\ FreshProfile'
  BY <1>1 DEF CircleCoversForm, OneFormCall, FreshProfile, IsFormCall
<1>8. AccountKnown'
  BY <1>2, <1>3, <1>4 DEF IInv, AccountKnown
<1> QED
  BY <1>5, <1>6, <1>7, <1>8 DEF IInv

(* The taps on pages, each of which goes to a route other than AuthPage.   *)
LEMMA PageTapStep ==
  ASSUME IInv,
         \/ ClubTileTap \/ OpenEventForm \/ CreateAClubNav
         \/ ChangeSchool \/ ChooseSchoolNext
         \/ \E r \in DrawerTargets : DrawerNav(r)
  PROVE IInv'
<1>1. UNCHANGED <<signed, leaving, account, profile, gate, abandoned>>
  BY DEF ClubTileTap, OpenEventForm, CreateAClubNav, ChangeSchool, ChooseSchoolNext, DrawerNav
<1>2. Top # "none" /\ Top # "Loading"
  BY DEF ClubTileTap, OpenEventForm, CreateAClubNav, ChangeSchool, ChooseSchoolNext, DrawerNav,
         HasDrawer, OnHome, OnSearch, OnVolunteer, OnCalendar, OnClub, OnTabs
<1>3. \E r \in Routes \ {"AuthPage"} :
        /\ r = "ChooseSchool" => account
        /\ \/ GoTo(Push(stack, r))
           \/ GoTo(Push(Pop(stack), r))
           \/ GoTo(Replace(stack, r))
  <2>1. CASE ClubTileTap
    BY <2>1 DEF ClubTileTap, Routes
  <2>2. CASE OpenEventForm
    BY <2>2 DEF OpenEventForm, Routes
  <2>3. CASE CreateAClubNav
    <3>1. "Home" \in Routes /\ "Placeholder" \in Routes
      BY DEF Routes, DrawerTargets
    <3> QED
      BY <2>3, <3>1 DEF CreateAClubNav
  <2>4. CASE ChangeSchool
    <3>1. /\ ChooseSchoolRoute \in Routes \ {"AuthPage"}
          /\ ChooseSchoolRoute = "ChooseSchool" => account
      BY DEF ChooseSchoolRoute, Routes, IInv, AccountKnown
    <3> QED
      BY <2>4, <3>1 DEF ChangeSchool
  <2>5. CASE ChooseSchoolNext
    <3>1. "Home" \in Routes
      BY DEF Routes, DrawerTargets
    <3> QED
      BY <2>5, <3>1 DEF ChooseSchoolNext
  <2>6. CASE \E r \in DrawerTargets : DrawerNav(r)
    <3>1. PICK r \in DrawerTargets : DrawerNav(r)
      BY <2>6
    <3>2. r \in Routes /\ r # "AuthPage" /\ r # "ChooseSchool"
      BY DEF Routes, DrawerTargets
    <3> QED
      BY <3>1, <3>2 DEF DrawerNav
  <2> QED
    BY <2>1, <2>2, <2>3, <2>4, <2>5, <2>6
<1> QED
  BY <1>1, <1>2, <1>3, TapStep

(* registerUser() with differing passwords keeps the invariant.            *)
LEMMA MismatchStep ==
  ASSUME IInv, registerMismatch
  PROVE IInv'
<1>1. "Message" \in Routes /\ "Loading" \in Routes
  BY DEF Routes
<1>2. PICK covered : covered = Push(stack, "Loading")
  OBVIOUS
<1>3. Sound(covered, account)
  BY <1>1, <1>2, StackSound, PushSound
<1>4. Sound(Pop(covered), account)
  BY <1>3, PopSound
<1>5. Sound(Push(Pop(covered), "Message"), account) /\ Push(Pop(covered), "Message") # << >>
  BY <1>1, <1>4, PushSound
<1>6. GoTo(Push(Pop(covered), "Message"))
  BY <1>2 DEF registerMismatch
<1>7. UNCHANGED <<signed, leaving, account, profile, gate, abandoned>>
  BY DEF registerMismatch
<1>8. ~abandoned => \A c \in Slots : ~IsFormCall(c)
  BY TapMeansNoCall DEF registerMismatch, OnForm
<1>9. abandoned' \in BOOLEAN /\ abandoned' = abandoned
  BY <1>7 DEF IInv, TypeOK
<1> QED
  BY <1>5, <1>6, <1>7, <1>8, <1>9, NavigationStep

(* Every step keeps the invariant.                                         *)
LEMMA Inductive ==
  ASSUME IInv, [Next]_vars
  PROVE IInv'
<1>1. CASE AuthBuild \/ togglePages
  BY <1>1, GateStep
<1>2. CASE logout \/ SignedOut
  BY <1>2, LogoutStep
<1>3. CASE Relaunch
  BY <1>3, RelaunchStep
<1>4. CASE registerMismatch
  BY <1>4, MismatchStep
<1>5. CASE Back
  BY <1>5, BackStep
<1>6. CASE \/ ClubTileTap \/ OpenEventForm \/ CreateAClubNav
           \/ ChangeSchool \/ ChooseSchoolNext
           \/ \E r \in DrawerTargets : DrawerNav(r)
  BY <1>6, PageTapStep
<1>7. CASE \E s \in Schools : saveSchoolToFirestore(s)
  BY <1>7, SchoolStep
<1>8. CASE \E c \in Slots : login(c) \/ registerUser(c)
  BY <1>8, IssueStep
<1>9. CASE \E c \in Slots : signInWithGoogleFirebase(c) \/ Accept(c) \/ Decline(c)
  BY <1>9, AnswerStep
<1>10. CASE \E c \in Slots : loginContinue(c) \/ registerContinue(c)
  BY <1>10, ContinueStep
<1>11. CASE UNCHANGED vars
  BY <1>11 DEF vars, IInv, TypeOK, GateAtBottom, CircleCoversForm, OneFormCall, NeverBlank,
               AccountKnown, FreshProfile, IsFormCall
<1> QED
  BY <1>1, <1>2, <1>3, <1>4, <1>5, <1>6, <1>7, <1>8, <1>9, <1>10, <1>11
     DEF Next, UserNav, Call

(* The inductive invariant holds in every behaviour of the shell.          *)
THEOREM Invariance == Spec => []IInv
<1>1. Init => IInv
  BY InitStep
<1>2. IInv /\ [Next]_vars => IInv'
  BY Inductive
<1> QED
  BY <1>1, <1>2, PTL DEF Spec

(* Type correctness; in particular no continuation, which no bound         *)
(* guards, grows the stack beyond what the taps have built.                *)
THEOREM TypeCorrect == Spec => []TypeOK
<1>1. IInv => TypeOK
  BY DEF IInv
<1> QED
  BY <1>1, Invariance, PTL

(* While nobody dismisses a circle, a login or registration under way is   *)
(* covered by its own circle over AuthPage and by nothing else, however    *)
(* many calls, auth events, kills and sign-outs interleave.                *)
THEOREM CircleCoversFormTheorem == Spec => []CircleCoversForm
<1>1. IInv => CircleCoversForm
  BY DEF IInv
<1> QED
  BY <1>1, Invariance, PTL

(* While nobody dismisses a circle, no pop of a tile, a continuation or a  *)
(* replacement leaves the navigator without a route.                       *)
THEOREM NeverBlankTheorem == Spec => []NeverBlank
<1>1. IInv => NeverBlank
  BY DEF IInv
<1> QED
  BY <1>1, Invariance, PTL

(* While nobody dismisses a circle, no step takes the username or the      *)
(* school out of the Users document: createUserDocument's set without      *)
(* merge cannot come after a saved school.                                 *)
THEOREM ProfileKeptTheorem == Spec => ProfileKept
<1>1. IInv /\ [Next]_vars =>
        [~abandoned => /\ profile.name => profile'.name
                       /\ profile.school # NoSchool => profile'.school # NoSchool]_vars
  <2> SUFFICES ASSUME IInv, Next, ~abandoned
               PROVE /\ profile.name => profile'.name
                     /\ profile.school # NoSchool => profile'.school # NoSchool
    OBVIOUS
  <2>1. CASE profile' = profile
    BY <2>1
  <2>2. CASE \E s \in Schools : saveSchoolToFirestore(s)
    <3>1. PICK s \in Schools : saveSchoolToFirestore(s)
      BY <2>2
    <3>2. profile' = [profile EXCEPT !.school = s]
      BY <3>1 DEF saveSchoolToFirestore
    <3>3. profile \in [name : BOOLEAN, school : Schools \cup {NoSchool}]
      BY DEF IInv, TypeOK
    <3>4. profile'.name = profile.name /\ profile'.school = s
      BY <3>2, <3>3
    <3> QED
      BY <3>4, ShellAssumption
  <2>3. CASE \E c \in Slots : registerContinue(c)
    <3>1. PICK c \in Slots : registerContinue(c)
      BY <2>3
    <3>2. CASE calls[c].answer = "ok"
      <4>1. profile' = [name |-> TRUE, school |-> NoSchool]
        BY <3>1, <3>2 DEF registerContinue
      <4>2. profile.school = NoSchool
        BY <3>1, <3>2 DEF registerContinue, IInv, FreshProfile
      <4> QED
        BY <4>1, <4>2
    <3>3. CASE calls[c].answer # "ok"
      BY <3>1, <3>3, <2>1 DEF registerContinue
    <3> QED
      BY <3>2, <3>3
  <2>4. profile' = profile \/ (\E s \in Schools : saveSchoolToFirestore(s))
        \/ (\E c \in Slots : registerContinue(c))
    BY DEF Next, UserNav, Call, AuthBuild, SignedOut, Relaunch, togglePages, registerMismatch,
           Back, logout, ClubTileTap, OpenEventForm, CreateAClubNav, ChangeSchool,
           ChooseSchoolNext, DrawerNav, login, registerUser, signInWithGoogleFirebase,
           Accept, Decline, loginContinue
  <2> QED
    BY <2>1, <2>2, <2>3, <2>4
<1> QED
  BY <1>1, Invariance, PTL DEF Spec, ProfileKept

(* A call that has been accepted is left alone by every step but its own   *)
(* continuation and a kill: by the continuations of other calls too.       *)
LEMMA RegisteredStays ==
  ASSUME IInv, Next, ~Relaunch, NEW c \in Slots, IsRegistered(c), ~registerContinue(c)
  PROVE IsRegistered(c)'
<1>1. calls \in CallTable
  BY DEF IInv, TypeOK, CallTable, CallRecords
<1>2. SUFFICES calls'[c].kind = calls[c].kind /\ calls'[c].answer = calls[c].answer
  BY DEF IsRegistered
<1>3. CASE calls' = calls \/ calls' = Unmounted \/ \E s : calls' = CallsOver(s)
  BY <1>1, <1>3, CallTables
<1>4. ASSUME NEW x \in Slots, x # c, NEW r, calls' = [calls EXCEPT ![x] = r]
      PROVE  calls'[c] = calls[c]
  BY <1>1, <1>4 DEF CallTable
<1>5. CASE \E x \in Slots : login(x) \/ registerUser(x) \/ signInWithGoogleFirebase(x)
  <2>1. PICK x \in Slots : login(x) \/ registerUser(x) \/ signInWithGoogleFirebase(x)
    BY <1>5
  <2>2. x # c
    BY <2>1 DEF login, registerUser, signInWithGoogleFirebase, IsRegistered, NoCall
  <2>3. \E r : calls' = [calls EXCEPT ![x] = r]
    BY <2>1 DEF login, registerUser, signInWithGoogleFirebase, Issue
  <2> QED
    BY <1>4, <2>2, <2>3
<1>6. CASE \E x \in Slots : Accept(x) \/ Decline(x)
  <2>1. PICK x \in Slots : Accept(x) \/ Decline(x)
    BY <1>6
  <2>2. x # c
    BY <2>1 DEF Accept, Decline, IsRegistered
  <2>3. \E r : calls' = [calls EXCEPT ![x] = r]
    BY <2>1 DEF Accept, Decline
  <2> QED
    BY <1>4, <2>2, <2>3
<1>7. CASE \E x \in Slots : loginContinue(x) \/ registerContinue(x)
  <2>1. PICK x \in Slots : loginContinue(x) \/ registerContinue(x)
    BY <1>7
  <2>2. x # c
    BY <2>1 DEF loginContinue, IsRegistered
  <2>3. PICK s : Finish(x, s)
    BY <2>1 DEF loginContinue, registerContinue
  <2>4. PICK over : over = CallsOver(s)
    OBVIOUS
  <2>5. /\ over \in CallTable
        /\ over[c].kind = calls[c].kind /\ over[c].answer = calls[c].answer
    BY <1>1, <2>4, CallTables
  <2>6. calls' = [over EXCEPT ![x] = NoCall]
    BY <2>3, <2>4 DEF Finish
  <2> QED
    BY <2>2, <2>5, <2>6 DEF CallTable
<1>8. CASE AuthBuild \/ SignedOut \/ UserNav
  <2>1. calls' = calls \/ calls' = Unmounted \/ \E s : calls' = CallsOver(s)
    BY <1>8 DEF AuthBuild, SignedOut, UserNav, togglePages, registerMismatch, Back, logout,
                ClubTileTap, OpenEventForm, CreateAClubNav, ChangeSchool, ChooseSchoolNext,
                DrawerNav, saveSchoolToFirestore, GoTo
  <2> QED
    BY <1>3, <2>1
<1> QED
  BY <1>5, <1>6, <1>7, <1>8 DEF Next, Call

(* Short of a kill, a registration whose acceptance has reached the app    *)
(* ends with its Users document, whatever unmounts its form or takes its   *)
(* circle first.                                                           *)
THEOREM RegistrationDocumentedTheorem == Spec => RegistrationDocumented
<1>1. IInv /\ [Next]_vars =>
        [\A c \in Slots :
           IsRegistered(c) /\ ~Relaunch => IsRegistered(c)' \/ profile'.name]_vars
  <2> SUFFICES ASSUME IInv, Next, ~Relaunch, NEW c \in Slots, IsRegistered(c)
               PROVE IsRegistered(c)' \/ profile'.name
    OBVIOUS
  <2>1. CASE registerContinue(c)
    <3>1. profile' = [name |-> TRUE, school |-> NoSchool]
      BY <2>1 DEF registerContinue, IsRegistered
    <3> QED
      BY <3>1
  <2>2. CASE ~registerContinue(c)
    BY <2>2, RegisteredStays
  <2> QED
    BY <2>1, <2>2
<1> QED
  BY <1>1, Invariance, PTL DEF Spec, RegistrationDocumented
=============================================================================
