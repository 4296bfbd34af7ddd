------------------------------- MODULE MCClubs -------------------------------
(* Phones of one user around the clubs, every constant a set of model      *)
(* values given by the configuration, and what the server may hold when    *)
(* the phones are new.                                                     *)
EXTENDS Clubs, TLC

CONSTANTS Club, Event,  \* one of Clubs, one of EventNames
          Day, Later    \* two of Days

Nothing == [k \in Keys |-> NoDoc]

(* Others have made Club and given it Event.                               *)
Stranger == Club :> Present @@ ClubEvent(Club, Event) :> Day @@ Nothing

(* The user has joined it, and is to volunteer for an event of that name,  *)
(* on the day given.                                                       *)
Member(day) == Joined(Club) :> Present @@ Mine(Event) :> day @@ Stranger

MCStores == {Stranger, Member(Day), Member(Later)}
NothingStored == {Nothing}
=============================================================================
