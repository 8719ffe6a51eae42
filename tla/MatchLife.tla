----------------------------- MODULE MatchLife -----------------------------
(***************************************************************************)
(* What the match service promises an account, without Redis, sockets or   *)
(* processes.  An account opens one ticket at a time and holds it until it *)
(* is settled; a group of open tickets is committed all at once; committed *)
(* tickets are given back or get their seats, again all at once; the       *)
(* player withdraws an open ticket, never a committed one; and the account *)
(* is free again only when its ticket is over.                             *)
(*                                                                         *)
(* MatchTicket implements it (MatchTicket!PromisesMatchLife).              *)
(***************************************************************************)
CONSTANTS Users, Tickets, NoUser, NoTicket

VARIABLES
    life,   \* the state of each ticket
    of,     \* the account it was opened for
    holds   \* the ticket of each account

vars == <<life, of, holds>>

Alive == {"OPEN", "COMMITTED", "SEATED"}

Init ==
    /\ life = [t \in Tickets |-> "NEW"]
    /\ of = [t \in Tickets |-> NoUser]
    /\ holds = [u \in Users |-> NoTicket]

Open(u, t) ==
    /\ holds[u] = NoTicket /\ life[t] = "NEW"
    /\ life' = [life EXCEPT ![t] = "OPEN"]
    /\ of' = [of EXCEPT ![t] = u]
    /\ holds' = [holds EXCEPT ![u] = t]

\* All tickets of g go from one state to another in one step.
Move(g, from, to) ==
    /\ g # {} /\ \A t \in g : life[t] = from
    /\ life' = [t \in Tickets |-> IF t \in g THEN to ELSE life[t]]

Commit(g)   == Move(g, "OPEN", "COMMITTED") /\ UNCHANGED <<of, holds>>
GiveBack(g) == Move(g, "COMMITTED", "OPEN") /\ UNCHANGED <<of, holds>>
Seat(g)     == Move(g, "COMMITTED", "SEATED") /\ UNCHANGED <<of, holds>>
Leave(t)    == Move({t}, "SEATED", "OVER") /\ UNCHANGED <<of, holds>>

Freed(t) == [u \in Users |-> IF holds[u] = t THEN NoTicket ELSE holds[u]]

\* A cancel, whose account is freed in a step of its own, or a login takeover.
Withdraw(t) ==
    /\ Move({t}, "OPEN", "OVER")
    /\ holds' \in {holds, Freed(t)}
    /\ UNCHANGED of

Free(t) ==
    /\ life[t] = "OVER"
    /\ holds' = Freed(t)
    /\ UNCHANGED <<life, of>>

Next ==
    \/ \E u \in Users, t \in Tickets : Open(u, t)
    \/ \E g \in SUBSET Tickets : Commit(g) \/ GiveBack(g) \/ Seat(g)
    \/ \E t \in Tickets : Leave(t) \/ Withdraw(t) \/ Free(t)

Spec == Init /\ [][Next]_vars
-----------------------------------------------------------------------------
States == Alive \cup {"NEW", "OVER"}

TypeOK ==
    /\ life \in [Tickets -> States]
    /\ of \in [Tickets -> Users \cup {NoUser}]
    /\ holds \in [Users -> Tickets \cup {NoTicket}]

\* A ticket that is alive is the one its account holds.
AliveIsHeld ==
    \A t \in Tickets : life[t] \in Alive => of[t] \in Users /\ holds[of[t]] = t

\* An account never has two tickets that are waiting, committed or playing.
OneMatchPerUser ==
    \A s, t \in Tickets :
        life[s] \in Alive /\ life[t] \in Alive /\ of[s] = of[t] => s = t
=============================================================================
