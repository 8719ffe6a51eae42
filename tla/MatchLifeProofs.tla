-------------------------- MODULE MatchLifeProofs --------------------------
(***************************************************************************)
(* The promise of MatchLife keeps an account out of two matches, for any   *)
(* number of accounts and tickets.  The inductive invariant is that a      *)
(* ticket that is alive is the one its account holds: the account can open *)
(* a second one only when it holds none, and lets go of a ticket only when *)
(* that is over.                                                           *)
(***************************************************************************)
EXTENDS MatchLife, TLAPS

IInv == TypeOK /\ AliveIsHeld

\* Moving a group between states of life keeps the invariant if the group
\* belongs to its accounts before and ownership does not change.
LEMMA MoveKeeps ==
    ASSUME IInv, NEW g \in SUBSET Tickets, NEW from \in Alive, NEW to \in States,
           Move(g, from, to), UNCHANGED <<of, holds>>
    PROVE  IInv'
<1>1. TypeOK'
  BY DEF IInv, TypeOK, Move
<1>2. AliveIsHeld'
  <2>1. SUFFICES ASSUME NEW t \in Tickets, life'[t] \in Alive
                 PROVE  of[t] \in Users /\ holds[of[t]] = t
    BY DEF AliveIsHeld
  <2>2. life[t] \in Alive
    BY <2>1 DEF IInv, TypeOK, Move
  <2>. QED  BY <2>2 DEF IInv, AliveIsHeld
<1>. QED  BY <1>1, <1>2 DEF IInv

\* An account that lets go of a ticket that is over still holds the alive ones.
LEMMA FreedKeeps ==
    ASSUME NEW t \in Tickets, TypeOK,
           \A s \in Tickets \ {t} : life[s] \in Alive => of[s] \in Users /\ holds[of[s]] = s
    PROVE  /\ Freed(t) \in [Users -> Tickets \cup {NoTicket}]
           /\ \A s \in Tickets \ {t} : life[s] \in Alive =>
                 of[s] \in Users /\ Freed(t)[of[s]] = s
BY DEF Freed, TypeOK

\* A fresh ticket goes to an account that holds none, so it displaces nobody's.
LEMMA OpenKeeps ==
    ASSUME NoTicket \notin Tickets, IInv, NEW u \in Users, NEW t \in Tickets, Open(u, t)
    PROVE  IInv'
<1>1. TypeOK'
  BY DEF IInv, TypeOK, Open, States, Alive
<1>2. AliveIsHeld'
  <2>1. SUFFICES ASSUME NEW s \in Tickets, life'[s] \in Alive
                 PROVE  of'[s] \in Users /\ holds'[of'[s]] = s
    BY DEF AliveIsHeld
  <2>2. CASE s = t
    BY <2>2 DEF IInv, TypeOK, Open
  <2>3. CASE s # t
    <3>1. life[s] \in Alive /\ of'[s] = of[s]
      BY <2>1, <2>3 DEF IInv, TypeOK, Open
    <3>2. of[s] \in Users /\ holds[of[s]] = s
      BY <3>1 DEF IInv, AliveIsHeld
    <3>3. of[s] # u
      BY <3>2 DEF Open
    <3>. QED  BY <3>1, <3>2, <3>3 DEF IInv, TypeOK, Open
  <2>. QED  BY <2>2, <2>3
<1>. QED  BY <1>1, <1>2 DEF IInv

\* Every step keeps the invariant.
LEMMA NextKeeps ==
    ASSUME NoTicket \notin Tickets, IInv, [Next]_vars
    PROVE  IInv'
<1>1. CASE UNCHANGED vars
  BY <1>1 DEF IInv, TypeOK, AliveIsHeld, vars
<1>2. ASSUME NEW u \in Users, NEW t \in Tickets, Open(u, t)
      PROVE  IInv'
  BY <1>2, OpenKeeps
<1>3. ASSUME NEW g \in SUBSET Tickets, Commit(g) \/ GiveBack(g) \/ Seat(g)
      PROVE  IInv'
  <2>1. CASE Commit(g)
    BY <2>1, MoveKeeps DEF Commit, Alive, States
  <2>2. CASE GiveBack(g)
    BY <2>2, MoveKeeps DEF GiveBack, Alive, States
  <2>3. CASE Seat(g)
    BY <2>3, MoveKeeps DEF Seat, Alive, States
  <2>. QED  BY <1>3, <2>1, <2>2, <2>3
<1>4. ASSUME NEW t \in Tickets, Leave(t)
      PROVE  IInv'
  BY <1>4, MoveKeeps DEF Leave, Alive, States
<1>5. ASSUME NEW t \in Tickets, Withdraw(t)
      PROVE  IInv'
  <2>1. life' = [life EXCEPT ![t] = "OVER"] /\ UNCHANGED of
    BY <1>5 DEF Withdraw, Move, IInv, TypeOK
  <2>2. holds' = holds \/ holds' = Freed(t)
    BY <1>5 DEF Withdraw
  <2>3. /\ Freed(t) \in [Users -> Tickets \cup {NoTicket}]
        /\ \A s \in Tickets \ {t} : life[s] \in Alive =>
              of[s] \in Users /\ Freed(t)[of[s]] = s
    BY FreedKeeps DEF IInv, AliveIsHeld
  <2>4. TypeOK'
    BY <2>1, <2>2, <2>3 DEF IInv, TypeOK, States
  <2>5. AliveIsHeld'
    <3>1. SUFFICES ASSUME NEW s \in Tickets, life'[s] \in Alive
                   PROVE  of'[s] \in Users /\ holds'[of'[s]] = s
      BY DEF AliveIsHeld
    <3>2. s # t /\ life[s] \in Alive
      BY <2>1, <3>1 DEF IInv, TypeOK, Alive
    <3>. QED  BY <2>1, <2>2, <2>3, <3>2 DEF IInv, AliveIsHeld
  <2>. QED  BY <2>4, <2>5 DEF IInv
<1>6. ASSUME NEW t \in Tickets, Free(t)
      PROVE  IInv'
  <2>1. life[t] = "OVER" /\ holds' = Freed(t) /\ UNCHANGED <<life, of>>
    BY <1>6 DEF Free
  <2>2. /\ Freed(t) \in [Users -> Tickets \cup {NoTicket}]
        /\ \A s \in Tickets \ {t} : life[s] \in Alive =>
              of[s] \in Users /\ Freed(t)[of[s]] = s
    BY FreedKeeps DEF IInv, AliveIsHeld
  <2>3. life[t] \notin Alive
    BY <2>1 DEF Alive
  <2>. QED  BY <2>1, <2>2, <2>3 DEF IInv, TypeOK, AliveIsHeld
<1>. QED
  BY <1>1, <1>2, <1>3, <1>4, <1>5, <1>6 DEF Next

\* An account that the abstract service deals with never has two tickets
\* waiting, committed or playing, with any number of accounts and tickets.
THEOREM OneMatch ==
    ASSUME NoTicket \notin Tickets
    PROVE  Spec => []OneMatchPerUser
<1>1. Init => IInv
  BY DEF Init, IInv, TypeOK, AliveIsHeld, Alive, States
<1>2. IInv /\ [Next]_vars => IInv'
  BY NextKeeps
<1>3. IInv => OneMatchPerUser
  BY DEF IInv, AliveIsHeld, OneMatchPerUser
<1>. QED  BY <1>1, <1>2, <1>3, PTL DEF Spec
=============================================================================
