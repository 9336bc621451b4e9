------------------------------ MODULE Handoff ------------------------------
(***************************************************************************)
(* What the interactive login promises, without clocks, locks or maps: a   *)
(* session code is opened once for one client state, answered by at most   *)
(* one user, and then either handed out once, to the state it was opened   *)
(* for, or dropped.                                                        *)
(***************************************************************************)
EXTENDS Naturals, Sequences

CONSTANTS
    Code,          \* session codes
    ClientState,   \* client_state values of the polling clients
    Username,      \* users who can sign in
    None           \* no state, no user

VARIABLES
    deal,    \* deal[c]: the stage of code c, whom it is for, who answered
    given    \* given[c]: everything handed out for code c, in order

Stage == {"unissued", "open", "answered", "closed"}

Deal == [st : Stage, to : ClientState \cup {None}, by : Username \cup {None}]

HandoffInit ==
    /\ deal = [c \in Code |-> [st |-> "unissued", to |-> None, by |-> None]]
    /\ given = [c \in Code |-> <<>>]

\* A code that is no longer in play keeps nothing.
Closed == [st |-> "closed", to |-> None, by |-> None]

Open(c, s) ==
    /\ deal[c].st = "unissued"
    /\ deal' = [deal EXCEPT ![c] = [st |-> "open", to |-> s, by |-> None]]
    /\ UNCHANGED given

Answer(c, u) ==
    /\ deal[c].st = "open"
    /\ deal' = [deal EXCEPT ![c] = [st |-> "answered", to |-> deal[c].to, by |-> u]]
    /\ UNCHANGED given

Hand(c) ==
    /\ deal[c].st = "answered"
    /\ deal' = [deal EXCEPT ![c] = Closed]
    /\ given' = [given EXCEPT ![c] = Append(@, [to |-> deal[c].to, by |-> deal[c].by])]

\* Any set of codes in play may lapse together.
Drop(C) ==
    /\ \A c \in C : deal[c].st \in {"open", "answered"}
    /\ deal' = [c \in Code |-> IF c \in C THEN Closed ELSE deal[c]]
    /\ UNCHANGED given

HandoffNext ==
    \/ \E c \in Code, s \in ClientState : Open(c, s)
    \/ \E c \in Code, u \in Username : Answer(c, u)
    \/ \E c \in Code : Hand(c)
    \/ \E C \in SUBSET Code : Drop(C)

HandoffSpec == HandoffInit /\ [][HandoffNext]_<<deal, given>>

=============================================================================
