---------------------------- MODULE SessionStore ----------------------------
(***************************************************************************)
(* The interactive login of arc-lore-auth: SessionStore (session.go), the  *)
(* RPCs StartAuthSession and GetAuthSession (grpc.go) and the /login page  *)
(* that closes the handshake (web.go).                                     *)
(*                                                                         *)
(* Every method of SessionStore runs under its mutex and is one step.  A   *)
(* POST of the login form calls Get, then checks the credentials and mints *)
(* with the mutex free, then calls Complete: other browsers, polls and the *)
(* sweeper run in between.  The sweeper reads the clock BEFORE it takes the*)
(* mutex, so it judges with a clock that may be old.                       *)
(*                                                                         *)
(* Time is in ticks and relative: a session carries its age.  The token is *)
(* represented by the user it was minted for.                              *)
(***************************************************************************)
EXTENDS Naturals, Sequences

CONSTANTS
    Code,          \* session codes: 256 random bits, never drawn twice
    ClientState,   \* client_state values of the polling clients
    Username,      \* users who can sign in
    Browser,       \* concurrent POSTs of the login form
    None,          \* no user yet
    TTL,           \* session_ttl
    MinPeriod,     \* the 30 s floor of the sweep interval
    MaxLag,        \* how long the sweeper waits to run, and for the mutex
    MaxAge         \* bound on ages, beyond any age a session can reach

\* The interval of StartEvictionLoop: TTL/2, at least 30 s.
Period == IF TTL \div 2 < MinPeriod THEN MinPeriod ELSE TTL \div 2

ASSUME SessionTimes ==
    /\ TTL \in Nat \ {0} /\ MinPeriod \in Nat /\ MaxLag \in Nat /\ MaxAge \in Nat
    /\ 2 * MaxLag < MinPeriod
    /\ TTL + Period + 2 * MaxLag < MaxAge
ASSUME NoneIsNobody == None \notin Username /\ None \notin ClientState

VARIABLES
    sessions,   \* the map: a function from the codes that are in it
    web,        \* web[b]: a POST between Get and Complete
    phase,      \* ticks since the eviction ticker last fired
    sweep,      \* the sweeper goroutine, and how long it has waited
    issued,     \* observer: the client_state of every code ever created
    given       \* observer: what Take has returned, per code

vars == <<sessions, web, phase, sweep, issued, given>>

\* authSession; the username and the token are set together.
Session == [state : ClientState, user : Username \cup {None}, age : Nat]

IdlePost == [pc |-> "idle"]

Post == {IdlePost} \cup [pc : {"verify"}, code : Code]
                   \cup [pc : {"complete"}, code : Code, user : Username]

TypeOK ==
    /\ DOMAIN sessions \subseteq Code
    /\ sessions \in [DOMAIN sessions -> Session]
    /\ web \in [Browser -> Post]
    /\ phase \in Nat
    /\ sweep \in [pc : {"idle", "due", "read"}, lag : Nat]
    /\ DOMAIN issued \subseteq Code
    /\ issued \in [DOMAIN issued -> ClientState]
    /\ given \in [Code -> Seq([to : ClientState, by : Username \cup {None}])]

Init ==
    /\ sessions = [c \in {} |-> c]
    /\ web = [b \in Browser |-> IdlePost]
    /\ phase = 0
    /\ sweep = [pc |-> "idle", lag |-> 0]
    /\ issued = [c \in {} |-> c]
    /\ given = [c \in Code |-> <<>>]

-----------------------------------------------------------------------------
(* The store.                                                              *)

Known(c) == c \in DOMAIN sessions

\* expired is strict: a session of exactly TTL is still good.
ExpiredNever(c) == FALSE
Expired(c) == sessions[c].age > TTL

Live(c) == Known(c) /\ ~Expired(c)

Put(c, s) == [x \in DOMAIN sessions \cup {c} |-> IF x = c THEN s ELSE sessions[x]]

Drop(C) == [x \in DOMAIN sessions \ C |-> sessions[x]]

\* A lookup that finds an expired session deletes it.
Refuse(c) == sessions' = Drop(IF Known(c) /\ Expired(c) THEN {c} ELSE {})

Create(c, s) ==
    /\ c \notin DOMAIN issued
    /\ sessions' = Put(c, [state |-> s, user |-> None, age |-> 0])
    /\ issued' = [x \in DOMAIN issued \cup {c} |-> IF x = c THEN s ELSE issued[x]]

CompleteAnyway(c, u) ==
    IF Live(c) THEN sessions' = [sessions EXCEPT ![c].user = u] ELSE Refuse(c)

Complete(c, u) ==
    IF Live(c) /\ sessions[c].user = None
      THEN sessions' = [sessions EXCEPT ![c].user = u]
      ELSE Refuse(c)

TakeKeeps(c, s) ==
    IF Live(c) /\ sessions[c].state = s /\ sessions[c].user # None
      THEN /\ UNCHANGED sessions
           /\ given' = [given EXCEPT ![c] = Append(@, [to |-> s, by |-> sessions[c].user])]
      ELSE Refuse(c) /\ UNCHANGED given

TakeAnyState(c, s) ==
    IF Live(c) /\ sessions[c].user # None
      THEN /\ sessions' = Drop({c})
           /\ given' = [given EXCEPT ![c] = Append(@, [to |-> s, by |-> sessions[c].user])]
      ELSE Refuse(c) /\ UNCHANGED given

Take(c, s) ==
    IF Live(c) /\ sessions[c].state = s /\ sessions[c].user # None
      THEN /\ sessions' = Drop({c})
           /\ given' = [given EXCEPT ![c] = Append(@, [to |-> s, by |-> sessions[c].user])]
      ELSE Refuse(c) /\ UNCHANGED given

-----------------------------------------------------------------------------
(* The callers.                                                            *)

StartAuthSession(c, s) ==
    /\ Create(c, s)
    /\ UNCHANGED <<web, phase, sweep, given>>

\* One poll.  An early, late or mismatched one gets an empty answer.
GetAuthSession(c, s) ==
    /\ Take(c, s)
    /\ UNCHANGED <<web, phase, sweep, issued>>

\* GET /login only looks.
LoginGet(c) ==
    /\ Refuse(c)
    /\ UNCHANGED <<web, phase, sweep, issued, given>>

\* POST /login, up to its first lookup: the session must be there, unexpired
\* and pending.
LoginPost(b, c) ==
    /\ web[b] = IdlePost
    /\ IF Live(c) /\ sessions[c].user = None
         THEN web' = [web EXCEPT ![b] = [pc |-> "verify", code |-> c]]
         ELSE UNCHANGED web
    /\ Refuse(c)
    /\ UNCHANGED <<phase, sweep, issued, given>>

\* The CSRF token and the password are checked and MintFor runs, or the form is
\* shown again.
LoginVerifyUnknownUser(b) ==
    /\ web[b].pc = "verify"
    /\ \E u \in Username \cup {None} :
          web' = [web EXCEPT ![b] = [pc |-> "complete", code |-> web[b].code, user |-> u]]
    /\ UNCHANGED <<sessions, phase, sweep, issued, given>>

LoginVerify(b) ==
    /\ web[b].pc = "verify"
    /\ \/ web' = [web EXCEPT ![b] = IdlePost]
       \/ \E u \in Username :
             web' = [web EXCEPT ![b] = [pc |-> "complete", code |-> web[b].code, user |-> u]]
    /\ UNCHANGED <<sessions, phase, sweep, issued, given>>

LoginComplete(b) ==
    /\ web[b].pc = "complete"
    /\ Complete(web[b].code, web[b].user)
    /\ web' = [web EXCEPT ![b] = IdlePost]
    /\ UNCHANGED <<phase, sweep, issued, given>>

-----------------------------------------------------------------------------
(* The eviction loop and time.                                             *)

\* sweepExpired reads the clock ...
SweepRead ==
    /\ sweep.pc = "due"
    /\ sweep' = [pc |-> "read", lag |-> 0]
    /\ UNCHANGED <<sessions, web, phase, issued, given>>

SweepEvictNothing ==
    /\ sweep.pc = "read"
    /\ sweep' = [pc |-> "idle", lag |-> 0]
    /\ UNCHANGED <<sessions, web, phase, issued, given>>

\* ... and evicts, under the mutex, what was expired when it read it.
SweepEvict ==
    /\ sweep.pc = "read"
    /\ sessions' = Drop({c \in DOMAIN sessions : sessions[c].age > TTL + sweep.lag})
    /\ sweep' = [pc |-> "idle", lag |-> 0]
    /\ UNCHANGED <<web, phase, issued, given>>

Older(s) == [s EXCEPT !.age = IF @ < MaxAge THEN @ + 1 ELSE @]

\* One unit of time.  The sweeper never waits longer than MaxLag, so each tick of
\* the ticker finds it idle.
Tick ==
    /\ sweep.pc = "idle" \/ sweep.lag < MaxLag
    /\ phase' = IF phase + 1 = Period THEN 0 ELSE phase + 1
    /\ sweep' = IF phase + 1 = Period THEN [pc |-> "due", lag |-> 0]
                ELSE IF sweep.pc = "idle" THEN sweep
                ELSE [sweep EXCEPT !.lag = @ + 1]
    /\ sessions' = [c \in DOMAIN sessions |-> Older(sessions[c])]
    /\ UNCHANGED <<web, issued, given>>

\* The daemon is restarted: the map and the requests in flight were in memory.
Restart ==
    /\ sessions' = [c \in {} |-> c]
    /\ web' = [b \in Browser |-> IdlePost]
    /\ phase' = 0
    /\ sweep' = [pc |-> "idle", lag |-> 0]
    /\ UNCHANGED <<issued, given>>

-----------------------------------------------------------------------------

Next ==
    \/ \E c \in Code, s \in ClientState : StartAuthSession(c, s) \/ GetAuthSession(c, s)
    \/ \E c \in Code : LoginGet(c)
    \/ \E b \in Browser, c \in Code : LoginPost(b, c)
    \/ \E b \in Browser : LoginVerify(b) \/ LoginComplete(b)
    \/ SweepRead \/ SweepEvict
    \/ Tick
    \/ Restart

Spec == Init /\ [][Next]_vars

\* Time passes and the sweeper goroutine is scheduled.  Nothing is assumed of
\* browsers, of polls or of restarts.
FairSpec == Spec /\ WF_vars(Tick) /\ WF_vars(SweepRead) /\ WF_vars(SweepEvict)

-----------------------------------------------------------------------------
(* Properties.                                                             *)

\* Single use (Take): however polls, browsers, evictions and restarts interleave,
\* a code is redeemed at most once, for the client_state it was created with and
\* with a token that some user's login put there.
SingleDelivery ==
    \A c \in Code :
        /\ Len(given[c]) <= 1
        /\ \A i \in 1..Len(given[c]) :
              /\ c \in DOMAIN issued /\ given[c][i].to = issued[c]
              /\ given[c][i].by # None

\* Complete: of two users who post the same link at once, the first one decides;
\* the token of a completed session is never replaced.
FirstLoginWins ==
    [][\A c \in DOMAIN sessions \cap DOMAIN sessions' :
         sessions[c].user # None => sessions'[c].user = sessions[c].user]_vars

\* Get, Complete and Take agree on expiry: once a session is older than the TTL no
\* login answers it and no poll redeems it, also when the password was accepted
\* or the token stored before, and also before the sweeper has run.
NothingAfterExpiry ==
    [][\A c \in DOMAIN sessions : sessions[c].age > TTL =>
         /\ given'[c] = given[c]
         /\ c \in DOMAIN sessions' => sessions'[c].user = sessions[c].user]_vars

\* What makes single delivery inductive: a code in the map was issued for the
\* state the session carries and has not been redeemed.
MapUnredeemed ==
    /\ \A c \in DOMAIN sessions :
          /\ c \in DOMAIN issued /\ sessions[c].state = issued[c]
          /\ given[c] = <<>>
    /\ \A c \in Code \ DOMAIN issued : given[c] = <<>>

\* What makes the bound inductive: between two sweeps ages follow the ticker.
SweepOnTime ==
    /\ phase < Period
    /\ \A c \in DOMAIN sessions :
          sessions[c].age <= TTL + phase + (IF sweep.pc = "idle" THEN 0 ELSE Period)
    /\ sweep.pc = "due" => phase = sweep.lag /\ sweep.lag <= MaxLag
    /\ sweep.pc = "read" => /\ sweep.lag <= phase /\ sweep.lag <= MaxLag
                            /\ phase <= sweep.lag + MaxLag

\* Eviction is prompt: with a clock as old as the sweeper may use, a session
\* nobody touches is gone one sweep interval and two waits after it expired.
BoundedResidence ==
    \A c \in DOMAIN sessions : sessions[c].age <= TTL + Period + 2 * MaxLag

\* StartEvictionLoop: the map does not keep a session forever, even if no client
\* ever polls and no browser ever posts again.
SessionsLeave ==
    \A c \in Code : (c \in DOMAIN sessions) ~> (c \notin DOMAIN sessions)

-----------------------------------------------------------------------------
(* The refinement mapping to Handoff.                                      *)

DealOf(c) ==
    CASE c \notin DOMAIN issued -> [st |-> "unissued", to |-> None, by |-> None]
      [] c \in DOMAIN sessions ->
           [st |-> IF sessions[c].user = None THEN "open" ELSE "answered",
            to |-> sessions[c].state, by |-> sessions[c].user]
      [] OTHER -> [st |-> "closed", to |-> None, by |-> None]

Abstract == INSTANCE Handoff WITH deal <- [c \in Code |-> DealOf(c)]

\* The map, its mutex, the clock and the sweeper implement the one-shot handoff.
ImplementsHandoff == Abstract!HandoffSpec

=============================================================================
