------------------------- MODULE SessionStoreProofs -------------------------
(* Theorems about the interactive login, for any number of codes, clients, *)
(* users and browsers and for every session_ttl.                           *)
EXTENDS SessionStore, TLAPS

LEMMA PeriodFacts == Period \in Nat /\ 2 * MaxLag < Period
BY SessionTimes DEF Period

\* A sequence grows by an element of its set.
LEMMA AppendTyped ==
    ASSUME NEW S, NEW q \in Seq(S), NEW e \in S PROVE Append(q, e) \in Seq(S)
OBVIOUS

\* Ageing keeps a session well formed.
LEMMA OlderTyped ==
    ASSUME NEW s \in Session
    PROVE  /\ Older(s) \in Session
           /\ Older(s).state = s.state /\ Older(s).user = s.user
           /\ Older(s).age <= s.age + 1
<1>1. s.age \in Nat /\ s.age + 1 \in Nat /\ MaxAge \in Nat
  BY SessionTimes DEF Session
<1>2. PICK n \in Nat : Older(s) = [s EXCEPT !.age = n] /\ n <= s.age + 1
  BY <1>1 DEF Older
<1> QED
  BY <1>2 DEF Session

\* What one step can do to the map and to the observers.
Evicts == \E C : sessions' = Drop(C) /\ UNCHANGED <<issued, given>>

Opens == \E c \in Code, s \in ClientState : Create(c, s) /\ UNCHANGED given

Answers ==
    \E c \in DOMAIN sessions, u \in Username :
        /\ sessions[c].user = None /\ sessions[c].age <= TTL
        /\ sessions' = [sessions EXCEPT ![c].user = u]
        /\ UNCHANGED <<issued, given>>

Redeems ==
    \E c \in DOMAIN sessions :
        /\ sessions[c].user # None /\ sessions[c].age <= TTL
        /\ sessions' = Drop({c})
        /\ given' = [given EXCEPT
             ![c] = Append(@, [to |-> sessions[c].state, by |-> sessions[c].user])]
        /\ UNCHANGED issued

Ages ==
    /\ sessions' = [c \in DOMAIN sessions |-> Older(sessions[c])]
    /\ UNCHANGED <<issued, given>>

Clears ==
    /\ sessions' = [c \in {} |-> c]
    /\ UNCHANGED <<issued, given>>

\* Every step is one of these, and only the clock ages sessions.
LEMMA MapStep ==
    ASSUME TypeOK, [Next]_vars
    PROVE  Evicts \/ Opens \/ Answers \/ Redeems \/ (Tick /\ Ages) \/ Clears
<1>0. sessions = Drop({})
  BY DEF Drop, TypeOK
<1>1. ASSUME NEW c, Refuse(c), UNCHANGED <<issued, given>> PROVE Evicts
  BY <1>1 DEF Refuse, Evicts
<1>2. ASSUME NEW c \in Code, NEW s \in ClientState, StartAuthSession(c, s) PROVE Opens
  BY <1>2 DEF StartAuthSession, Opens
<1>3. ASSUME NEW c \in Code, NEW s \in ClientState, GetAuthSession(c, s)
      PROVE  Evicts \/ Redeems
  <2>1. CASE Live(c) /\ sessions[c].state = s /\ sessions[c].user # None
    <3>1. sessions[c].age <= TTL
      BY <2>1, SessionTimes DEF Live, Known, Expired, TypeOK, Session
    <3> QED
      BY <1>3, <2>1, <3>1 DEF GetAuthSession, Take, Redeems, Live, Known
  <2>2. CASE ~(Live(c) /\ sessions[c].state = s /\ sessions[c].user # None)
    BY <1>1, <1>3, <2>2 DEF GetAuthSession, Take
  <2> QED
    BY <2>1, <2>2
<1>4. ASSUME NEW b \in Browser, LoginComplete(b) PROVE Evicts \/ Answers
  <2> DEFINE c == web[b].code
             u == web[b].user
  <2>1. c \in Code /\ u \in Username
    BY <1>4 DEF LoginComplete, TypeOK, Post, IdlePost
  <2>2. CASE Live(c) /\ sessions[c].user = None
    <3>1. c \in DOMAIN sessions /\ sessions[c].age <= TTL
      BY <2>2, SessionTimes DEF Live, Known, Expired, TypeOK, Session
    <3> QED
      BY <1>4, <2>1, <2>2, <3>1 DEF LoginComplete, Complete, Answers
  <2>3. CASE ~(Live(c) /\ sessions[c].user = None)
    BY <1>1, <1>4, <2>3 DEF LoginComplete, Complete
  <2> QED
    BY <2>2, <2>3
<1>5. ASSUME NEW b, NEW c, LoginPost(b, c) PROVE Evicts
  BY <1>1, <1>5 DEF LoginPost
<1>6. ASSUME NEW b, LoginVerify(b) \/ SweepRead PROVE Evicts
  BY <1>0, <1>6 DEF LoginVerify, SweepRead, Evicts
<1>7. ASSUME NEW c, LoginGet(c) PROVE Evicts
  BY <1>1, <1>7 DEF LoginGet
<1>8. CASE SweepEvict
  BY <1>8 DEF SweepEvict, Evicts
<1>9. CASE Tick
  BY <1>9 DEF Tick, Ages
<1>10. CASE Restart
  BY <1>10 DEF Restart, Clears
<1>11. CASE UNCHANGED vars
  BY <1>0, <1>11 DEF vars, Evicts
<1>12. SweepRead => Evicts
  BY <1>0 DEF SweepRead, Evicts
<1> QED
  BY <1>2, <1>3, <1>4, <1>5, <1>6, <1>7, <1>8, <1>9, <1>10, <1>11, <1>12 DEF Next

\* The map and the observers keep their types.
LEMMA MapTyped ==
    ASSUME TypeOK, [Next]_vars
    PROVE  /\ DOMAIN sessions' \subseteq Code
           /\ sessions' \in [DOMAIN sessions' -> Session]
           /\ DOMAIN issued' \subseteq Code
           /\ issued' \in [DOMAIN issued' -> ClientState]
           /\ given' \in [Code -> Seq([to : ClientState, by : Username \cup {None}])]
<1> USE DEF TypeOK
<1>1. CASE Evicts
  BY <1>1 DEF Evicts, Drop
<1>2. CASE Opens
  <2>1. PICK c \in Code, s \in ClientState : Create(c, s) /\ UNCHANGED given
    BY <1>2 DEF Opens
  <2>2. [state |-> s, user |-> None, age |-> 0] \in Session
    BY DEF Session
  <2>3. /\ DOMAIN sessions' \subseteq Code
        /\ sessions' \in [DOMAIN sessions' -> Session]
    BY <2>1, <2>2 DEF Create, Put
  <2>4. /\ DOMAIN issued' \subseteq Code
        /\ issued' \in [DOMAIN issued' -> ClientState]
    BY <2>1 DEF Create
  <2> QED
    BY <2>1, <2>3, <2>4
<1>3. CASE Answers
  <2>1. PICK c \in DOMAIN sessions, u \in Username :
          sessions' = [sessions EXCEPT ![c].user = u] /\ UNCHANGED <<issued, given>>
    BY <1>3 DEF Answers
  <2>2. sessions[c] \in Session
    OBVIOUS
  <2>3. [sessions[c] EXCEPT !.user = u] \in Session
    BY <2>2 DEF Session
  <2> QED
    BY <2>1, <2>3
<1>4. CASE Redeems
  <2>1. PICK c \in DOMAIN sessions :
          /\ sessions' = Drop({c})
          /\ given' = [given EXCEPT
               ![c] = Append(@, [to |-> sessions[c].state, by |-> sessions[c].user])]
          /\ UNCHANGED issued
    BY <1>4 DEF Redeems
  <2>2. [to |-> sessions[c].state, by |-> sessions[c].user]
          \in [to : ClientState, by : Username \cup {None}]
    BY DEF Session
  <2>3. Append(given[c], [to |-> sessions[c].state, by |-> sessions[c].user])
          \in Seq([to : ClientState, by : Username \cup {None}])
    BY <2>2, AppendTyped
  <2>4. given' \in [Code -> Seq([to : ClientState, by : Username \cup {None}])]
    BY <2>1, <2>3
  <2>5. /\ DOMAIN sessions' \subseteq Code
        /\ sessions' \in [DOMAIN sessions' -> Session]
    BY <2>1 DEF Drop
  <2> QED
    BY <2>1, <2>4, <2>5
<1>5. CASE Ages
  <2>1. ASSUME NEW c \in DOMAIN sessions
        PROVE  Older(sessions[c]) \in Session
    <3>1. sessions[c] \in Session
      OBVIOUS
    <3> QED
      BY <3>1, OlderTyped
  <2> QED
    BY <1>5, <2>1 DEF Ages
<1>6. CASE Clears
  BY <1>6 DEF Clears
<1> QED
  BY <1>1, <1>2, <1>3, <1>4, <1>5, <1>6, MapStep

LEMMA TypeStep == TypeOK /\ [Next]_vars => TypeOK'
<1> SUFFICES ASSUME TypeOK, [Next]_vars PROVE TypeOK'
  OBVIOUS
<1>1. web' \in [Browser -> Post]
  <2>1. ASSUME NEW b \in Browser, NEW c \in Code, LoginPost(b, c)
        PROVE  web' \in [Browser -> Post]
    <3>1. [pc |-> "verify", code |-> c] \in Post
      BY DEF Post
    <3> QED
      BY <2>1, <3>1 DEF LoginPost, TypeOK
  <2>2. ASSUME NEW b \in Browser, LoginVerify(b) PROVE web' \in [Browser -> Post]
    <3>1. web[b].code \in Code
      BY <2>2 DEF LoginVerify, TypeOK, Post, IdlePost
    <3>2. \A u \in Username : [pc |-> "complete", code |-> web[b].code, user |-> u] \in Post
      BY <3>1 DEF Post
    <3>3. IdlePost \in Post
      BY DEF Post
    <3> QED
      BY <2>2, <3>2, <3>3 DEF LoginVerify, TypeOK
  <2>3. ASSUME NEW b \in Browser, LoginComplete(b) PROVE web' \in [Browser -> Post]
    BY <2>3 DEF LoginComplete, TypeOK, Post
  <2>4. Restart => web' \in [Browser -> Post]
    BY DEF Restart, Post
  <2>5. ASSUME NEW c, NEW s,
               \/ StartAuthSession(c, s) \/ GetAuthSession(c, s) \/ LoginGet(c)
               \/ SweepRead \/ SweepEvict \/ Tick \/ UNCHANGED vars
        PROVE  web' = web
    BY <2>5 DEF StartAuthSession, GetAuthSession, LoginGet, SweepRead, SweepEvict,
         Tick, vars
  <2> QED
    BY <2>1, <2>2, <2>3, <2>4, <2>5 DEF Next, TypeOK
<1>2. phase' \in Nat /\ sweep' \in [pc : {"idle", "due", "read"}, lag : Nat]
  <2>1. Tick => phase' \in Nat /\ sweep' \in [pc : {"idle", "due", "read"}, lag : Nat]
    <3>1. [sweep EXCEPT !.lag = @ + 1] \in [pc : {"idle", "due", "read"}, lag : Nat]
      BY DEF TypeOK
    <3> QED
      BY <3>1 DEF Tick, TypeOK
  <2>2. SweepRead \/ SweepEvict \/ Restart
          => phase' \in Nat /\ sweep' \in [pc : {"idle", "due", "read"}, lag : Nat]
    BY DEF SweepRead, SweepEvict, Restart, TypeOK
  <2>3. ASSUME NEW c, NEW s, NEW b,
               \/ StartAuthSession(c, s) \/ GetAuthSession(c, s) \/ LoginGet(c)
               \/ LoginPost(b, c) \/ LoginVerify(b) \/ LoginComplete(b) \/ UNCHANGED vars
        PROVE  phase' = phase /\ sweep' = sweep
    BY <2>3 DEF StartAuthSession, GetAuthSession, LoginGet, LoginPost, LoginVerify,
         LoginComplete, vars
  <2> QED
    BY <2>1, <2>2, <2>3 DEF Next, TypeOK
<1> QED
  BY <1>1, <1>2, MapTyped DEF TypeOK

\* Only an unredeemed code is in the map, and taking it removes it.
LEMMA DeliveryStep ==
    TypeOK /\ MapUnredeemed /\ SingleDelivery /\ [Next]_vars
        => MapUnredeemed' /\ SingleDelivery'
<1> SUFFICES ASSUME TypeOK, MapUnredeemed, SingleDelivery, [Next]_vars
             PROVE  MapUnredeemed' /\ SingleDelivery'
  OBVIOUS
<1> USE DEF MapUnredeemed, SingleDelivery
<1>1. CASE Evicts
  BY <1>1 DEF Evicts, Drop
<1>2. CASE Opens
  <2>1. PICK c \in Code, s \in ClientState : Create(c, s) /\ UNCHANGED given
    BY <1>2 DEF Opens
  <2> QED
    BY <2>1 DEF Create, Put
<1>3. CASE Answers
  BY <1>3 DEF Answers, TypeOK, Session
<1>4. CASE Redeems
  <2>1. PICK c \in DOMAIN sessions :
          /\ sessions[c].user # None
          /\ sessions' = Drop({c})
          /\ given' = [given EXCEPT
               ![c] = Append(@, [to |-> sessions[c].state, by |-> sessions[c].user])]
          /\ UNCHANGED issued
    BY <1>4 DEF Redeems
  <2>2. given[c] = <<>> /\ sessions[c].state = issued[c] /\ c \in DOMAIN issued /\ c \in Code
    BY DEF TypeOK
  <2>3. given'[c] = <<[to |-> issued[c], by |-> sessions[c].user]>>
    BY <2>1, <2>2 DEF TypeOK
  <2>4. \A d \in Code \ {c} : given'[d] = given[d]
    BY <2>1 DEF TypeOK
  <2> QED
    BY <2>1, <2>2, <2>3, <2>4 DEF Drop
<1>5. CASE Ages
  BY <1>5, OlderTyped DEF Ages, TypeOK
<1>6. CASE Clears
  BY <1>6 DEF Clears
<1> QED
  BY <1>1, <1>2, <1>3, <1>4, <1>5, <1>6, MapStep

\* The inductive invariant of the map.
IInv == TypeOK /\ MapUnredeemed /\ SingleDelivery

LEMMA IInvCorrect == Spec => []IInv
<1>1. Init => IInv
  BY DEF IInv, Init, TypeOK, MapUnredeemed, SingleDelivery, Post
<1>2. IInv /\ [Next]_vars => IInv'
  BY TypeStep, DeliveryStep DEF IInv
<1> QED
  BY <1>1, <1>2, PTL DEF Spec

\* Sessions, login posts and deliveries stay well formed through every
\* interleaving of the RPCs, the login page, the sweeper and restarts.
THEOREM SessionTypeCorrect == Spec => []TypeOK
<1>1. IInv => TypeOK
  BY DEF IInv
<1> QED
  BY <1>1, IInvCorrect, PTL

\* Single use, with the delivery going to whoever opened the code.
THEOREM SingleDeliveryCorrect == Spec => []SingleDelivery
<1>1. IInv => SingleDelivery
  BY DEF IInv
<1> QED
  BY <1>1, IInvCorrect, PTL

\* A completed session keeps the token of the user who completed it first.
THEOREM FirstLoginWinsCorrect == Spec => FirstLoginWins
<1>1. IInv /\ [Next]_vars =>
        [\A c \in DOMAIN sessions \cap DOMAIN sessions' :
           sessions[c].user # None => sessions'[c].user = sessions[c].user]_vars
  <2> SUFFICES ASSUME IInv, TypeOK, [Next]_vars,
                      NEW c \in DOMAIN sessions \cap DOMAIN sessions',
                      sessions[c].user # None
               PROVE  sessions'[c].user = sessions[c].user
    BY DEF IInv
  <2>1. sessions[c] \in Session
    BY DEF TypeOK
  <2>2. CASE Evicts \/ Redeems \/ Clears
    BY <2>2 DEF Evicts, Redeems, Clears, Drop
  <2>3. CASE Opens
    BY <2>3 DEF Opens, Create, Put, IInv, MapUnredeemed
  <2>4. CASE Answers
    BY <2>1, <2>4 DEF Answers, TypeOK
  <2>5. CASE Ages
    BY <2>1, <2>5, OlderTyped DEF Ages
  <2> QED
    BY <2>2, <2>3, <2>4, <2>5, MapStep
<1> QED
  BY <1>1, IInvCorrect, PTL DEF Spec, FirstLoginWins

\* An expired session is neither answered nor redeemed.
THEOREM NothingAfterExpiryCorrect == Spec => NothingAfterExpiry
<1>1. IInv /\ [Next]_vars =>
        [\A c \in DOMAIN sessions : sessions[c].age > TTL =>
           /\ given'[c] = given[c]
           /\ c \in DOMAIN sessions' => sessions'[c].user = sessions[c].user]_vars
  <2> SUFFICES ASSUME IInv, TypeOK, [Next]_vars, NEW c \in DOMAIN sessions,
                      sessions[c].age > TTL
               PROVE  /\ given'[c] = given[c]
                      /\ c \in DOMAIN sessions' => sessions'[c].user = sessions[c].user
    BY DEF IInv
  <2>1. sessions[c] \in Session /\ sessions[c].age \in Nat /\ ~(sessions[c].age <= TTL)
    BY SessionTimes DEF TypeOK, Session
  <2>2. CASE Evicts \/ Clears
    BY <2>2 DEF Evicts, Clears, Drop
  <2>3. CASE Opens
    BY <2>3 DEF Opens, Create, Put, IInv, MapUnredeemed
  <2>4. CASE Answers
    BY <2>1, <2>4 DEF Answers, TypeOK
  <2>5. CASE Redeems
    BY <2>1, <2>5 DEF Redeems, Drop, TypeOK
  <2>6. CASE Ages
    BY <2>1, <2>6, OlderTyped DEF Ages
  <2> QED
    BY <2>2, <2>3, <2>4, <2>5, <2>6, MapStep
<1> QED
  BY <1>1, IInvCorrect, PTL DEF Spec, NothingAfterExpiry

\* Ages between two sweeps: the ticker fires every Period, the sweeper reads the
\* clock at most MaxLag later, and evicts, at most MaxLag after that, everything
\* that was expired when it read.
LEMMA SweepStep == TypeOK /\ SweepOnTime /\ [Next]_vars => SweepOnTime'
<1> SUFFICES ASSUME TypeOK, SweepOnTime, [Next]_vars PROVE SweepOnTime'
  OBVIOUS
<1>0. /\ TTL \in Nat /\ MaxLag \in Nat /\ Period \in Nat /\ 2 * MaxLag < Period
      /\ phase \in Nat /\ sweep.lag \in Nat /\ sweep.pc \in {"idle", "due", "read"}
      /\ \A c \in DOMAIN sessions : sessions[c] \in Session /\ sessions[c].age \in Nat
  BY SessionTimes, PeriodFacts DEF TypeOK, Session
<1>1. ASSUME phase' = phase, sweep' = sweep,
             \A c \in DOMAIN sessions' :
                \/ sessions'[c].age = 0
                \/ c \in DOMAIN sessions /\ sessions'[c].age = sessions[c].age
      PROVE  SweepOnTime'
  BY <1>0, <1>1 DEF SweepOnTime
<1>2. CASE Tick
  <2>1. \A c \in DOMAIN sessions' :
           /\ c \in DOMAIN sessions /\ sessions'[c].age \in Nat
           /\ sessions'[c].age <= sessions[c].age + 1
    BY <1>0, <1>2, OlderTyped DEF Tick, Session
  <2>2. CASE sweep.pc = "idle" /\ phase + 1 = Period
    <3>1. phase' = 0 /\ sweep'.pc = "due" /\ sweep'.lag = 0
      BY <1>2, <2>2 DEF Tick
    <3> QED
      BY <1>0, <2>1, <2>2, <3>1 DEF SweepOnTime
  <2>3. CASE sweep.pc = "idle" /\ phase + 1 # Period
    <3>1. phase' = phase + 1 /\ sweep' = sweep
      BY <1>2, <2>3 DEF Tick
    <3> QED
      BY <1>0, <2>1, <2>3, <3>1 DEF SweepOnTime
  <2>4. CASE sweep.pc # "idle"
    <3>1. sweep.lag < MaxLag /\ phase + 1 < Period
      BY <1>0, <1>2, <2>4 DEF Tick, SweepOnTime
    <3>2. sweep' = [sweep EXCEPT !.lag = @ + 1] /\ phase' = phase + 1
      BY <1>0, <1>2, <2>4, <3>1 DEF Tick
    <3>3. sweep'.pc = sweep.pc /\ sweep'.lag = sweep.lag + 1
      BY <3>2 DEF TypeOK
    <3> QED
      BY <1>0, <2>1, <2>4, <3>1, <3>2, <3>3 DEF SweepOnTime
  <2> QED
    BY <2>2, <2>3, <2>4
<1>3. CASE SweepRead
  BY <1>0, <1>3 DEF SweepRead, SweepOnTime
<1>4. CASE SweepEvict
  <2>1. \A c \in DOMAIN sessions' :
           /\ c \in DOMAIN sessions /\ sessions'[c].age = sessions[c].age
           /\ sessions[c].age <= TTL + sweep.lag
    BY <1>0, <1>4 DEF SweepEvict, Drop
  <2>2. phase' = phase /\ sweep'.pc = "idle" /\ sweep.pc = "read" /\ sweep.lag <= phase
    BY <1>4 DEF SweepEvict, SweepOnTime
  <2> QED
    BY <1>0, <2>1, <2>2 DEF SweepOnTime
<1>5. CASE Restart
  BY <1>0, <1>5 DEF Restart, SweepOnTime
<1>6. CASE UNCHANGED vars
  BY <1>1, <1>6 DEF vars
<1>7. ASSUME NEW b, NEW c, NEW s,
             \/ StartAuthSession(c, s) \/ GetAuthSession(c, s) \/ LoginGet(c)
             \/ LoginPost(b, c) \/ LoginVerify(b) \/ LoginComplete(b)
      PROVE  SweepOnTime'
  <2>1. phase' = phase /\ sweep' = sweep
    BY <1>7 DEF StartAuthSession, GetAuthSession, LoginGet, LoginPost, LoginVerify,
         LoginComplete
  <2>2. CASE ~Tick
    <3>1. \A d \in DOMAIN sessions' :
             \/ sessions'[d].age = 0
             \/ d \in DOMAIN sessions /\ sessions'[d].age = sessions[d].age
      <4>1. CASE Evicts \/ Redeems \/ Clears
        BY <4>1 DEF Evicts, Redeems, Clears, Drop
      <4>2. CASE Opens
        BY <4>2 DEF Opens, Create, Put
      <4>3. CASE Answers
        BY <1>0, <4>3 DEF Answers, Session
      <4> QED
        BY <2>2, <4>1, <4>2, <4>3, MapStep
    <3> QED
      BY <1>1, <2>1, <3>1
  <2> QED
    BY <1>2, <2>2
<1> QED
  BY <1>2, <1>3, <1>4, <1>5, <1>6, <1>7 DEF Next

\* Eviction bounds the time a session can stay in the map.
THEOREM BoundedResidenceCorrect == Spec => []BoundedResidence
<1>1. Init => SweepOnTime
  BY PeriodFacts, SessionTimes DEF Init, SweepOnTime
<1>2. TypeOK /\ SweepOnTime => BoundedResidence
  <2> SUFFICES ASSUME TypeOK, SweepOnTime, NEW c \in DOMAIN sessions
               PROVE  sessions[c].age <= TTL + Period + 2 * MaxLag
    BY DEF BoundedResidence
  <2>1. /\ TTL \in Nat /\ MaxLag \in Nat /\ Period \in Nat
        /\ phase \in Nat /\ sweep.lag \in Nat /\ sweep.pc \in {"idle", "due", "read"}
        /\ sessions[c].age \in Nat
    BY SessionTimes, PeriodFacts DEF TypeOK, Session
  <2> QED
    BY <2>1 DEF SweepOnTime
<1>3. IInv => TypeOK
  BY DEF IInv
<1> QED
  BY <1>1, <1>2, <1>3, SweepStep, IInvCorrect, PTL DEF Spec

-----------------------------------------------------------------------------
(* Refinement.                                                             *)

Deals == [c \in Code |-> DealOf(c)]

\* Evicting, ageing and clearing drop deals or leave them alone.
LEMMA DropRefines ==
    ASSUME IInv, TypeOK, TypeOK', NEW C \in SUBSET Code, UNCHANGED <<issued, given>>,
           DOMAIN sessions' = DOMAIN sessions \ C,
           \A c \in DOMAIN sessions' : /\ sessions'[c].state = sessions[c].state
                                       /\ sessions'[c].user = sessions[c].user
    PROVE  Abstract!Drop(C \cap DOMAIN sessions)
<1>1. \A c \in C \cap DOMAIN sessions : Deals[c].st \in {"open", "answered"}
  BY DEF Deals, DealOf, IInv, MapUnredeemed
<1>2. Deals' = [c \in Code |-> IF c \in C \cap DOMAIN sessions
                                THEN Abstract!Closed ELSE Deals[c]]
  <2> SUFFICES ASSUME NEW c \in Code
               PROVE  DealOf(c)' = IF c \in C \cap DOMAIN sessions
                                   THEN Abstract!Closed ELSE DealOf(c)
    BY DEF Deals
  <2>1. CASE c \in C \cap DOMAIN sessions
    BY <2>1 DEF DealOf, Abstract!Closed, IInv, MapUnredeemed
  <2>2. CASE c \notin C \cap DOMAIN sessions
    BY <2>2 DEF DealOf
  <2> QED
    BY <2>1, <2>2
<1> QED
  BY <1>1, <1>2 DEF Abstract!Drop, Deals

\* Every step of the store is a step of the handoff, or none.
LEMMA HandoffStep ==
    IInv /\ IInv' /\ [Next]_vars => [Abstract!HandoffNext]_<<Deals, given>>
<1> SUFFICES ASSUME IInv, IInv', TypeOK, TypeOK', MapUnredeemed, [Next]_vars
             PROVE  [Abstract!HandoffNext]_<<Deals, given>>
  BY DEF IInv
<1>1. CASE Evicts
  <2>1. PICK C : sessions' = Drop(C) /\ UNCHANGED <<issued, given>>
    BY <1>1 DEF Evicts
  <2>2. Abstract!Drop((C \cap Code) \cap DOMAIN sessions)
    <3>1. DOMAIN sessions' = DOMAIN sessions \ (C \cap Code)
      BY <2>1 DEF Drop, TypeOK
    <3> QED
      BY <2>1, <3>1, DropRefines DEF Drop
  <2>3. (C \cap Code) \cap DOMAIN sessions \in SUBSET Code
    OBVIOUS
  <2> QED
    BY <2>2, <2>3 DEF Abstract!HandoffNext
<1>2. CASE Opens
  <2>1. PICK c \in Code, s \in ClientState : Create(c, s) /\ UNCHANGED given
    BY <1>2 DEF Opens
  <2>2. Deals[c].st = "unissued"
    BY <2>1 DEF Create, Deals, DealOf, MapUnredeemed
  <2>3. ASSUME NEW d \in Code
        PROVE  DealOf(d)' = IF d = c THEN [st |-> "open", to |-> s, by |-> None] ELSE DealOf(d)
    BY <2>1 DEF Create, Put, DealOf
  <2>4. Deals' = [Deals EXCEPT ![c] = [st |-> "open", to |-> s, by |-> None]]
    BY <2>3 DEF Deals
  <2>5. Abstract!Open(c, s)
    BY <2>1, <2>2, <2>4 DEF Abstract!Open, Deals
  <2> QED
    BY <2>5 DEF Abstract!HandoffNext
<1>3. CASE Answers
  <2>1. PICK c \in DOMAIN sessions, u \in Username :
          /\ sessions[c].user = None
          /\ sessions' = [sessions EXCEPT ![c].user = u]
          /\ UNCHANGED <<issued, given>>
    BY <1>3 DEF Answers
  <2>2. c \in Code /\ c \in DOMAIN issued /\ u # None /\ sessions[c] \in Session
    BY NoneIsNobody DEF TypeOK, MapUnredeemed
  <2>3. /\ DOMAIN sessions' = DOMAIN sessions
        /\ sessions'[c].user = u /\ sessions'[c].state = sessions[c].state
        /\ \A d \in DOMAIN sessions \ {c} : sessions'[d] = sessions[d]
    BY <2>1, <2>2 DEF Session
  <2>4. Deals[c].st = "open" /\ Deals[c].to = sessions[c].state
    BY <2>1, <2>2 DEF Deals, DealOf
  <2>5. ASSUME NEW d \in Code
        PROVE  DealOf(d)' = IF d = c THEN [st |-> "answered", to |-> Deals[c].to, by |-> u]
                            ELSE DealOf(d)
    BY <2>1, <2>2, <2>3, <2>4 DEF DealOf
  <2>6. Deals' = [Deals EXCEPT ![c] = [st |-> "answered", to |-> Deals[c].to, by |-> u]]
    BY <2>5 DEF Deals
  <2>7. Abstract!Answer(c, u)
    BY <2>1, <2>4, <2>6 DEF Abstract!Answer, Deals
  <2> QED
    BY <2>2, <2>7 DEF Abstract!HandoffNext
<1>4. CASE Redeems
  <2>1. PICK c \in DOMAIN sessions :
          /\ sessions[c].user # None
          /\ sessions' = Drop({c})
          /\ given' = [given EXCEPT
               ![c] = Append(@, [to |-> sessions[c].state, by |-> sessions[c].user])]
          /\ UNCHANGED issued
    BY <1>4 DEF Redeems
  <2>2. c \in Code /\ c \in DOMAIN issued
    BY DEF TypeOK, MapUnredeemed
  <2>3. /\ Deals[c].st = "answered" /\ Deals[c].to = sessions[c].state
        /\ Deals[c].by = sessions[c].user
    BY <2>1, <2>2 DEF Deals, DealOf
  <2>4. ASSUME NEW d \in Code
        PROVE  DealOf(d)' = IF d = c THEN Abstract!Closed ELSE DealOf(d)
    BY <2>1, <2>2 DEF DealOf, Drop, Abstract!Closed
  <2>5. Deals' = [Deals EXCEPT ![c] = Abstract!Closed]
    BY <2>4 DEF Deals
  <2>6. given' = [given EXCEPT ![c] = Append(@, [to |-> Deals[c].to, by |-> Deals[c].by])]
    BY <2>1, <2>3
  <2>7. Abstract!Hand(c)
    BY <2>3, <2>5, <2>6 DEF Abstract!Hand, Deals
  <2> QED
    BY <2>2, <2>7 DEF Abstract!HandoffNext
<1>5. CASE Tick /\ Ages
  <2>1. /\ DOMAIN sessions' = DOMAIN sessions \ {}
        /\ \A c \in DOMAIN sessions' : /\ sessions'[c].state = sessions[c].state
                                        /\ sessions'[c].user = sessions[c].user
        /\ UNCHANGED <<issued, given>>
    BY <1>5, OlderTyped DEF Ages, TypeOK
  <2>2. Abstract!Drop({} \cap DOMAIN sessions)
    BY <2>1, DropRefines
  <2> QED
    BY <2>2 DEF Abstract!HandoffNext
<1>6. CASE Clears
  <2>1. Abstract!Drop(Code \cap DOMAIN sessions)
    BY <1>6, DropRefines DEF Clears, TypeOK
  <2> QED
    BY <2>1 DEF Abstract!HandoffNext
<1> QED
  BY <1>1, <1>2, <1>3, <1>4, <1>5, <1>6, MapStep

\* SessionStore, its callers and its eviction loop implement the one-shot handoff.
THEOREM HandoffCorrect == Spec => ImplementsHandoff
<1>1. Init => Abstract!HandoffInit
  BY DEF Init, Abstract!HandoffInit, DealOf
<1>2. IInv /\ IInv' /\ [Next]_vars
        => [Abstract!HandoffNext]_<<[c \in Code |-> DealOf(c)], given>>
  BY HandoffStep DEF Deals
<1> QED
  BY <1>1, <1>2, IInvCorrect, PTL DEF Spec, ImplementsHandoff, Abstract!HandoffSpec
=============================================================================
