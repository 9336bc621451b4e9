---------------------------- MODULE DaemonProofs ----------------------------
(***************************************************************************)
(* The safety properties of Daemon for any number of processes, starts,    *)
(* browsers and names, and every users.json.  KeyInv is why O_EXCL is      *)
(* enough: the one process that fills the key file holds it torn until     *)
(* then, so no key is in anybody's memory.  ImportInv is why two imports   *)
(* cannot mix: every import starts with the same first name, and only one  *)
(* process gets past it.                                                   *)
(***************************************************************************)
EXTENDS Daemon, TLAPS

\* The steps of a process that has its signing key.
HasKey == {"sign", "hasUsers", "import", "tls", "readCert", "readKey", "openCert",
           "writeCert", "openKey", "writeKey", "listen"}

\* Nobody listens before the start-up is over.
ListenInv == \A p \in Proc, l \in Ports : port[l] = p => pc[p] = "listen"

KeyInv ==
    /\ \A p \in Proc : pc[p] # "down" => run[p] > 0
    /\ \A p \in Proc : key[p] # Absent => keyFile = key[p]
    /\ \A p \in Proc : pc[p] \in HasKey => key[p] # Absent
    /\ \A p \in Proc : pc[p] = "write" => keyFile = Torn
    /\ \A p, q \in Proc : pc[p] = "write" /\ pc[q] = "write" => p = q
    /\ Absent \notin signed /\ OneSigningKey

\* A start's number is used once, and its gate signs for one secret.
GateInv ==
    /\ \A p \in Proc : run[p] <= starts
    /\ \A p, q \in Proc : run[p] = run[q] /\ run[p] # 0 => p = q
    /\ \A w \in Browser : jar[w] # NoCookie => jar[w].gate # 0 /\ jar[w].gate <= starts
    /\ \A p \in Proc, w \in Browser :
           jar[w] # NoCookie /\ jar[w].gate = run[p] => jar[w].secret = secret[p]

\* Row i holds the first name of the file.
First(i) == i \in 1..Len(legacy) /\ legacy[i] \in Name /\ Prefix(i - 1) = {}

\* An import that has inserted nothing yet, and one that has.
Begun(p) ==
    /\ row[p] \in 1..(Len(legacy) + 1)
    /\ IF any[p] THEN imported # {} /\ imported = Prefix(row[p] - 1)
                 ELSE Prefix(row[p] - 1) = {}

ImportInv ==
    /\ \A p \in Proc : pc[p] = "import" => Begun(p)
    /\ \A p \in Proc : pc[p] \notin {"import", "tls", "readCert", "readKey", "openCert",
                                     "writeCert", "openKey", "writeKey", "listen"} => ~any[p]
    /\ \A p, q \in Proc : pc[p] = "import" /\ pc[q] = "import" /\ any[p] /\ any[q] => p = q
    /\ imported = {} => admins = {}
    /\ imported # {} => /\ \E n \in 0..Len(legacy) : imported = Prefix(n)
                        /\ \E i \in 1..Len(legacy) : admins = {legacy[i]} /\ First(i)

-----------------------------------------------------------------------------
(* Types.                                                                  *)

\* What is left of a process that has ended.
LEMMA ExitTyped ==
    ASSUME TypeOK, NEW p \in Proc, Exit(p)
    PROVE  /\ pc' \in [Proc -> Steps] /\ run' \in [Proc -> 0..MaxStarts]
           /\ tool' \in [Proc -> BOOLEAN] /\ key' \in [Proc -> 0..MaxStarts]
           /\ row' \in [Proc -> Nat] /\ any' \in [Proc -> BOOLEAN]
           /\ cert' \in [Proc -> Content] /\ secret' \in [Proc -> Secret]
           /\ port' \in [Ports -> Proc \cup {Nobody}]
BY DaemonBounds, NoSecretIsOne DEF Exit, TypeOK, Steps, Content, Absent

\* A process that gives up, or is killed, disturbs nothing else.
LEMMA FailTyped ==
    ASSUME TypeOK, NEW p \in Proc, NEW from, Fail(p, from)
    PROVE  TypeOK'
BY ExitTyped DEF Fail, TypeOK, files, table

LEMMA StartUpTyped ==
    ASSUME TypeOK, NEW p \in Proc, StartUp(p)
    PROVE  TypeOK'
<1>1. CASE StatKey(p)
  BY <1>1, DaemonBounds DEF StatKey, Step, TypeOK, Steps, files, table
<1>2. CASE LoadKey(p)
  BY <1>2, DaemonBounds DEF LoadKey, Step, TypeOK, Steps, files, table, AfterKey, Content
<1>3. CASE CreateKey(p)
  BY <1>3, DaemonBounds DEF CreateKey, Step, TypeOK, Steps, files, table, Content, Torn
<1>4. CASE WriteKey(p)
  BY <1>4, DaemonBounds DEF WriteKey, Step, TypeOK, Steps, files, table, AfterKey, Content, Torn
<1>5. CASE HasUsers(p)
  BY <1>5, DaemonBounds DEF HasUsers, Step, TypeOK, Steps, files, table
<1>6. CASE ImportRow(p)
  BY <1>6, DaemonBounds DEF ImportRow, Step, TypeOK, Steps, files, table
<1>7. CASE SkipRow(p)
  BY <1>7, DaemonBounds DEF SkipRow, Step, TypeOK, Steps, files, table
<1>8. CASE ImportDone(p)
  BY <1>8, DaemonBounds DEF ImportDone, Step, TypeOK, Steps, files, table
<1>9. CASE StatTLS(p)
  BY <1>9, DaemonBounds DEF StatTLS, Step, TypeOK, Steps, files, table
<1>10. CASE ReadCert(p)
  BY <1>10, DaemonBounds DEF ReadCert, Step, TypeOK, Steps, files, table, Content, Torn
<1>11. CASE ReadTLSKey(p)
  BY <1>11, DaemonBounds DEF ReadTLSKey, Step, TypeOK, Steps, files, table
<1>12. CASE OpenCert(p)
  BY <1>12, DaemonBounds DEF OpenCert, Step, TypeOK, Steps, files, table, Content, Torn
<1>13. CASE WriteCert(p)
  BY <1>13, DaemonBounds DEF WriteCert, Step, TypeOK, Steps, files, table, Content, Torn
<1>14. CASE OpenTLSKey(p)
  BY <1>14, DaemonBounds DEF OpenTLSKey, Step, TypeOK, Steps, files, table, Content, Torn
<1>15. CASE WriteTLSKey(p)
  BY <1>15, DaemonBounds DEF WriteTLSKey, Step, TypeOK, Steps, files, table, Content, Torn
<1>16. CASE KeyRefused(p)
  BY <1>16, FailTyped DEF KeyRefused
<1>17. CASE KeyExists(p)
  BY <1>17, FailTyped DEF KeyExists
<1>18. CASE RowRefused(p)
  BY <1>18, FailTyped DEF RowRefused
<1>19. CASE HalfPresent(p)
  BY <1>19, FailTyped DEF HalfPresent
<1>20. CASE PairRefused(p)
  BY <1>20, FailTyped DEF PairRefused
<1>21. CASE ToolSigns(p)
  BY <1>21, ExitTyped DEF ToolSigns, TypeOK, files, table
<1>22. CASE \E l \in Ports : Bind(p, l) \/ PortTaken(p, l)
  BY <1>22, FailTyped DEF Bind, PortTaken, TypeOK, locals, files, table
<1> QED
  BY <1>1, <1>2, <1>3, <1>4, <1>5, <1>6, <1>7, <1>8, <1>9, <1>10, <1>11, <1>12, <1>13,
     <1>14, <1>15, <1>16, <1>17, <1>18, <1>19, <1>20, <1>21, <1>22 DEF StartUp

LEMMA TypeStep ==
    ASSUME TypeOK, [Next]_vars
    PROVE  TypeOK'
<1>1. CASE \E p \in Proc : Start(p)
  <2> PICK p \in Proc : Start(p)
    BY <1>1
  <2>1. starts' \in 0..MaxStarts /\ starts + 1 \in 0..MaxStarts
    BY DaemonBounds DEF Start, TypeOK
  <2> QED
    BY <2>1 DEF Start, Step, TypeOK, Steps, files, table
<1>2. CASE \E p \in Proc : Crash(p)
  BY <1>2, ExitTyped DEF Crash, TypeOK, files, table
<1>3. CASE \E p \in Proc : StartUp(p)
  BY <1>3, StartUpTyped
<1>4. CASE \E p \in Proc : Signs(p)
  <2> PICK p \in Proc : Signs(p)
    BY <1>4
  <2>1. key[p] \in 0..MaxStarts
    BY DEF TypeOK
  <2> QED
    BY <2>1 DEF Signs, TypeOK, locals, files, table
<1>5. CASE \E p \in Proc, w \in Browser : Unlock(p, w)
  BY <1>5, DaemonBounds DEF Unlock, TypeOK, Cookie, locals, files, table
<1>6. CASE \E p \in Proc, w \in Browser : AdminUserCreate(p, w)
  BY <1>6 DEF AdminUserCreate, TypeOK, locals, files
<1>7. CASE RemoveTornKey
  BY <1>7, DaemonBounds DEF RemoveTornKey, TypeOK, Content, Absent, locals, table
<1>8. CASE RemovePair
  BY <1>8, DaemonBounds DEF RemovePair, TypeOK, Content, Absent, locals, table
<1>9. CASE UserAdd
  BY <1>9 DEF UserAdd, TypeOK, locals, files
<1>10. CASE Tick
  BY <1>10, DaemonBounds, NoCookieIsNone DEF Tick, TypeOK, Cookie, locals, files, table
<1>11. CASE UNCHANGED vars
  BY <1>11 DEF vars, TypeOK, locals, files, table
<1> QED
  BY <1>1, <1>2, <1>3, <1>4, <1>5, <1>6, <1>7, <1>8, <1>9, <1>10, <1>11 DEF Next

-----------------------------------------------------------------------------
(* Listening, and the signing key.                                         *)

LEMMA ExitFrame ==
    ASSUME TypeOK, NEW p \in Proc, Exit(p)
    PROVE  /\ pc'[p] = "down" /\ run'[p] = 0 /\ key'[p] = Absent /\ any'[p] = FALSE
           /\ \A q \in Proc \ {p} : /\ pc'[q] = pc[q] /\ run'[q] = run[q] /\ key'[q] = key[q]
                                     /\ row'[q] = row[q] /\ any'[q] = any[q] /\ secret'[q] = secret[q]
           /\ \A l \in Ports : port'[l] # p
           /\ \A l \in Ports, q \in Proc \ {p} : port'[l] = q => port[l] = q
BY NobodyIsNone DEF Exit, TypeOK

\* The steps that end the process p.
Ends(p) == Crash(p) \/ ToolSigns(p) \/ \E from \in Steps : Fail(p, from)

LEMMA EndsCases ==
    ASSUME NEW p \in Proc,
           \/ KeyRefused(p) \/ KeyExists(p) \/ RowRefused(p) \/ HalfPresent(p)
           \/ PairRefused(p) \/ \E l \in Ports : PortTaken(p, l)
    PROVE  Ends(p)
BY DEF KeyRefused, KeyExists, RowRefused, HalfPresent, PairRefused, PortTaken, Ends, Steps

LEMMA ListenOwn ==
    ASSUME TypeOK, ListenInv, NEW p \in Proc, Start(p) \/ Crash(p) \/ StartUp(p)
    PROVE  ListenInv'
<1>1. CASE Start(p)
  BY <1>1 DEF Start, Step, ListenInv, TypeOK
<1>2. CASE StatKey(p)
  BY <1>2 DEF StatKey, Step, ListenInv, TypeOK
<1>3. CASE LoadKey(p)
  BY <1>3 DEF LoadKey, Step, ListenInv, TypeOK
<1>4. CASE CreateKey(p)
  BY <1>4 DEF CreateKey, Step, ListenInv, TypeOK
<1>5. CASE WriteKey(p)
  BY <1>5 DEF WriteKey, Step, ListenInv, TypeOK
<1>6. CASE HasUsers(p)
  BY <1>6 DEF HasUsers, Step, ListenInv, TypeOK
<1>7. CASE ImportRow(p)
  BY <1>7 DEF ImportRow, Step, ListenInv, TypeOK
<1>8. CASE SkipRow(p)
  BY <1>8 DEF SkipRow, Step, ListenInv, TypeOK
<1>9. CASE ImportDone(p)
  BY <1>9 DEF ImportDone, Step, ListenInv, TypeOK
<1>10. CASE StatTLS(p)
  BY <1>10 DEF StatTLS, Step, ListenInv, TypeOK
<1>11. CASE ReadCert(p)
  BY <1>11 DEF ReadCert, Step, ListenInv, TypeOK
<1>12. CASE ReadTLSKey(p)
  BY <1>12 DEF ReadTLSKey, Step, ListenInv, TypeOK
<1>13. CASE OpenCert(p)
  BY <1>13 DEF OpenCert, Step, ListenInv, TypeOK
<1>14. CASE WriteCert(p)
  BY <1>14 DEF WriteCert, Step, ListenInv, TypeOK
<1>15. CASE OpenTLSKey(p)
  BY <1>15 DEF OpenTLSKey, Step, ListenInv, TypeOK
<1>16. CASE WriteTLSKey(p)
  BY <1>16 DEF WriteTLSKey, Step, ListenInv, TypeOK
<1>17. CASE Ends(p)
  <2>1. Exit(p)
    BY <1>17 DEF Ends, Crash, ToolSigns, Fail
  <2>2. /\ \A q \in Proc \ {p} : pc'[q] = pc[q]
        /\ \A l \in Ports : port'[l] # p
        /\ \A l \in Ports, q \in Proc \ {p} : port'[l] = q => port[l] = q
    BY <2>1, ExitFrame
  <2> QED
    BY <2>2 DEF ListenInv
<1>18. CASE \E l \in Ports : Bind(p, l)
  BY <1>18 DEF Bind, ListenInv, TypeOK, locals
<1>19. Crash(p) => Ends(p)
  BY DEF Ends
<1>20. ToolSigns(p) => Ends(p)
  BY DEF Ends
<1> QED
  BY <1>1, <1>2, <1>3, <1>4, <1>5, <1>6, <1>7, <1>8, <1>9, <1>10, <1>11, <1>12, <1>13,
     <1>14, <1>15, <1>16, <1>17, <1>18, <1>19, <1>20, EndsCases DEF StartUp

LEMMA ListenStep ==
    ASSUME TypeOK, ListenInv, [Next]_vars
    PROVE  ListenInv'
<1>1. CASE \E p \in Proc : Start(p) \/ Crash(p) \/ StartUp(p)
  BY <1>1, ListenOwn
<1>2. CASE \E p \in Proc : Signs(p)
  BY <1>2 DEF Signs, ListenInv, locals, files, table
<1>3. CASE \E p \in Proc, w \in Browser : Unlock(p, w)
  BY <1>3 DEF Unlock, ListenInv, locals, files, table
<1>4. CASE \E p \in Proc, w \in Browser : AdminUserCreate(p, w)
  BY <1>4 DEF AdminUserCreate, ListenInv, locals, files, table
<1>5. CASE RemoveTornKey
  BY <1>5 DEF RemoveTornKey, ListenInv, locals, files, table
<1>6. CASE RemovePair
  BY <1>6 DEF RemovePair, ListenInv, locals, files, table
<1>7. CASE UserAdd
  BY <1>7 DEF UserAdd, ListenInv, locals, files, table
<1>8. CASE Tick
  BY <1>8 DEF Tick, ListenInv, locals, files, table
<1>9. CASE UNCHANGED vars
  BY <1>9 DEF vars, ListenInv, locals, files, table
<1> QED
  BY <1>1, <1>2, <1>3, <1>4, <1>5, <1>6, <1>7, <1>8, <1>9 DEF Next

LEMMA KeyOwn ==
    ASSUME TypeOK, KeyInv, NEW p \in Proc, Start(p) \/ Crash(p) \/ StartUp(p)
    PROVE  KeyInv'
<1>1. CASE Start(p)
  BY <1>1, DaemonBounds DEF Start, Step, files, KeyInv, HasKey, OneSigningKey, TypeOK
<1>2. CASE StatKey(p)
  BY <1>2 DEF StatKey, Step, files, KeyInv, HasKey, OneSigningKey, TypeOK
<1>3. CASE LoadKey(p)
  BY <1>3, DaemonBounds DEF LoadKey, Step, files, KeyInv, HasKey, OneSigningKey, TypeOK,
     AfterKey, Content, Torn, Absent
<1>4. CASE CreateKey(p)
  BY <1>4, DaemonBounds DEF CreateKey, Step, files, KeyInv, HasKey, OneSigningKey, TypeOK,
     Torn, Absent
<1>5. CASE WriteKey(p)
  BY <1>5, DaemonBounds DEF WriteKey, Step, files, KeyInv, HasKey, OneSigningKey, TypeOK,
     AfterKey, Content, Torn, Absent
<1>6. CASE HasUsers(p)
  BY <1>6 DEF HasUsers, Step, files, KeyInv, HasKey, OneSigningKey, TypeOK
<1>7. CASE ImportRow(p)
  BY <1>7 DEF ImportRow, Step, files, KeyInv, HasKey, OneSigningKey, TypeOK
<1>8. CASE SkipRow(p)
  BY <1>8 DEF SkipRow, Step, files, KeyInv, HasKey, OneSigningKey, TypeOK
<1>9. CASE ImportDone(p)
  BY <1>9 DEF ImportDone, Step, files, KeyInv, HasKey, OneSigningKey, TypeOK
<1>10. CASE StatTLS(p)
  BY <1>10 DEF StatTLS, Step, files, KeyInv, HasKey, OneSigningKey, TypeOK
<1>11. CASE ReadCert(p)
  BY <1>11 DEF ReadCert, Step, files, KeyInv, HasKey, OneSigningKey, TypeOK
<1>12. CASE ReadTLSKey(p)
  BY <1>12 DEF ReadTLSKey, Step, files, KeyInv, HasKey, OneSigningKey, TypeOK
<1>13. CASE OpenCert(p)
  BY <1>13 DEF OpenCert, Step, files, KeyInv, HasKey, OneSigningKey, TypeOK
<1>14. CASE WriteCert(p)
  BY <1>14 DEF WriteCert, Step, files, KeyInv, HasKey, OneSigningKey, TypeOK
<1>15. CASE OpenTLSKey(p)
  BY <1>15 DEF OpenTLSKey, Step, files, KeyInv, HasKey, OneSigningKey, TypeOK
<1>16. CASE WriteTLSKey(p)
  BY <1>16 DEF WriteTLSKey, Step, files, KeyInv, HasKey, OneSigningKey, TypeOK
<1>17. CASE ToolSigns(p)
  <2>1. Exit(p) /\ key[p] # Absent /\ keyFile = key[p] /\ keyFile' = keyFile
    BY <1>17 DEF ToolSigns, files, KeyInv, HasKey
  <2>2. signed' = signed \cup {key[p]}
    BY <1>17 DEF ToolSigns
  <2>3. /\ pc'[p] = "down" /\ run'[p] = 0 /\ key'[p] = Absent /\ any'[p] = FALSE
        /\ \A q \in Proc \ {p} : pc'[q] = pc[q] /\ run'[q] = run[q] /\ key'[q] = key[q]
    BY <2>1, ExitFrame
  <2> QED
    BY <2>1, <2>2, <2>3 DEF KeyInv, HasKey, OneSigningKey, TypeOK
<1>18. CASE Crash(p) \/ \E from \in Steps : Fail(p, from)
  <2>1. Exit(p) /\ keyFile' = keyFile /\ signed' = signed
    BY <1>18 DEF Crash, Fail, files
  <2>3. /\ pc'[p] = "down" /\ run'[p] = 0 /\ key'[p] = Absent /\ any'[p] = FALSE
        /\ \A q \in Proc \ {p} : pc'[q] = pc[q] /\ run'[q] = run[q] /\ key'[q] = key[q]
    BY <2>1, ExitFrame
  <2> QED
    BY <2>1, <2>3 DEF KeyInv, HasKey, OneSigningKey, TypeOK
<1>19. CASE \E l \in Ports : Bind(p, l)
  BY <1>19 DEF Bind, locals, files, KeyInv, HasKey, OneSigningKey, TypeOK
<1>20. Ends(p) => ToolSigns(p) \/ Crash(p) \/ \E from \in Steps : Fail(p, from)
  BY DEF Ends
<1> QED
  BY <1>1, <1>2, <1>3, <1>4, <1>5, <1>6, <1>7, <1>8, <1>9, <1>10, <1>11, <1>12, <1>13,
     <1>14, <1>15, <1>16, <1>17, <1>18, <1>19, <1>20, EndsCases DEF StartUp

LEMMA KeyStep ==
    ASSUME TypeOK, ListenInv, KeyInv, [Next]_vars
    PROVE  KeyInv'
<1>1. CASE \E p \in Proc : Start(p) \/ Crash(p) \/ StartUp(p)
  BY <1>1, KeyOwn
<1>2. CASE \E p \in Proc : Signs(p)
  BY <1>2 DEF Signs, ListenInv, KeyInv, HasKey, OneSigningKey, TypeOK, locals, files, table
<1>3. CASE \E p \in Proc, w \in Browser : Unlock(p, w)
  BY <1>3 DEF Unlock, KeyInv, HasKey, OneSigningKey, TypeOK, locals, files, table
<1>4. CASE \E p \in Proc, w \in Browser : AdminUserCreate(p, w)
  BY <1>4 DEF AdminUserCreate, KeyInv, HasKey, OneSigningKey, TypeOK, locals, files, table
<1>5. CASE RemoveTornKey
  BY <1>5 DEF RemoveTornKey, Absent, Torn, KeyInv, HasKey, OneSigningKey, TypeOK, locals,
     files, table
<1>6. CASE RemovePair
  BY <1>6 DEF RemovePair, KeyInv, HasKey, OneSigningKey, TypeOK, locals, files, table
<1>7. CASE UserAdd
  BY <1>7 DEF UserAdd, KeyInv, HasKey, OneSigningKey, TypeOK, locals, files, table
<1>8. CASE Tick
  BY <1>8 DEF Tick, KeyInv, HasKey, OneSigningKey, TypeOK, locals, files, table
<1>9. CASE UNCHANGED vars
  BY <1>9 DEF vars, KeyInv, HasKey, OneSigningKey, TypeOK, locals, files, table
<1> QED
  BY <1>1, <1>2, <1>3, <1>4, <1>5, <1>6, <1>7, <1>8, <1>9 DEF Next

-----------------------------------------------------------------------------
(* The admin gate.                                                         *)

\* The steps of a start-up that goes on.
Goes(p) ==
    \/ StatKey(p) \/ LoadKey(p) \/ CreateKey(p) \/ WriteKey(p)
    \/ HasUsers(p) \/ ImportRow(p) \/ SkipRow(p) \/ ImportDone(p)
    \/ StatTLS(p) \/ ReadCert(p) \/ ReadTLSKey(p)
    \/ OpenCert(p) \/ WriteCert(p) \/ OpenTLSKey(p) \/ WriteTLSKey(p)
    \/ \E l \in Ports : Bind(p, l)

LEMMA StartUpCases ==
    ASSUME NEW p \in Proc, StartUp(p)
    PROVE  Goes(p) \/ Ends(p)
<1>1. ToolSigns(p) => Ends(p)
  BY DEF Ends
<1> QED
  BY <1>1, EndsCases DEF StartUp, Goes

LEMMA GateOwn ==
    ASSUME TypeOK, GateInv, NEW p \in Proc, Start(p) \/ Crash(p) \/ StartUp(p)
    PROVE  GateInv'
<1>1. CASE Start(p)
  <2>1. /\ starts \in Nat /\ starts' = starts + 1 /\ run'[p] = starts + 1 /\ jar' = jar
        /\ \A q \in Proc \ {p} : run'[q] = run[q] /\ secret'[q] = secret[q]
    BY <1>1, DaemonBounds DEF Start, Step, TypeOK
  <2>2. \A q \in Proc : run[q] \in Nat
    BY DaemonBounds DEF TypeOK
  <2>3. \A w \in Browser : jar[w] # NoCookie => jar[w].gate \in Nat
    BY DaemonBounds DEF TypeOK, Cookie
  <2>4. (\A q \in Proc : run[q] <= starts)'
    BY <2>1, <2>2 DEF GateInv
  <2>5. (\A r, q \in Proc : run[r] = run[q] /\ run[r] # 0 => r = q)'
    BY <2>1, <2>2 DEF GateInv
  <2>6. (\A w \in Browser : jar[w] # NoCookie => jar[w].gate # 0 /\ jar[w].gate <= starts)'
    BY <2>1, <2>3 DEF GateInv
  <2>7. ASSUME NEW q \in Proc, NEW w \in Browser, jar[w] # NoCookie, jar[w].gate = run'[q]
        PROVE  jar[w].secret = secret'[q]
    BY <2>1, <2>3, <2>7 DEF GateInv
  <2> QED
    BY <2>1, <2>4, <2>5, <2>6, <2>7 DEF GateInv
<1>2. CASE Ends(p)
  <2>1. Exit(p) /\ starts' = starts /\ jar' = jar
    BY <1>2 DEF Ends, Crash, ToolSigns, Fail
  <2>2. /\ run'[p] = 0
        /\ \A q \in Proc \ {p} : run'[q] = run[q] /\ secret'[q] = secret[q]
    BY <2>1, ExitFrame
  <2>3. \A w \in Browser : jar[w] # NoCookie => jar[w].gate # 0
    BY DEF GateInv
  <2>4. starts \in Nat
    BY DaemonBounds DEF TypeOK
  <2> QED
    BY <2>1, <2>2, <2>3, <2>4 DEF GateInv
<1>3. CASE Goes(p)
  <2>1. UNCHANGED <<starts, run, secret, jar>>
    BY <1>3 DEF Goes, StatKey, LoadKey, CreateKey, WriteKey, HasUsers, ImportRow, SkipRow,
                ImportDone, StatTLS, ReadCert, ReadTLSKey, OpenCert, WriteCert, OpenTLSKey,
                WriteTLSKey, Bind, locals
  <2> QED
    BY <2>1 DEF GateInv
<1>4. Crash(p) => Ends(p)
  BY DEF Ends
<1> QED
  BY <1>1, <1>2, <1>3, <1>4, StartUpCases

LEMMA GateStep ==
    ASSUME TypeOK, ListenInv, KeyInv, GateInv, [Next]_vars
    PROVE  GateInv'
<1>1. CASE \E p \in Proc : Start(p) \/ Crash(p) \/ StartUp(p)
  BY <1>1, GateOwn
<1>2. CASE \E p \in Proc : Signs(p)
  BY <1>2 DEF Signs, GateInv, locals, files, table
<1>3. CASE \E p \in Proc, w \in Browser : Unlock(p, w)
  <2> PICK p \in Proc, w \in Browser : Unlock(p, w)
    BY <1>3
  <2>1. run[p] # 0 /\ run[p] <= starts
    BY DEF Unlock, ListenInv, KeyInv, GateInv, Ports
  <2>2. /\ jar'[w] = [gate |-> run[p], age |-> 0, secret |-> secret[p]]
        /\ \A v \in Browser \ {w} : jar'[v] = jar[v]
        /\ UNCHANGED <<starts, run, secret>>
    BY DEF Unlock, TypeOK, locals
  <2> QED
    BY <2>1, <2>2 DEF GateInv
<1>4. CASE \E p \in Proc, w \in Browser : AdminUserCreate(p, w)
  BY <1>4 DEF AdminUserCreate, GateInv, locals, files, table
<1>5. CASE RemoveTornKey
  BY <1>5 DEF RemoveTornKey, GateInv, locals, files, table
<1>6. CASE RemovePair
  BY <1>6 DEF RemovePair, GateInv, locals, files, table
<1>7. CASE UserAdd
  BY <1>7 DEF UserAdd, GateInv, locals, files, table
<1>8. CASE Tick
  <2>1. \A w \in Browser :
            /\ jar'[w] # NoCookie => jar[w] # NoCookie
            /\ jar[w] # NoCookie => jar'[w].gate = jar[w].gate /\ jar'[w].secret = jar[w].secret
    BY <1>8 DEF Tick, TypeOK, Cookie
  <2>2. UNCHANGED <<starts, run, secret>>
    BY <1>8 DEF Tick, locals
  <2> QED
    BY <2>1, <2>2 DEF GateInv
<1>9. CASE UNCHANGED vars
  BY <1>9 DEF vars, GateInv, locals, files, table
<1> QED
  BY <1>1, <1>2, <1>3, <1>4, <1>5, <1>6, <1>7, <1>8, <1>9 DEF Next

-----------------------------------------------------------------------------
(* The import.                                                             *)

LEMMA LegacyTyped ==
    ASSUME TypeOK
    PROVE  /\ Len(legacy) \in Nat
           /\ \A i \in 1..Len(legacy) : legacy[i] \in Name \cup {Junk, Invalid}
<1>1. legacy \in Seq(Name \cup {Junk, Invalid})
  BY DaemonRows DEF TypeOK
<1> QED
  BY <1>1

LEMMA PrefixStep ==
    ASSUME TypeOK, NEW i \in 1..Len(legacy)
    PROVE  Prefix(i) = Prefix(i - 1) \cup ({legacy[i]} \cap Name)
<1>1. 1..i = (1..(i - 1)) \cup {i}
  BY LegacyTyped
<1> QED
  BY <1>1 DEF Prefix

LEMMA PrefixEmpty == Prefix(0) = {}
BY DEF Prefix

\* The file has one first name.
LEMMA FirstUnique ==
    ASSUME TypeOK, NEW i \in 1..Len(legacy), NEW j \in 1..Len(legacy), First(i), First(j)
    PROVE  i = j
<1>1. i \in Int /\ j \in Int
  OBVIOUS
<1>2. ~(i < j)
  <2> SUFFICES ASSUME i < j PROVE FALSE
    OBVIOUS
  <2>1. i \in 1..(j - 1)
    BY <1>1
  <2> QED
    BY <2>1 DEF First, Prefix
<1>3. ~(j < i)
  <2> SUFFICES ASSUME j < i PROVE FALSE
    OBVIOUS
  <2>1. j \in 1..(i - 1)
    BY <1>1
  <2> QED
    BY <2>1 DEF First, Prefix
<1> QED
  BY <1>1, <1>2, <1>3

\* Who inserts the first row finds the table without an import.
LEMMA FirstInsert ==
    ASSUME TypeOK, ImportInv, NEW p \in Proc, ImportRow(p), ~any[p]
    PROVE  imported = {} /\ First(row[p])
<1>1. /\ row[p] \in 1..Len(legacy) /\ legacy[row[p]] \in Name \ rows
      /\ Prefix(row[p] - 1) = {}
  BY LegacyTyped DEF ImportRow, ImportInv, Begun, TypeOK
<1>2. First(row[p])
  BY <1>1 DEF First
<1>3. ASSUME imported # {} PROVE FALSE
  <2> PICK i \in 1..Len(legacy) : admins = {legacy[i]} /\ First(i)
    BY <1>3 DEF ImportInv
  <2>1. legacy[i] \in rows
    BY DEF TypeOK
  <2>2. i = row[p]
    BY <1>1, <1>2, FirstUnique
  <2> QED
    BY <1>1, <2>1, <2>2
<1> QED
  BY <1>2, <1>3

\* After the row the import stands one further, with the prefix it has inserted.
LEMMA ImportRowAdvances ==
    ASSUME TypeOK, ImportInv, NEW p \in Proc, ImportRow(p)
    PROVE  /\ imported' = Prefix(row[p]) /\ imported' # {}
           /\ \E i \in 1..Len(legacy) : admins' = {legacy[i]} /\ First(i)
           /\ row[p] \in 1..Len(legacy)
           /\ \A q \in Proc \ {p} : pc[q] = "import" => ~any[q]
<1>1. /\ row[p] \in 1..Len(legacy) /\ legacy[row[p]] \in Name
      /\ imported' = imported \cup {legacy[row[p]]} /\ pc[p] = "import"
  BY LegacyTyped DEF ImportRow, ImportInv, Begun, TypeOK
<1>2. Prefix(row[p]) = Prefix(row[p] - 1) \cup {legacy[row[p]]}
  BY <1>1, PrefixStep
<1>3. CASE any[p]
  <2>1. imported = Prefix(row[p] - 1) /\ imported # {}
    BY <1>1, <1>3 DEF ImportInv, Begun
  <2>2. admins' = admins
    BY <1>3 DEF ImportRow, MakesAdmin
  <2> QED
    BY <1>1, <1>2, <1>3, <2>1, <2>2 DEF ImportInv
<1>4. CASE ~any[p]
  <2>1. imported = {} /\ First(row[p]) /\ Prefix(row[p] - 1) = {}
    BY <1>4, FirstInsert DEF First
  <2>2. admins = {} /\ admins' = {legacy[row[p]]}
    BY <1>4, <2>1 DEF ImportRow, MakesAdmin, ImportInv
  <2>3. \A q \in Proc \ {p} : pc[q] = "import" => ~any[q]
    BY <2>1 DEF ImportInv, Begun
  <2> QED
    BY <1>1, <1>2, <2>1, <2>2, <2>3
<1> QED
  BY <1>3, <1>4

LEMMA ImportRowStep ==
    ASSUME TypeOK, ImportInv, NEW p \in Proc, ImportRow(p)
    PROVE  ImportInv'
<1>1. /\ legacy' = legacy /\ pc' = pc /\ pc[p] = "import"
      /\ any'[p] = TRUE /\ row'[p] = row[p] + 1
      /\ \A q \in Proc \ {p} : any'[q] = any[q] /\ row'[q] = row[q]
  BY DEF ImportRow, TypeOK
<1>2. /\ imported' = Prefix(row[p]) /\ imported' # {} /\ row[p] \in 1..Len(legacy)
      /\ \E i \in 1..Len(legacy) : admins' = {legacy[i]} /\ First(i)
      /\ \A q \in Proc \ {p} : pc[q] = "import" => ~any[q]
  BY ImportRowAdvances
<1>3. \A n : Prefix(n)' = Prefix(n)
  BY <1>1 DEF Prefix
<1>4. \A i : First(i)' = First(i)
  BY <1>1 DEF First, Prefix
<1>5. Begun(p)'
  <2>1. row'[p] \in 1..(Len(legacy') + 1) /\ row'[p] - 1 = row[p]
    BY <1>1, <1>2, LegacyTyped
  <2> QED
    BY <1>1, <1>2, <1>3, <2>1 DEF Begun
<1>6. ASSUME NEW q \in Proc \ {p}, pc[q] = "import" PROVE Begun(q)'
  BY <1>1, <1>2, <1>3, <1>6 DEF Begun, ImportInv
<1>7. row[p] \in 0..Len(legacy)
  BY <1>2
<1>8. (\E n \in 0..Len(legacy) : imported = Prefix(n))'
  BY <1>1, <1>2, <1>3, <1>7
<1>9. (\E i \in 1..Len(legacy) : admins = {legacy[i]} /\ First(i))'
  BY <1>1, <1>2, <1>4
<1>10. (\A q \in Proc : pc[q] = "import" => Begun(q))'
  BY <1>1, <1>5, <1>6
<1>11. (\A q \in Proc : pc[q] \notin {"import", "tls", "readCert", "readKey", "openCert",
                                     "writeCert", "openKey", "writeKey", "listen"} => ~any[q])'
  BY <1>1 DEF ImportInv
<1>12. (\A r, q \in Proc : pc[r] = "import" /\ pc[q] = "import" /\ any[r] /\ any[q] => r = q)'
  BY <1>1, <1>2
<1> QED
  BY <1>2, <1>8, <1>9, <1>10, <1>11, <1>12 DEF ImportInv

LEMMA SkipRowStep ==
    ASSUME TypeOK, ImportInv, NEW p \in Proc, SkipRow(p)
    PROVE  ImportInv'
<1>1. /\ UNCHANGED <<legacy, imported, admins, pc, any>> /\ pc[p] = "import"
      /\ row'[p] = row[p] + 1 /\ legacy[row[p]] = Junk
      /\ \A q \in Proc \ {p} : row'[q] = row[q]
  BY DEF SkipRow, TypeOK, table
<1>2. row[p] \in 1..Len(legacy)
  BY LegacyTyped DEF SkipRow, ImportInv, Begun, TypeOK
<1>3. Prefix(row[p]) = Prefix(row[p] - 1)
  <2>1. Prefix(row[p]) = Prefix(row[p] - 1) \cup ({legacy[row[p]]} \cap Name)
    BY <1>2, PrefixStep
  <2>2. {legacy[row[p]]} \cap Name = {}
    BY <1>1, DaemonNames
  <2> QED
    BY <2>1, <2>2
<1>4. \A n : Prefix(n)' = Prefix(n)
  BY <1>1 DEF Prefix
<1>5. Begun(p)'
  <2>1. row'[p] \in 1..(Len(legacy') + 1) /\ row'[p] - 1 = row[p]
    BY <1>1, <1>2, LegacyTyped
  <2> QED
    BY <1>1, <1>3, <1>4, <2>1 DEF Begun, ImportInv
<1>6. ASSUME NEW q \in Proc \ {p}, pc[q] = "import" PROVE Begun(q)'
  BY <1>1, <1>4, <1>6 DEF Begun, ImportInv
<1>7. (\A q \in Proc : pc[q] = "import" => Begun(q))'
  BY <1>1, <1>5, <1>6
<1> QED
  BY <1>1, <1>7 DEF ImportInv, First, Prefix

LEMMA HasUsersStep ==
    ASSUME TypeOK, ImportInv, NEW p \in Proc, HasUsers(p)
    PROVE  ImportInv'
<1>1. /\ UNCHANGED <<legacy, imported, admins, any>> /\ pc[p] = "hasUsers"
      /\ row'[p] = 1 /\ pc'[p] \in {"tls", "import"} /\ any[p] = FALSE
      /\ \A q \in Proc \ {p} : row'[q] = row[q] /\ pc'[q] = pc[q]
  BY DEF HasUsers, Step, TypeOK, ImportInv, table
<1>2. \A n : Prefix(n)' = Prefix(n)
  BY <1>1 DEF Prefix
<1>3. Begun(p)'
  BY <1>1, <1>2, PrefixEmpty, LegacyTyped DEF Begun
<1>4. ASSUME NEW q \in Proc \ {p}, pc'[q] = "import" PROVE Begun(q)'
  BY <1>1, <1>2, <1>4 DEF Begun, ImportInv
<1>5. (\A q \in Proc : pc[q] = "import" => Begun(q))'
  BY <1>3, <1>4
<1> QED
  BY <1>1, <1>5 DEF ImportInv, First, Prefix

\* Nothing of the import moves, and a process is where the import left it.
LEMMA ImportFrame ==
    ASSUME TypeOK, ImportInv, NEW p \in Proc, UNCHANGED <<legacy, imported, admins>>,
           pc'[p] # "import",
           \/ any'[p] = FALSE
           \/ /\ any'[p] = any[p]
              /\ \/ pc[p] \notin {"import", "tls", "readCert", "readKey", "openCert",
                                  "writeCert", "openKey", "writeKey", "listen"}
                 \/ pc'[p] \in {"tls", "readCert", "readKey", "openCert",
                                "writeCert", "openKey", "writeKey", "listen"},
           \A q \in Proc \ {p} : pc'[q] = pc[q] /\ any'[q] = any[q] /\ row'[q] = row[q]
    PROVE  ImportInv'
<1>1. \A n : Prefix(n)' = Prefix(n)
  BY DEF Prefix
<1>2. ASSUME NEW q \in Proc, pc'[q] = "import" PROVE Begun(q)'
  BY <1>1, <1>2 DEF Begun, ImportInv
<1>3. (\A q \in Proc : pc[q] \notin {"import", "tls", "readCert", "readKey", "openCert",
                                    "writeCert", "openKey", "writeKey", "listen"} => ~any[q])'
  BY DEF ImportInv
<1> QED
  BY <1>2, <1>3 DEF ImportInv, First, Prefix

LEMMA ImportOwn ==
    ASSUME TypeOK, ImportInv, NEW p \in Proc, Start(p) \/ Crash(p) \/ StartUp(p)
    PROVE  ImportInv'
<1>1. CASE Start(p)
  BY <1>1, ImportFrame DEF Start, Step, TypeOK, table
<1>2. CASE StatKey(p)
  BY <1>2, ImportFrame DEF StatKey, Step, TypeOK, table
<1>3. CASE LoadKey(p)
  BY <1>3, ImportFrame DEF LoadKey, Step, TypeOK, table, AfterKey
<1>4. CASE CreateKey(p)
  BY <1>4, ImportFrame DEF CreateKey, Step, TypeOK, table
<1>5. CASE WriteKey(p)
  BY <1>5, ImportFrame DEF WriteKey, Step, TypeOK, table, AfterKey
<1>6. CASE ImportDone(p)
  BY <1>6, ImportFrame DEF ImportDone, Step, TypeOK, table
<1>7. CASE StatTLS(p)
  BY <1>7, ImportFrame DEF StatTLS, Step, TypeOK, table
<1>8. CASE ReadCert(p)
  BY <1>8, ImportFrame DEF ReadCert, Step, TypeOK, table
<1>9. CASE ReadTLSKey(p)
  BY <1>9, ImportFrame DEF ReadTLSKey, Step, TypeOK, table
<1>10. CASE OpenCert(p)
  BY <1>10, ImportFrame DEF OpenCert, Step, TypeOK, table
<1>11. CASE WriteCert(p)
  BY <1>11, ImportFrame DEF WriteCert, Step, TypeOK, table
<1>12. CASE OpenTLSKey(p)
  BY <1>12, ImportFrame DEF OpenTLSKey, Step, TypeOK, table
<1>13. CASE WriteTLSKey(p)
  BY <1>13, ImportFrame DEF WriteTLSKey, Step, TypeOK, table
<1>14. CASE HasUsers(p) \/ ImportRow(p) \/ SkipRow(p)
  BY <1>14, HasUsersStep, ImportRowStep, SkipRowStep
<1>15. CASE \E l \in Ports : Bind(p, l)
  BY <1>15 DEF Bind, locals, table, ImportInv, Begun, First, Prefix
<1>16. CASE Ends(p)
  <2>1. Exit(p) /\ UNCHANGED <<legacy, imported, admins>>
    BY <1>16 DEF Ends, Crash, ToolSigns, Fail, table
  <2>2. /\ pc'[p] = "down" /\ any'[p] = FALSE
        /\ \A q \in Proc \ {p} : pc'[q] = pc[q] /\ any'[q] = any[q] /\ row'[q] = row[q]
    BY <2>1, ExitFrame
  <2> QED
    BY <2>1, <2>2, ImportFrame
<1>17. Crash(p) => Ends(p)
  BY DEF Ends
<1> QED
  BY <1>1, <1>2, <1>3, <1>4, <1>5, <1>6, <1>7, <1>8, <1>9, <1>10, <1>11, <1>12, <1>13,
     <1>14, <1>15, <1>16, <1>17, StartUpCases DEF Goes

LEMMA ImportStep ==
    ASSUME TypeOK, ImportInv, [Next]_vars
    PROVE  ImportInv'
<1>1. CASE \E p \in Proc : Start(p) \/ Crash(p) \/ StartUp(p)
  BY <1>1, ImportOwn
<1>2. CASE \E p \in Proc : Signs(p)
  BY <1>2 DEF Signs, ImportInv, Begun, First, Prefix, locals, files, table
<1>3. CASE \E p \in Proc, w \in Browser : Unlock(p, w)
  BY <1>3 DEF Unlock, ImportInv, Begun, First, Prefix, locals, files, table
<1>4. CASE \E p \in Proc, w \in Browser : AdminUserCreate(p, w)
  BY <1>4 DEF AdminUserCreate, ImportInv, Begun, First, Prefix, locals, files, table
<1>5. CASE RemoveTornKey
  BY <1>5 DEF RemoveTornKey, ImportInv, Begun, First, Prefix, locals, files, table
<1>6. CASE RemovePair
  BY <1>6 DEF RemovePair, ImportInv, Begun, First, Prefix, locals, files, table
<1>7. CASE UserAdd
  BY <1>7 DEF UserAdd, ImportInv, Begun, First, Prefix, locals, files, table
<1>8. CASE Tick
  BY <1>8 DEF Tick, ImportInv, Begun, First, Prefix, locals, files, table
<1>9. CASE UNCHANGED vars
  BY <1>9 DEF vars, ImportInv, Begun, First, Prefix, locals, files, table
<1> QED
  BY <1>1, <1>2, <1>3, <1>4, <1>5, <1>6, <1>7, <1>8, <1>9 DEF Next

-----------------------------------------------------------------------------
(* The theorems.                                                           *)

Inv == TypeOK /\ ListenInv /\ KeyInv /\ GateInv /\ ImportInv

LEMMA InitInv == Init => Inv
<1> SUFFICES ASSUME Init PROVE Inv
  OBVIOUS
<1>1. TypeOK
  BY DaemonBounds, NoSecretIsOne DEF Init, TypeOK, Steps, Content, Absent
<1>2. ListenInv
  BY NobodyIsNone DEF Init, ListenInv
<1>3. KeyInv
  BY DEF Init, KeyInv, HasKey, OneSigningKey
<1>4. GateInv
  BY DaemonBounds DEF Init, GateInv
<1>5. ImportInv
  BY DEF Init, ImportInv
<1> QED
  BY <1>1, <1>2, <1>3, <1>4, <1>5 DEF Inv

LEMMA InvStep == Inv /\ [Next]_vars => Inv'
BY TypeStep, ListenStep, KeyStep, GateStep, ImportStep DEF Inv

\* The inductive invariant of start-up: its parts belong to the listeners, the
\* key file, the admin gate and the import.
THEOREM DaemonInvariant == Spec => []Inv
BY InitInv, InvStep, PTL DEF Spec

\* Every component stays in its domain: no process ever holds a signing key it
\* could not parse.
THEOREM DaemonTypeCorrect == Spec => []TypeOK
<1>1. Inv => TypeOK
  BY DEF Inv
<1> QED
  BY <1>1, DaemonInvariant, PTL

\* However many daemons and commands start and are killed, all of them sign with
\* the one key that is on disk.
THEOREM OneSigningKeyCorrect == Spec => []OneSigningKey
<1>1. Inv => OneSigningKey
  BY DEF Inv, KeyInv
<1> QED
  BY <1>1, DaemonInvariant, PTL

\* However many imports race or are cut short, the table holds a prefix of
\* users.json and its first name is the administrator.
THEOREM ImportIsPrefixCorrect == Spec => []ImportIsPrefix
<1>1. ASSUME Inv PROVE ImportIsPrefix
  <2>1. Len(legacy) \in Nat
    BY <1>1, LegacyTyped DEF Inv
  <2>2. CASE imported = {}
    <3>1. admins = {} /\ Prefix(0) = {} /\ 0 \in 0..Len(legacy)
      BY <1>1, <2>1, <2>2, PrefixEmpty DEF Inv, ImportInv
    <3> QED
      BY <2>2, <3>1 DEF ImportIsPrefix
  <2>3. CASE imported # {}
    <3>1. PICK n \in 0..Len(legacy) : imported = Prefix(n)
      BY <1>1, <2>3 DEF Inv, ImportInv
    <3>2. PICK i \in 1..Len(legacy) : admins = {legacy[i]} /\ First(i)
      BY <1>1, <2>3 DEF Inv, ImportInv
    <3>3. i <= n
      <4> SUFFICES ASSUME n < i PROVE FALSE
        BY <2>1
      <4>1. 1..n \subseteq 1..(i - 1)
        BY <2>1
      <4>2. Prefix(n) \subseteq Prefix(i - 1)
        BY <4>1 DEF Prefix
      <4> QED
        BY <2>3, <3>1, <3>2, <4>2 DEF First
    <3>4. i \in 1..n
      BY <2>1, <3>3
    <3> QED
      BY <2>3, <3>1, <3>2, <3>4 DEF ImportIsPrefix, First
  <2> QED
    BY <2>2, <2>3
<1> QED
  BY <1>1, DaemonInvariant, PTL

\* A restart ends every unlock of the admin page: no cookie is worth more than
\* the secret its process was started with.
THEOREM GateKnowsSecretCorrect == Spec => []GateKnowsSecret
<1>1. Inv => GateKnowsSecret
  BY DEF Inv, GateInv, GateKnowsSecret, Unlocked, Valid
<1> QED
  BY <1>1, DaemonInvariant, PTL

=============================================================================
