------------------------------- MODULE Daemon -------------------------------
(***************************************************************************)
(* Starting arc-lore-auth (main.go, keys.go, config.go) and the gate of its*)
(* /admin page (web.go).                                                   *)
(*                                                                         *)
(* Several processes may start at once on one configuration: the daemon, a *)
(* second daemon before the first one has let go, and the commands mint and*)
(* print-jwks, which load the same signing key.  Every step is one system  *)
(* call or one SQL statement; a process may be killed between any two of   *)
(* them, and what it wrote stays.  A file is created, or emptied, by one   *)
(* call and filled by another.                                             *)
(*                                                                         *)
(* A process is known by the number of its start.  The keys it generates,  *)
(* the certificate and the key of its admin gate, carry that number: they  *)
(* are random, so no two starts generate the same.  A configuration without*)
(* a usable audience stops a process before it touches anything, and is    *)
(* left out.                                                               *)
(***************************************************************************)
EXTENDS Integers, Sequences

CONSTANTS
    Proc,         \* processes alive at once
    Name,         \* user names
    Junk,         \* a row of users.json whose name is empty once normalised
    Invalid,      \* a row whose name validateUsername refuses
    LegacyFile,   \* the contents users.json may have; <<>> when there is none
    Secret,       \* values of admin_secret
    NoSecret,     \* admin_secret unset
    Browser,      \* where an operator unlocks the page
    NoCookie,     \* a browser without an admin cookie
    Nobody,       \* the owner of a port nobody listens on
    CookieTTL,    \* adminCookieTTL, in seconds
    MaxStarts     \* bound on the number of starts

ASSUME DaemonBounds == CookieTTL \in Nat /\ MaxStarts \in Nat
ASSUME DaemonRows == LegacyFile \subseteq Seq(Name \cup {Junk, Invalid})
ASSUME DaemonNames == Junk \notin Name /\ Invalid \notin Name /\ Junk # Invalid
ASSUME NobodyIsNone == Nobody \notin Proc
ASSUME NoSecretIsOne == NoSecret \in Secret

VARIABLES
    starts,              \* how many processes have been started
    pc, run, tool,       \* where a process stands, its number, mint or print-jwks
    key, row, any, cert, \* its locals: signing key, import loop, certificate
    secret,              \* admin_secret as the process read it
    keyFile, certFile, tlsFile,   \* the files on disk
    rows, admins,        \* the users table and its is_admin column
    imported,            \* observer: the rows that came from users.json
    legacy,              \* users.json
    port,                \* who listens on the two ports
    signed,              \* observer: the keys tokens were signed with or published
    jar                  \* jar[w]: the admin cookie of browser w

locals == <<pc, run, tool, key, row, any, cert, secret>>
files == <<keyFile, certFile, tlsFile>>
table == <<rows, admins, imported, legacy>>
vars == <<starts, locals, files, table, port, signed, jar>>

\* The contents of a file besides what a process wrote to it.
Absent == 0
Torn == -1
Content == -1..MaxStarts

Ports == {"http", "grpc"}
Steps == {"down", "stat", "read", "create", "write", "sign", "hasUsers", "import",
          "tls", "readCert", "readKey", "openCert", "writeCert", "openKey", "writeKey",
          "listen"}

\* secret is an observer: what was typed into the unlock form.
Cookie == [gate : 0..MaxStarts, age : 0..CookieTTL, secret : Secret]

ASSUME NoCookieIsNone == NoCookie \notin Cookie

TypeOK ==
    /\ starts \in 0..MaxStarts
    /\ pc \in [Proc -> Steps]
    /\ run \in [Proc -> 0..MaxStarts]
    /\ tool \in [Proc -> BOOLEAN]
    /\ key \in [Proc -> 0..MaxStarts]
    /\ row \in [Proc -> Nat]
    /\ any \in [Proc -> BOOLEAN]
    /\ cert \in [Proc -> Content]
    /\ secret \in [Proc -> Secret]
    /\ keyFile \in Content /\ certFile \in Content /\ tlsFile \in Content
    /\ rows \subseteq Name /\ admins \subseteq rows /\ imported \subseteq rows
    /\ legacy \in LegacyFile
    /\ port \in [Ports -> Proc \cup {Nobody}]
    /\ signed \subseteq 0..MaxStarts
    /\ jar \in [Browser -> Cookie \cup {NoCookie}]

Init ==
    /\ starts = 0
    /\ pc = [p \in Proc |-> "down"]
    /\ run = [p \in Proc |-> 0]
    /\ tool = [p \in Proc |-> FALSE]
    /\ key = [p \in Proc |-> Absent]
    /\ row = [p \in Proc |-> 0]
    /\ any = [p \in Proc |-> FALSE]
    /\ cert = [p \in Proc |-> Absent]
    /\ secret = [p \in Proc |-> NoSecret]
    /\ keyFile = Absent /\ certFile = Absent /\ tlsFile = Absent
    /\ rows = {} /\ admins = {} /\ imported = {}
    /\ legacy \in LegacyFile
    /\ port = [l \in Ports |-> Nobody]
    /\ signed = {}
    /\ jar = [w \in Browser |-> NoCookie]

-----------------------------------------------------------------------------
(* Processes.                                                              *)

Step(p, from, to) ==
    /\ pc[p] = from
    /\ pc' = [pc EXCEPT ![p] = to]

\* os.Exit or a kill: memory is gone and the ports are free.
Exit(p) ==
    /\ pc' = [pc EXCEPT ![p] = "down"]
    /\ run' = [run EXCEPT ![p] = 0]
    /\ tool' = [tool EXCEPT ![p] = FALSE]
    /\ key' = [key EXCEPT ![p] = Absent]
    /\ row' = [row EXCEPT ![p] = 0]
    /\ any' = [any EXCEPT ![p] = FALSE]
    /\ cert' = [cert EXCEPT ![p] = Absent]
    /\ secret' = [secret EXCEPT ![p] = NoSecret]
    /\ port' = [l \in Ports |-> IF port[l] = p THEN Nobody ELSE port[l]]

\* A process gives up without having changed anything.
Fail(p, from) ==
    /\ pc[p] = from
    /\ Exit(p)
    /\ UNCHANGED <<starts, files, table, signed, jar>>

\* Killed, or ended by an error of the system (a full disk, tls_san unset).
Crash(p) ==
    /\ pc[p] # "down"
    /\ Exit(p)
    /\ UNCHANGED <<starts, files, table, signed, jar>>

\* The daemon, with the admin_secret the operator has put into config.toml, or
\* mint and print-jwks, which have no use for it.
Start(p) ==
    /\ starts < MaxStarts
    /\ Step(p, "down", "stat")
    /\ starts' = starts + 1
    /\ run' = [run EXCEPT ![p] = starts + 1]
    /\ \/ /\ \E s \in Secret : secret' = [secret EXCEPT ![p] = s]
          /\ tool' = tool
       \/ /\ tool' = [tool EXCEPT ![p] = TRUE]
          /\ secret' = secret
    /\ UNCHANGED <<key, row, any, cert, files, table, port, signed, jar>>

-----------------------------------------------------------------------------
(* The signing key.                                                        *)

AfterKey(p) == IF tool[p] THEN "sign" ELSE "hasUsers"

StatKey(p) ==
    /\ Step(p, "stat", IF keyFile = Absent THEN "create" ELSE "read")
    /\ UNCHANGED <<starts, run, tool, key, row, any, cert, secret, files, table, port, signed, jar>>

\* A file without a whole PEM block is refused.
LoadKeyUnparsed(p) ==
    /\ Step(p, "read", AfterKey(p))
    /\ key' = [key EXCEPT ![p] = keyFile]
    /\ UNCHANGED <<starts, run, tool, row, any, cert, secret, files, table, port, signed, jar>>
LoadKey(p) ==
    /\ keyFile > 0
    /\ Step(p, "read", AfterKey(p))
    /\ key' = [key EXCEPT ![p] = keyFile]
    /\ UNCHANGED <<starts, run, tool, row, any, cert, secret, files, table, port, signed, jar>>

KeyRefused(p) == keyFile = Torn /\ Fail(p, "read")

\* O_CREATE | O_EXCL.
CreateKeyOverwrites(p) ==
    /\ Step(p, "create", "write")
    /\ keyFile' = Torn
    /\ UNCHANGED <<starts, run, tool, key, row, any, cert, secret, certFile, tlsFile, table, port,
                   signed, jar>>
CreateKey(p) ==
    /\ keyFile = Absent
    /\ Step(p, "create", "write")
    /\ keyFile' = Torn
    /\ UNCHANGED <<starts, run, tool, key, row, any, cert, secret, certFile, tlsFile, table, port,
                   signed, jar>>

KeyExists(p) == keyFile # Absent /\ Fail(p, "create")

WriteKey(p) ==
    /\ Step(p, "write", AfterKey(p))
    /\ keyFile' = run[p]
    /\ key' = [key EXCEPT ![p] = run[p]]
    /\ UNCHANGED <<starts, run, tool, row, any, cert, secret, certFile, tlsFile, table, port,
                   signed, jar>>

\* Every later start refuses a torn key file: the operator removes it, once
\* nothing runs.
RemoveTornKey ==
    /\ keyFile = Torn /\ \A p \in Proc : pc[p] = "down"
    /\ keyFile' = Absent
    /\ UNCHANGED <<starts, locals, certFile, tlsFile, table, port, signed, jar>>

\* mint prints a token, print-jwks the public key.
ToolSigns(p) ==
    /\ pc[p] = "sign"
    /\ signed' = signed \cup {key[p]}
    /\ Exit(p)
    /\ UNCHANGED <<starts, files, table, jar>>

-----------------------------------------------------------------------------
(* The import of users.json.                                               *)

\* Skipped when there is no file or the table has a row.
HasUsers(p) ==
    /\ Step(p, "hasUsers", IF legacy = <<>> \/ rows # {} THEN "tls" ELSE "import")
    /\ row' = [row EXCEPT ![p] = 1]
    /\ UNCHANGED <<starts, run, tool, key, any, cert, secret, files, table, port, signed, jar>>

\* The first row that is inserted is the administrator's.
MakesAdminFirstRow(p) == row[p] = 1
MakesAdmin(p) == ~any[p]

ImportRow(p) ==
    /\ pc[p] = "import" /\ row[p] <= Len(legacy)
    /\ LET n == legacy[row[p]] IN
          /\ n \in Name \ rows
          /\ rows' = rows \cup {n}
          /\ admins' = IF MakesAdmin(p) THEN admins \cup {n} ELSE admins
          /\ imported' = imported \cup {n}
    /\ any' = [any EXCEPT ![p] = TRUE]
    /\ row' = [row EXCEPT ![p] = @ + 1]
    /\ UNCHANGED <<starts, pc, run, tool, key, cert, secret, files, legacy, port, signed, jar>>

SkipRow(p) ==
    /\ pc[p] = "import" /\ row[p] <= Len(legacy) /\ legacy[row[p]] = Junk
    /\ row' = [row EXCEPT ![p] = @ + 1]
    /\ UNCHANGED <<starts, pc, run, tool, key, any, cert, secret, files, table, port, signed, jar>>

\* ErrUserExists, or a name that is refused, ends the process.
RowRefused(p) ==
    /\ pc[p] = "import" /\ row[p] <= Len(legacy)
    /\ legacy[row[p]] \in rows \cup {Invalid}
    /\ Fail(p, "import")

ImportDone(p) ==
    /\ row[p] > Len(legacy)
    /\ Step(p, "import", "tls")
    /\ UNCHANGED <<starts, run, tool, key, row, any, cert, secret, files, table, port, signed, jar>>

\* The command line's useradd, which makes no administrator.
UserAdd ==
    /\ \E n \in Name \ rows : rows' = rows \cup {n}
    /\ UNCHANGED <<starts, locals, files, admins, imported, legacy, port, signed, jar>>

-----------------------------------------------------------------------------
(* The TLS certificate and its key.                                        *)

StatTLS(p) ==
    /\ \/ /\ certFile # Absent /\ tlsFile # Absent
          /\ Step(p, "tls", "readCert")
       \/ /\ certFile = Absent /\ tlsFile = Absent
          /\ Step(p, "tls", "openCert")
    /\ UNCHANGED <<starts, run, tool, key, row, any, cert, secret, files, table, port, signed, jar>>

HalfPresent(p) == ((certFile = Absent) # (tlsFile = Absent)) /\ Fail(p, "tls")

ReadCert(p) ==
    /\ Step(p, "readCert", "readKey")
    /\ cert' = [cert EXCEPT ![p] = certFile]
    /\ UNCHANGED <<starts, run, tool, key, row, any, secret, files, table, port, signed, jar>>

\* LoadX509KeyPair takes a key only with the certificate it belongs to.
ReadTLSKey(p) ==
    /\ cert[p] = tlsFile /\ tlsFile > 0
    /\ Step(p, "readKey", "listen")
    /\ UNCHANGED <<starts, run, tool, key, row, any, cert, secret, files, table, port, signed, jar>>

PairRefused(p) == (cert[p] # tlsFile \/ tlsFile <= 0) /\ Fail(p, "readKey")

\* writeFileWithDir: the file is opened with O_CREATE | O_TRUNC, then written.
OpenCert(p) ==
    /\ Step(p, "openCert", "writeCert")
    /\ certFile' = Torn
    /\ UNCHANGED <<starts, run, tool, key, row, any, cert, secret, keyFile, tlsFile, table, port,
                   signed, jar>>

WriteCert(p) ==
    /\ Step(p, "writeCert", "openKey")
    /\ certFile' = run[p]
    /\ UNCHANGED <<starts, run, tool, key, row, any, cert, secret, keyFile, tlsFile, table, port,
                   signed, jar>>

OpenTLSKey(p) ==
    /\ Step(p, "openKey", "writeKey")
    /\ tlsFile' = Torn
    /\ UNCHANGED <<starts, run, tool, key, row, any, cert, secret, keyFile, certFile, table, port,
                   signed, jar>>

\* The process keeps the pair it generated, whatever is on disk by now.
WriteTLSKey(p) ==
    /\ Step(p, "writeKey", "listen")
    /\ tlsFile' = run[p]
    /\ cert' = [cert EXCEPT ![p] = run[p]]
    /\ UNCHANGED <<starts, run, tool, key, row, any, secret, keyFile, certFile, table, port,
                   signed, jar>>

\* The operator removes what is left of a pair that no start accepts.
RemovePair ==
    /\ certFile # tlsFile /\ \A p \in Proc : pc[p] = "down"
    /\ certFile' = Absent /\ tlsFile' = Absent
    /\ UNCHANGED <<starts, locals, keyFile, table, port, signed, jar>>

-----------------------------------------------------------------------------
(* The listeners.                                                          *)

Bind(p, l) ==
    /\ pc[p] = "listen" /\ port[l] = Nobody
    /\ port' = [port EXCEPT ![l] = p]
    /\ UNCHANGED <<starts, locals, files, table, signed, jar>>

\* Either listener failing ends the process.
PortTakenIgnored(p, l) == FALSE /\ Fail(p, "listen")
PortTaken(p, l) == port[l] \notin {p, Nobody} /\ Fail(p, "listen")

\* A process that listens publishes its key and signs with it.
Signs(p) ==
    /\ \E l \in Ports : port[l] = p
    /\ signed' = signed \cup {key[p]}
    /\ UNCHANGED <<starts, locals, files, table, port, jar>>

-----------------------------------------------------------------------------
(* The /admin page.                                                        *)

\* adminGate.valid: signed with this process's gate key, and not past its expiry.
ValidAnyProcess(p, c) == c # NoCookie /\ c.age < CookieTTL
Valid(p, c) == c # NoCookie /\ c.gate = run[p] /\ c.age < CookieTTL

\* adminUnlocked behind requireAdmin.
Unlocked(p, c) == port["http"] = p /\ secret[p] # NoSecret /\ Valid(p, c)

\* POST /admin/unlock with the right secret.
Unlock(p, w) ==
    /\ port["http"] = p /\ secret[p] # NoSecret
    /\ jar' = [jar EXCEPT ![w] = [gate |-> run[p], age |-> 0, secret |-> secret[p]]]
    /\ UNCHANGED <<starts, locals, files, table, port, signed>>

\* POST /admin/users: a new user, never an administrator.
AdminUserCreate(p, w) ==
    /\ Unlocked(p, jar[w])
    /\ \E n \in Name \ rows : rows' = rows \cup {n}
    /\ UNCHANGED <<starts, locals, files, admins, imported, legacy, port, signed, jar>>

\* A second passes.
Tick ==
    /\ \E w \in Browser : jar[w] # NoCookie /\ jar[w].age < CookieTTL
    /\ jar' = [w \in Browser |->
                  IF jar[w] # NoCookie /\ jar[w].age < CookieTTL
                  THEN [jar[w] EXCEPT !.age = @ + 1] ELSE jar[w]]
    /\ UNCHANGED <<starts, locals, files, table, port, signed>>

-----------------------------------------------------------------------------

StartUp(p) ==
    \/ StatKey(p) \/ LoadKey(p) \/ KeyRefused(p)
    \/ CreateKey(p) \/ KeyExists(p) \/ WriteKey(p) \/ ToolSigns(p)
    \/ HasUsers(p) \/ ImportRow(p) \/ SkipRow(p) \/ RowRefused(p) \/ ImportDone(p)
    \/ StatTLS(p) \/ HalfPresent(p) \/ ReadCert(p) \/ ReadTLSKey(p) \/ PairRefused(p)
    \/ OpenCert(p) \/ WriteCert(p) \/ OpenTLSKey(p) \/ WriteTLSKey(p)
    \/ \E l \in Ports : Bind(p, l) \/ PortTaken(p, l)

Next ==
    \/ \E p \in Proc : Start(p) \/ Crash(p) \/ StartUp(p)
    \/ \E p \in Proc : Signs(p)
    \/ \E p \in Proc, w \in Browser : Unlock(p, w) \/ AdminUserCreate(p, w)
    \/ RemoveTornKey \/ RemovePair \/ UserAdd \/ Tick

\* A process that is not killed goes on with its start-up; nothing else is fair.
Spec == Init /\ [][Next]_vars /\ \A p \in Proc : WF_vars(StartUp(p))

-----------------------------------------------------------------------------
(* Properties.                                                             *)

\* However starts, commands and kills interleave, every token that was ever
\* signed and every key that was ever published belongs to the one key every
\* later start will load: an update restarts the service and the lore server
\* needs no new keys (generateAndSaveKey's O_EXCL).
OneSigningKey == \A k \in signed : keyFile = k

\* The names of the first n rows.
Prefix(n) == {legacy[i] : i \in 1..n} \cap Name

\* Whatever interrupts it and whoever races it, the import leaves a prefix of
\* the file in the table, and its one administrator is the file's first usable
\* name: the operator is not locked out and nobody else is let in
\* (importLegacyUsersFile).
ImportIsPrefix ==
    \E n \in 0..Len(legacy) :
        /\ imported = Prefix(n)
        /\ imported # {} => \E i \in 1..n : /\ admins = {legacy[i]}
                                            /\ Prefix(i - 1) = {}
        /\ imported = {} => admins = {}

\* A browser gets past the admin gate only with a cookie it was given for the
\* secret the running process was configured with: a restart with another
\* secret ends every earlier unlock (adminGate, newAdminGate).
GateKnowsSecret ==
    \A p \in Proc, w \in Browser :
        Unlocked(p, jar[w]) => jar[w].secret = secret[p]

\* One process on the HTTP port, another on the gRPC port: logins complete in
\* one session map and are polled from the other.
SplitBrain == port["http"] # port["grpc"] /\ Nobody \notin {port["http"], port["grpc"]}

\* Two daemons that start together may share out the ports, but the pairing
\* never lasts: either listener failing ends its process (runDaemon).
SplitBrainEnds == SplitBrain ~> ~SplitBrain

=============================================================================
