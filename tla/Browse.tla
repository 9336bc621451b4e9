------------------------------- MODULE Browse -------------------------------
(***************************************************************************)
(* The pages of ArcLoreWeb that read lore-server: internal/handlers (home, *)
(* repo, tree, commits, commit, locks) and the calls of internal/lore they *)
(* make.  A page is a chain of calls, each with its own deadline, and      *)
(* nothing pins the revision: every listing asks for the branch tip again, *)
(* while others push.  Blobs are fetched by content address.  The commit   *)
(* pages fan out: a loop hands items to goroutines, at most Workers at a   *)
(* time, and waits for all of them.                                        *)
(*                                                                         *)
(* One request at a time: the handlers share nothing but the token cache   *)
(* and the auth connection, which are the subject of Exchange.             *)
(***************************************************************************)
EXTENDS Naturals, SequencesExt, FiniteSetsExt

CONSTANTS
    MaxRev,      \* bound on the revisions of the branch
    Workers,     \* enrichWorkers and contentDiffWorkers
    MaxInline,   \* maxInlineDiffFiles
    MaxRows,     \* maxCommitRows
    Signature,   \* the signatures of revisions
    Listings,    \* the pages of history lore-server may answer
    Diffs        \* the diffs it may answer

VARIABLES
    history,     \* what the requested path is, in each revision pushed so far
    page, pc,    \* the handler and the call it is at
    found,       \* the tree node, or the listing, it goes on with
    items,       \* what the fan-out is over
    next,        \* the loop of the fan-out
    slots, open, \* sem, and what the WaitGroup waits for
    rows,        \* rows or results
    out,         \* the response
    since, fault, answer, lost
                 \* observers: the tip when the request came; whether a call
                 \* it cannot do without failed; lore-server's answer; the
                 \* rows one of whose calls failed

pool == <<items, next, slots, open, rows, answer, lost>>
vars == <<history, page, pc, found, pool, out, since, fault>>

tip == Len(history)

\* A blob that is not binary and not over MaxHighlightBytes is text; a link
\* is handled as the file it is.
Kind == {"none", "dir", "text", "opaque"}

Node == [rev : 0..MaxRev, kind : Kind]
NoNode == [rev |-> 0, kind |-> "none"]
KindAt(rev) == IF rev = 0 THEN "none" ELSE history[rev]

About == {"page", "request", "repo", "branch", "path", "commit", "call"}
Reply == [code : {200, 303, 400, 403, 404, 502}, about : About,
          rev : 0..MaxRev, shows : Kind]
NoReply == [code |-> 0]

\* The calls of each handler, in the order of the code.
RepoHome == <<"base", "repo", "scope", "branch", "branches", "root", "overlay", "readme">>
TreeRoot == <<"base", "repo", "scope", "branch", "root", "overlay">>
Tree == <<"base", "repo", "scope", "branch", "path", "listing", "overlay">>
Raw == <<"base", "repo", "scope", "branch", "path", "content">>
Commits == <<"base", "repo", "scope", "branch", "revisions", "pool">>
Commit == <<"base", "repo", "scope", "info", "diff", "pool">>
Locks == <<"base", "repo", "scope", "branch", "locks">>
ReleaseLock == <<"base", "repo", "exchange", "unlock">>

Route ==
    [list |-> <<"base", "list">>, repo |-> RepoHome, root |-> TreeRoot, tree |-> Tree,
     raw |-> Raw, commits |-> Commits, commit |-> Commit, locks |-> Locks,
     release |-> ReleaseLock]

Page == DOMAIN Route
Steps == {"read", "done"} \cup UNION {ToSet(Route[p]) : p \in Page}

Then(step) ==
    LET r == Route[page]
        i == CHOOSE j \in DOMAIN r : r[j] = step
    IN  IF i = Len(r) THEN "done" ELSE r[i + 1]

-----------------------------------------------------------------------------
\* The diff of one changed file.  An entry says which contents the two sides
\* have; the contents are read from the revisions' trees, which are immutable.

Content == {"none", "text", "other", "binary", "large"}
Entry == [node : {"file", "link", "dir", "conflict"},
          action : {"keep", "add", "delete", "move", "copy"},
          moved : BOOLEAN, from : Content, to : Content]

ASSUME BrowseConstants ==
    /\ {MaxRev, Workers, MaxInline, MaxRows} \subseteq Nat \ {0}
    /\ Listings \subseteq Seq(Signature)
    /\ Diffs \subseteq Seq(Entry)

Calls == {"toTree", "fromTree", "toBlob", "fromBlob", "parse"}

NoRow == [kind |-> "missing"]
Row(item, kind, from, to) ==
    [item |-> item, kind |-> kind, from |-> from, to |-> to]

FromPathForgotten(e) == "new"   \* mutant: the path of the new side

FromPath(e) == IF e.moved THEN "old" ELSE "new"

\* The parent's tree has the old side under the path it had there.
ParentTree(e) == [path \in {"old", "new"} |->
    IF path = (IF e.moved THEN "old" ELSE "new") THEN e.from ELSE "none"]

recoverAddress(e, content, ok) ==
    IF ok /\ e.node = "file" THEN content ELSE "none"

FetchContentBytes(address, ok) == IF ok THEN address ELSE "none"

resolveFileDiff(e, ok) ==
    LET toAddr == recoverAddress(e, e.to, ok["toTree"])
        fromAddr == recoverAddress(e, ParentTree(e)[FromPath(e)], ok["fromTree"])
        to == FetchContentBytes(toAddr, ok["toBlob"])
        from == FetchContentBytes(fromAddr, ok["fromBlob"])
    IN  IF "binary" \in {to, from} THEN Row(e, "binary", "none", "none")
        ELSE IF "large" \in {to, from} \/ to = from \/ ~ ok["parse"]
             THEN Row(e, "listed", "none", "none")
             ELSE Row(e, "hunks", from, to)

\* What a loop that appends some of the elements to a new slice leaves in it:
\* those at the positions in S, in order.
Nth(S, k) == CHOOSE i \in S : Cardinality({j \in S : j <= i}) = k
Kept(s, S) == [k \in 1..Cardinality(S) |-> s[Nth(S, k)]]

\* The entries that are shown: no conflicts, directories or kept files.
IsChange(e) == e.node \in {"file", "link"} /\ e.action # "keep"
Changes(entries) == Kept(entries, {i \in DOMAIN entries : IsChange(entries[i])})

\* Of several items with one signature the first.
dedupBySignature(sigs) ==
    Kept(sigs, {i \in DOMAIN sigs : \A j \in 1..(i - 1) : sigs[j] # sigs[i]})

Capped(s) == SubSeq(s, 1, Min({Len(s), MaxRows}))

-----------------------------------------------------------------------------
\* One type invariant.  It includes that the fan-out makes the calls of at
\* most Workers items at once (sem of enrichRevisions and buildCommitDiff).
TypeOK ==
    /\ history \in Seq(Kind) /\ tip <= MaxRev
    /\ page \in Page
    /\ pc \in Steps
    /\ found \in Node
    /\ next \in 1..(Len(items) + 1)
    /\ slots \subseteq open
    /\ open \subseteq 1..(next - 1)
    /\ Cardinality(slots) <= Workers
    /\ DOMAIN rows = DOMAIN items
    /\ out \in Reply \cup {NoReply}
    /\ out # NoReply => pc = "done"
    /\ since \in 0..tip
    /\ fault \in BOOLEAN
    /\ lost \subseteq DOMAIN items

Init ==
    /\ history = <<>>
    /\ page = "list"
    /\ pc = "done"
    /\ found = NoNode
    /\ items = <<>> /\ rows = <<>> /\ next = 1
    /\ slots = {} /\ open = {}
    /\ out = NoReply
    /\ answer = <<>> /\ lost = {}
    /\ since = 0
    /\ fault = FALSE

-----------------------------------------------------------------------------
\* How a handler ends and how it goes on.

Respond(p, code, about, node) ==
    /\ pc' = "done"
    /\ out' = [code  |-> IF p = "release" THEN 303 ELSE code,
               about |-> about, rev |-> node.rev, shows |-> node.kind]

Refuse(code, about) ==
    /\ Respond(page, code, about, NoNode)
    /\ UNCHANGED <<history, page, found, pool, since, fault>>

GoTo(step, node) ==
    /\ IF step = "done"
       THEN Respond(page, 200, "page", node)
       ELSE pc' = step /\ UNCHANGED out
    /\ found' = node
    /\ UNCHANGED <<history, page, pool, since, fault>>

Advance(step) == GoTo(Then(step), found)

StartPool(seq, raw) ==
    /\ items' = seq
    /\ rows' = [i \in DOMAIN seq |-> NoRow]
    /\ next' = 1
    /\ slots' = {} /\ open' = {}
    /\ answer' = raw /\ lost' = {}

\* The calls a page does without: lockOverlay, branchOptions, renderReadme.
Optional == {"branches", "overlay", "readme"}
Exchanged == {"base", "scope", "exchange"}

-----------------------------------------------------------------------------
\* Others push revisions to the branch.
Push(kind) ==
    /\ tip < MaxRev
    /\ history' = Append(history, kind)
    /\ UNCHANGED <<page, pc, found, pool, out, since, fault>>

Ask(p) ==
    /\ pc = "done"
    /\ page' = p
    /\ pc' = "base"
    /\ out' = NoReply
    /\ found' = NoNode
    /\ StartPool(<<>>, <<>>)
    /\ since' = tip
    /\ fault' = FALSE
    /\ UNCHANGED history

\* No path, no signature, or a lock id that is not hexadecimal.
BadRequest(p) ==
    /\ pc = "done"
    /\ p \in {"raw", "commit", "release"}
    /\ page' = p
    /\ Respond(p, 400, "request", NoNode)
    /\ found' = NoNode
    /\ StartPool(<<>>, <<>>)
    /\ since' = tip
    /\ fault' = FALSE
    /\ UNCHANGED history

\* Calls of whose answer only matters here that they succeeded, or that the
\* page does without.
Plain == {"base", "list", "repo", "scope", "branch", "info", "exchange",
          "locks", "unlock"} \cup Optional

CallReturns(step) ==
    /\ pc = step /\ step \in Plain \ {"overlay"}
    /\ Advance(step)

\* A call is refused, the server unreachable or the deadline past.
CallFails(step) ==
    /\ pc = step /\ step \notin Optional \cup {"pool", "diff", "done"}
    /\ Respond(page, IF step \in Exchanged THEN 403 ELSE 502, "call", NoNode)
    /\ fault' = TRUE
    /\ UNCHANGED <<history, page, found, pool, since>>

\* An unknown branch is no error on the repository page: the default is shown.
NotFound(step) ==
    /\ pc = step
    /\ \/ step = "repo" /\ Refuse(404, "repo")
       \/ step = "branch" /\ page # "repo" /\ Refuse(404, "branch")
       \/ step = "branch" /\ page = "repo" /\ Advance("branch")
       \/ step = "info" /\ Refuse(404, "commit")

\* What RevisionTree answers at the tip for the path itself, which has to be
\* a directory.
ListPath == CASE KindAt(tip) = "dir" -> "ok"
              [] KindAt(tip) = "none" -> "notfound"
              [] OTHER -> "error"

PathListed == ListPath = "ok"   \* mutant: asks for the path, not its parent

\* Whether it lists the directory the path is in.
ParentListed == tip > 0

FindPath ==
    LET node == [rev |-> tip, kind |-> KindAt(tip)]
        ends == IF page = "raw" THEN {"none", "dir"} ELSE {"none"}
    IN  /\ pc = "path"
        /\ \/ /\ ~ ParentListed \/ node.kind \in ends
              /\ Refuse(404, "path")
           \/ /\ ParentListed /\ node.kind \notin ends
              /\ GoTo(IF node.kind = "dir" THEN "listing" ELSE "content", node)

ListDir ==
    /\ pc = "listing"
    /\ \/ ListPath = "ok" /\ GoTo("overlay", [rev |-> tip, kind |-> "dir"])
       \/ ListPath = "notfound" /\ Refuse(404, "path")
       \/ ListPath = "error" /\ Refuse(502, "call")

\* A branch without revisions answers not found, or a header without nodes:
\* the repository page says it is empty, the tree page shows no rows.
ListRoot ==
    /\ pc = "root"
    /\ \/ tip > 0 /\ GoTo("overlay", [rev |-> tip, kind |-> "dir"])
       \/ tip = 0 /\ page = "repo" /\ GoTo("done", NoNode)
       \/ tip = 0 /\ page = "root" /\ GoTo("overlay", NoNode)
       \/ tip = 0 /\ page = "root" /\ Refuse(404, "path")

\* The locks that are shown do not matter here, and a failed query shows none.
Overlay ==
    /\ pc = "overlay"
    /\ IF page = "tree" /\ found.kind # "dir"
       THEN GoTo("read", found)
       ELSE Advance("overlay")

FetchedAtTip(node) == [node EXCEPT !.kind = KindAt(tip)]   \* mutant: by path

\* A blob is named by its content address.
Fetched(node) == [node EXCEPT !.kind = KindAt(node.rev)]

\* raw sends the status and copies the body, whole or not, to the browser; a
\* file page reads the body later.
FetchContent ==
    /\ pc = "content"
    /\ GoTo(IF page = "raw" THEN "done" ELSE "overlay", Fetched(found))

ReadFile ==
    /\ pc = "read"
    /\ GoTo("done", found)

-----------------------------------------------------------------------------
FanOut(seq, raw) ==
    /\ pc' = "pool"
    /\ StartPool(seq, raw)
    /\ UNCHANGED <<history, page, found, out, since, fault>>

ListRevisions(sigs) ==
    /\ pc = "revisions"
    /\ FanOut(Capped(dedupBySignature(sigs)), sigs)

\* A branch without revisions is an empty page; a cursor may not decode.
NoRevisions ==
    /\ pc = "revisions"
    /\ GoTo("done", found) \/ Refuse(400, "request")

RevisionDiff(entries) ==
    /\ pc = "diff"
    /\ FanOut(Changes(entries), entries)

\* The header is shown without files.
NoDiff ==
    /\ pc = "diff"
    /\ GoTo("done", found)

Filling == pc = "pool" /\ next <= Len(items)
PastCap(i) == page = "commit" /\ i > MaxInline

SlotFreeAlways == TRUE   \* mutant: no semaphore
SlotFree == Cardinality(slots) < Workers

Spawn ==
    /\ Filling /\ ~ PastCap(next)
    /\ SlotFree
    /\ slots' = slots \cup {next}
    /\ open' = open \cup {next}
    /\ next' = next + 1
    /\ UNCHANGED <<history, page, pc, found, items, rows, answer, lost, out, since, fault>>

ListOnly ==
    /\ Filling /\ PastCap(next)
    /\ rows' = [rows EXCEPT ![next] = Row(items[next], "listed", "none", "none")]
    /\ next' = next + 1
    /\ UNCHANGED <<history, page, pc, found, items, slots, open, answer, lost, out, since, fault>>

Write(i, row, ok) ==
    /\ rows' = [rows EXCEPT ![i] = row]
    /\ lost' = IF ok THEN lost ELSE lost \cup {i}
    /\ UNCHANGED <<history, page, pc, found, items, next, slots, open, answer, out, since, fault>>

Enrich(i, ok) ==
    /\ page = "commits" /\ i \in slots /\ rows[i] = NoRow
    /\ Write(i, Row(items[i], IF ok THEN "info" ELSE "bare", "none", "none"), ok)

Diff(i, ok) ==
    /\ page = "commit" /\ i \in slots /\ rows[i] = NoRow
    /\ Write(i, resolveFileDiff(items[i], ok), \A c \in Calls : ok[c])

\* Mutant: a worker whose calls failed keeps its slot.
ReleaseUnlessLost(i) ==
    /\ i \in slots /\ rows[i] # NoRow /\ i \notin lost
    /\ slots' = slots \ {i}
    /\ UNCHANGED <<history, page, pc, found, items, next, open, rows, answer, lost, out, since, fault>>

\* The deferred calls of a worker, in the order they run.
Release(i) ==
    /\ i \in slots /\ rows[i] # NoRow
    /\ slots' = slots \ {i}
    /\ UNCHANGED <<history, page, pc, found, items, next, open, rows, answer, lost, out, since, fault>>

Done(i) ==
    /\ i \in open \ slots
    /\ open' = open \ {i}
    /\ UNCHANGED <<history, page, pc, found, items, next, slots, rows, answer, lost, out, since, fault>>

Wait ==
    /\ pc = "pool" /\ next > Len(items) /\ open = {}
    /\ GoTo("done", found)

-----------------------------------------------------------------------------
Serve ==
    \/ \E step \in Steps : CallReturns(step) \/ CallFails(step) \/ NotFound(step)
    \/ FindPath \/ ListDir \/ ListRoot \/ Overlay \/ FetchContent \/ ReadFile
    \/ \E sigs \in Listings : ListRevisions(sigs)
    \/ \E entries \in Diffs : RevisionDiff(entries)
    \/ NoRevisions \/ NoDiff
    \/ Spawn \/ ListOnly \/ Wait
    \/ \E i \in DOMAIN items :
          \/ \E ok \in BOOLEAN : Enrich(i, ok)
          \/ \E ok \in [Calls -> BOOLEAN] : Diff(i, ok)
          \/ Release(i) \/ Done(i)

Next ==
    \/ \E p \in Page : Ask(p) \/ BadRequest(p)
    \/ \E kind \in Kind : Push(kind)
    \/ Serve

\* Every call ends: the gRPC methods and the HTTP client have a timeout.
Spec == Init /\ [][Next]_vars /\ WF_vars(Serve)

-----------------------------------------------------------------------------
\* A page that is served shows one revision: one that was the tip while the
\* request was served, and what the page shows is what the path was there
\* (Tree, Raw and RepoHome, which ask for the tip once per call).
OneRevision ==
    (out # NoReply /\ out.code = 200 /\ page \in {"tree", "raw", "repo", "root"})
        => out.rev \in since..tip /\ (page \in {"tree", "raw"} =>
                out.shows = KindAt(out.rev))

\* Lookups are stable: while the path stays what it is and no call that is
\* needed fails, the page shows it, or says not found when there is nothing to
\* show, however many revisions are pushed in between (Tree and Raw).
StablePathServed ==
    (/\ out # NoReply /\ page \in {"tree", "raw"} /\ ~ fault
     /\ out.about \notin {"request", "repo", "branch"}
     /\ \A r \in since..tip : KindAt(r) = KindAt(tip))
        => IF KindAt(tip) \in (IF page = "raw" THEN {"none", "dir"} ELSE {"none"})
           THEN out.code = 404
           ELSE out.code = 200 /\ out.shows = KindAt(tip)

\* What a change looks like when nothing fails, from its contents alone.
TrueRow(e) ==
    IF e.node = "file" /\ "binary" \in {e.from, e.to}
    THEN Row(e, "binary", "none", "none")
    ELSE IF e.node = "link" \/ "large" \in {e.from, e.to} \/ e.from = e.to
         THEN Row(e, "listed", "none", "none")
         ELSE Row(e, "hunks", e.from, e.to)

\* The rows are about the elements of lore-server's answer at the positions
\* at[1] < at[2] < ...
Subsequence(at) ==
    /\ \A i \in DOMAIN items : items[i] = answer[at[i]]
    /\ \A i, j \in DOMAIN items : i < j => at[i] < at[j]

\* A row of the list of commits says what RevisionInfo answered, or is bare; a
\* row of a commit's diff says what is true, and one whose calls failed never
\* shows text of the wrong file.
HonestRow(i) ==
    /\ rows[i].item = items[i]
    /\ page = "commits" => rows[i].kind = IF i \in lost THEN "bare" ELSE "info"
    /\ page = "commit" =>
          \/ i > MaxInline /\ rows[i].kind = "listed"
          \/ i \notin lost /\ rows[i] = TrueRow(items[i])
          \/ i \in lost /\ rows[i].from \in {"none", items[i].from}
                        /\ rows[i].to \in {"none", items[i].to}

\* A path that is not what it was in the parent: lore-server reports it added,
\* deleted, moved or copied.  An edit in place, whose path stays, is not among
\* these: Commit drops KEEP before it looks at the contents.
PathChanged(e) ==
    e.node \in {"file", "link"} /\ e.action \in {"add", "delete", "move", "copy"}

\* What the fan-out is over: the changed paths that lore-server named, or the
\* revisions, each once, up to the ceiling of rows; in its order.
Complete ==
    /\ \E at \in [DOMAIN items -> DOMAIN answer] :
          /\ Subsequence(at)
          /\ page = "commit" => \A p \in DOMAIN answer :
                PathChanged(answer[p]) <=> \E i \in DOMAIN items : at[i] = p
    /\ page = "commits" =>
          /\ \A i, j \in DOMAIN items : items[i] = items[j] => i = j
          /\ ToSet(items) = ToSet(answer) \/ Len(items) = MaxRows

\* The commit pages are complete and in order, whatever order the workers end
\* in: one honest row for each revision that lore-server named, or each file and
\* link it reports added, deleted, moved or copied, each once and in its order,
\* up to the ceiling of rows (Commits, Commit and their fan-outs).  No other entry
\* has a row, not even one whose path stays and whose contents differ.
RowsHonest ==
    (pc = "done" /\ page \in {"commits", "commit"}) =>
        Complete /\ \A i \in DOMAIN items : rows[i] # NoRow /\ HonestRow(i)

\* Every request is answered: no chain of calls and no fan-out waits for ever
\* (each worker gives its slot back, also when its calls failed).
Served == (pc # "done") ~> (pc = "done")

=============================================================================
