---------------------------- MODULE ClientLaunch ----------------------------
(***************************************************************************)
(* `pmux launch`: prepareLaunch and launch of the router, the model        *)
(* catalog (Refresh of internal/adapter/models/catalog.go) and the four    *)
(* client launchers of internal/adapter/client.                            *)
(*                                                                         *)
(* Every call to CLIProxyAPI, to a file and to the client's binary may     *)
(* fail; what the accounts serve and which binary is on PATH change at any *)
(* time.  Discovery asks account after account, so its answer need not     *)
(* have been true at any one moment.  Left out: owners, attribution and    *)
(* favorites, arguments, environment and working directory, profiles       *)
(* (candidates are any sequence), and the exit status.                     *)
(***************************************************************************)
EXTENDS Naturals, Sequences

CONSTANTS
  Models, NoModel,
  Accounts,
  Clients,       \* a subset of {"claude", "codex", "gemini", "opencode"}
  NoCache,
  MaxChanges     \* bound: changes of what is served and of the binary

VARIABLES
  serves,     \* the models each account serves
  binary,     \* the client on PATH: "supported", "unsupported" or "missing"
  cache,      \* the models of the cache file
  home,       \* settings.json in Gemini's private home: "none", "other" or "ours"
  pc, job,
  ask, found, \* discovery: the accounts still to ask, the models gathered
  child,      \* the model the client was started with
  changes,    \* bound
  live,       \* history: what one source last answered to its end in this launch
  offered     \* history: what prepareLaunch selected from

vars == <<serves, binary, cache, home, pc, job, ask, found, child, changes, live, offered>>
world == <<serves, binary, changes>>
discovery == <<ask, found>>
history == <<live, offered>>

\* entries, stale: the catalog Refresh returned; then: who called it.
NoJob == [client |-> "none", wanted |-> <<>>, model |-> NoModel, entries |-> {}, stale |-> FALSE,
          then |-> "select"]
Wanted == {<<a>> : a \in Models} \cup {<<p[1], p[2]>> : p \in Models \X Models}
Jobs == [client: Clients \cup {"none"}, wanted: Wanted \cup {<<>>}, model: Models \cup {NoModel},
         entries: SUBSET Models, stale: BOOLEAN, then: {"select", "require"}]
PCs == {"idle", "accounts", "models", "definitions", "public", "store", "offline", "select",
        "detect", "redetect", "preflight", "require", "settings", "run", "running"}

Goto(next) == pc' = next /\ UNCHANGED job
Fail == pc' = "idle" /\ job' = NoJob
Returns(entries, stale) == pc' = job.then /\ job' = [job EXCEPT !.entries = entries, !.stale = stale]

-----------------------------------------------------------------------------
(* The model catalog                                                       *)

Refresh ==
  /\ pc = "accounts"
  /\ \/ \E enabled \in SUBSET Accounts \ {{}} : ask' = enabled /\ Goto("models") /\ UNCHANGED live
     \/ ask' = {} /\ Goto("store") /\ live' = {}   \* every account is disabled
     \/ ask' = {} /\ Goto("public") /\ UNCHANGED live
  /\ found' = {}
  /\ UNCHANGED <<world, cache, home, child, offered>>

\* AuthFileModels of one account.
AskAccount ==
  /\ pc = "models" /\ ask # {}
  /\ \/ \E a \in ask : ask' = ask \ {a} /\ found' = found \cup serves[a] /\ UNCHANGED <<pc, job>>
     \/ Goto("public") /\ ask' = {} /\ UNCHANGED found
  /\ UNCHANGED <<world, cache, home, child, history>>

\* ModelDefinitions, channel by channel: any models may be added.
AskDefinitions ==
  /\ pc = "models" /\ ask = {}
  /\ \/ /\ \E more \in SUBSET Models :
             found' = found \cup more /\ live' = found \cup more
        /\ Goto("store")
     \/ Goto("public") /\ UNCHANGED <<found, live>>
  /\ UNCHANGED <<world, cache, home, ask, child, offered>>

\* Mutant: what management told before it failed is kept.
PublicAndPartial(refs) == found \cup refs

\* /v1/models, instead of management and never added to it.
PublicAnswer(refs) == refs

AskPublic ==
  /\ pc = "public"
  /\ \/ LET refs == UNION {serves[a] : a \in Accounts} IN
          /\ found' = PublicAnswer(refs) /\ live' = refs
          /\ Goto("store")
     \/ Goto("offline") /\ UNCHANGED <<found, live>>
  /\ UNCHANGED <<world, cache, home, ask, child, offered>>

\* A cache that cannot be written is a warning, one that was renamed is written.
StoreCache ==
  /\ pc = "store"
  /\ cache' \in {cache, found}
  /\ Returns(found, FALSE) \/ Fail   \* the favorites cannot be read
  /\ found' = {}
  /\ UNCHANGED <<world, home, ask, child, history>>

OfflineCache ==
  /\ pc = "offline"
  /\ \/ cache # NoCache /\ Returns(cache, TRUE)
     \/ Fail
  /\ live' = {} /\ found' = {}
  /\ UNCHANGED <<world, cache, home, ask, child, offered>>

-----------------------------------------------------------------------------
(* The launch                                                              *)

Launch ==
  /\ pc = "idle"
  /\ \E client \in Clients, wanted \in Wanted :
       job' = [NoJob EXCEPT !.client = client, !.wanted = wanted]
  /\ pc' = "accounts" /\ live' = {} /\ offered' = {}
  /\ UNCHANGED <<world, cache, home, discovery, child>>

Available == {i \in DOMAIN job.wanted : job.wanted[i] \in job.entries}

FirstAvailable == CHOOSE i \in Available : \A j \in Available : i <= j

\* Mutant: a cached catalog will do.
AcceptsStale == TRUE

AcceptsEntry == ~job.stale

Select ==
  /\ pc = "select"
  /\ IF Available # {} /\ AcceptsEntry
     THEN pc' = "detect" /\ job' = [job EXCEPT !.model = job.wanted[FirstAvailable]]
     ELSE Fail
  /\ offered' = job.entries
  /\ UNCHANGED <<world, cache, home, discovery, child, live>>

Detected == binary = "supported" \/ (binary = "unsupported" /\ job.client # "claude")

\* prepareLaunch detects the client, and the launcher does again.
Detect ==
  /\ pc \in {"detect", "redetect"}
  /\ \/ Detected /\ Goto(IF pc = "detect" THEN "redetect" ELSE "preflight")
     \/ Fail
  /\ UNCHANGED <<world, cache, home, discovery, child, history>>

\* The model once more, unless the launcher has no preflight.
Preflight ==
  /\ pc = "preflight"
  /\ IF job.client = "opencode"
     THEN Goto("run")
     ELSE pc' = "accounts" /\ job' = [job EXCEPT !.then = "require"]
  /\ UNCHANGED <<world, cache, home, discovery, child, history>>

RequireLiveModel ==
  /\ pc = "require"
  /\ IF AcceptsEntry /\ job.model \in job.entries
     THEN Goto(IF job.client = "gemini" THEN "settings" ELSE "run")
     ELSE Fail
  /\ UNCHANGED <<world, cache, home, discovery, child, history>>

\* The write may fail after its rename.
EnsureSettings ==
  /\ pc = "settings"
  /\ IF home = "ours" THEN Goto("run") /\ UNCHANGED home
     ELSE \/ home' = "ours" /\ (Goto("run") \/ Fail)
          \/ Fail /\ UNCHANGED home
  /\ UNCHANGED <<world, cache, discovery, child, history>>

Run ==
  /\ pc = "run"
  /\ \/ binary # "missing" /\ child' = job.model /\ Goto("running")
     \/ Fail /\ UNCHANGED child
  /\ UNCHANGED <<world, cache, home, discovery, history>>

Exit ==
  /\ pc = "running"
  /\ child' = NoModel /\ Fail
  /\ UNCHANGED <<world, cache, home, discovery, history>>

-----------------------------------------------------------------------------
Others ==
  /\ changes < MaxChanges /\ changes' = changes + 1
  /\ \/ \E a \in Accounts, ids \in SUBSET Models : serves' = [serves EXCEPT ![a] = ids] /\ UNCHANGED binary
     \/ binary' \in {"supported", "unsupported", "missing"} /\ UNCHANGED serves
  /\ UNCHANGED <<cache, home, pc, job, discovery, child, history>>

Init ==
  /\ serves = [a \in Accounts |-> {}] /\ binary = "supported"
  /\ cache = NoCache /\ home \in {"none", "other"}
  /\ pc = "idle" /\ job = NoJob /\ ask = {} /\ found = {} /\ child = NoModel /\ changes = 0
  /\ live = {} /\ offered = {}

Next ==
  \/ Refresh \/ AskAccount \/ AskDefinitions \/ AskPublic \/ StoreCache \/ OfflineCache
  \/ Launch \/ Select \/ Detect \/ Preflight \/ RequireLiveModel \/ EnsureSettings \/ Run \/ Exit
  \/ Others

Spec == Init /\ [][Next]_vars

TypeOK ==
  /\ serves \in [Accounts -> SUBSET Models] /\ binary \in {"supported", "unsupported", "missing"}
  /\ cache \in (SUBSET Models) \cup {NoCache} /\ home \in {"none", "other", "ours"}
  /\ pc \in PCs /\ job \in Jobs /\ ask \subseteq Accounts /\ found \subseteq Models
  /\ child \in Models \cup {NoModel} /\ changes \in 0 .. MaxChanges
  /\ live \subseteq Models /\ offered \subseteq Models

\* A client runs with a model that a live source listed during this launch, after any failure
\* of another source or of the cache, and with the first of the models asked for that
\* could be had (router.go:1869, runtime.go:753).
LaunchIsLive ==
  child # NoModel =>
    /\ child \in live
    /\ \E i \in DOMAIN job.wanted :
         job.wanted[i] = child /\ \A j \in 1 .. i - 1 : job.wanted[j] \notin offered

\* What enters the cache is what one source answered to its end, never a part of an answer
\* or a union of two (catalog.go:143).
CacheIsWhole == [][cache' # cache => cache' = live]_vars
=============================================================================
