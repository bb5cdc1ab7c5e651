--------------------------- MODULE ManagementWrite ---------------------------
(***************************************************************************)
(* Changes that PMux makes through the proxy's Management API:             *)
(* internal/adapter/mgmtapi (client.go, methods.go), ApplyAPIKey of        *)
(* internal/adapter/auth, and the commands of internal/app that use them   *)
(* (keys, models aliases, models exclusions, config set, providers enable, *)
(* disable, remove and reset-quota, plugins).                              *)
(*                                                                         *)
(* The resource is a list of entries: client keys, provider keys, aliases, *)
(* exclusions, enabled accounts or plugins, or the value of a setting.     *)
(* One command is looked at; the panel and the proxy change the list       *)
(* whenever they like, and so may other commands: of these only `config    *)
(* set` and those on providers but reset-quota take the mutation lock      *)
(* (IsMutation).  The management key may be changed under a command.  A    *)
(* request is answered, or it is lost before or after it took effect; the  *)
(* proxy counts those it rejects (401, 403) and bans the address at the    *)
(* fifth.                                                                  *)
(***************************************************************************)
EXTENDS Naturals, Sequences, SequencesExt

CONSTANTS
  Entries,    \* entries of the list
  MaxEntries, \* bound: entries in the list when one is created
  MaxOthers   \* bound: changes by others

VARIABLES
  list,      \* the resource
  valid,     \* the management key is accepted
  pc, job,   \* the running command and its local variables
  rejected,  \* requests of the running command that were rejected
  others,    \* number of changes by others
  meanwhile, \* history: another writer changed the list since the command began
  overrode   \* history: the command replaced a change by another writer that it had not read

vars == <<list, valid, pc, job, rejected, others, meanwhile, overrode>>

Lists == Seq(Entries)

\* create: ApplyAPIKey, setting: config set, edit: aliases and exclusions, remove: a client
\* key by its position, named: one request that names what it changes, accounts: one
\* request for each account.
Kinds == {"create", "setting", "edit", "remove", "named", "accounts"}
Verified == {"create", "setting"}
Results == {"none", "ok", "failed", "mixed"}

\* prior: what was read, want: what is written, target: what it concerns, fresh: prior is
\* still what the list holds, refused: the PUT of a setting got an error.
NoJob == [kind |-> "none", prior |-> <<>>, want |-> <<>>, target |-> {}, fresh |-> FALSE,
          refused |-> FALSE, result |-> "none"]
Jobs == [kind: Kinds \cup {"none"}, prior: Lists, want: Lists, target: SUBSET Entries,
         fresh: BOOLEAN, refused: BOOLEAN, result: Results]
PCs == {"idle", "read", "consent", "write", "verify", "restore", "recheck", "done"}

Go(at) == pc' = at /\ UNCHANGED job
GoWith(at, j) == pc' = at /\ job' = j
End(r) == GoWith("done", [job EXCEPT !.result = r])

Position(s, e) == SelectInSeq(s, LAMBDA x: x = e)
Dropped(s, e) == IF e \in ToSet(s) THEN RemoveAt(s, Position(s, e)) ELSE s

\* What is left when any entries go: the others in their order.
Increasing(n, m) == {f \in [1 .. n -> 1 .. m]: \A i, j \in 1 .. n: i < j => f[i] < f[j]}
Left(s) == UNION {{[i \in 1 .. n |-> s[f[i]]]: f \in Increasing(n, Len(s))}: n \in 0 .. Len(s)}

Added(s, e) == IF e \in ToSet(s) THEN s ELSE Append(s, e)

-----------------------------------------------------------------------------
(* Requests                                                                *)

Accepted == valid /\ UNCHANGED rejected

\* Mutant: a request that is rejected is sent once more.
Retried == ~valid /\ rejected' = rejected + 2

Rejected == ~valid /\ rejected' = rejected + 1
NoAnswer == UNCHANGED rejected

\* A PUT is accepted, which need not mean that the proxy has taken it; what it replaces is
\* what was read, or something else.
Replaced(new) ==
  /\ Accepted
  /\ list' \in {new, list}
  /\ overrode' = (overrode \/ (list' # list /\ ~job.fresh))
Unwritten == UNCHANGED <<list, overrode>>

\* isManagementAuthError: only `config set` goes on after a rejected request.
StopsWhenRejected == job.kind # "setting"

-----------------------------------------------------------------------------
Begin(kind) ==
  /\ pc = "idle"
  /\ GoWith(IF kind = "named" THEN "consent" ELSE "read", [NoJob EXCEPT !.kind = kind])
  /\ UNCHANGED <<list, valid, rejected, others, meanwhile, overrode>>

\* What the command is to write and which entries that concerns; nothing when what is added
\* exists already or what is removed is missing.  ApplyAPIKey compares an ID that
\* CreateProviderKey does not write, so a provider key may be created again.
Plans(s) ==
  CASE job.kind = "create" -> {<<Append(s, e), {e}>>: e \in IF Len(s) < MaxEntries THEN Entries ELSE {}}
    [] job.kind = "setting" -> {<<<<e>>, {e}>>: e \in Entries}
    [] job.kind = "edit" -> {<<Append(s, e), {e}>>: e \in Entries \ ToSet(s)}
                              \cup {<<Dropped(s, e), {e}>>: e \in ToSet(s)}
    [] job.kind = "remove" -> {<<s, {e}>>: e \in ToSet(s)}
    [] job.kind = "accounts" -> {<<s, S>>: S \in (SUBSET ToSet(s)) \ {{}}}

\* ProviderKeys and rawProviderKeys, GetSetting, ModelAliases, ExcludedModels, APIKeys,
\* AuthFiles.  `keys remove` has asked the user before.
Read ==
  /\ pc = "read"
  /\ \/ /\ Accepted
        /\ \E plan \in Plans(list):
             GoWith(IF job.kind \in {"create", "remove"} THEN "write" ELSE "consent",
                    [job EXCEPT !.prior = list, !.want = plan[1], !.target = plan[2], !.fresh = TRUE])
     \/ Rejected /\ End("failed")
     \/ NoAnswer /\ End("failed")
  /\ UNCHANGED <<list, valid, others, meanwhile, overrode>>

\* The preview, and the user's answer.
Consent ==
  /\ pc = "consent"
  /\ (Go("write") \/ End("failed"))
  /\ UNCHANGED <<list, valid, rejected, others, meanwhile, overrode>>

\* CreateProviderKey: every error but a rejection is followed by the compensating PUT.
WriteCreated ==
  /\ pc = "write" /\ job.kind = "create"
  /\ \/ Replaced(job.want) /\ (Go("verify") \/ Go("restore"))
     \/ Unwritten /\ Rejected /\ (IF StopsWhenRejected THEN End("failed") ELSE Go("restore"))
     \/ Unwritten /\ NoAnswer /\ Go("restore")
  /\ UNCHANGED <<valid, others, meanwhile>>

\* configSetManagement: the setting is read back whatever the PUT said.
WriteSetting ==
  /\ pc = "write" /\ job.kind = "setting"
  /\ LET failed == GoWith("verify", [job EXCEPT !.refused = TRUE])
     IN \/ Replaced(job.want) /\ (Go("verify") \/ failed)
        \/ Unwritten /\ Rejected /\ (IF StopsWhenRejected THEN End("failed") ELSE failed)
        \/ Unwritten /\ NoAnswer /\ failed
  /\ UNCHANGED <<valid, others, meanwhile>>

\* PutModelAliases, PutExcludedModels: the answer is believed.
WriteEdited ==
  /\ pc = "write" /\ job.kind = "edit"
  /\ \/ Replaced(job.want) /\ (End("ok") \/ End("failed"))
     \/ Unwritten /\ (Rejected \/ NoAnswer) /\ End("failed")
  /\ UNCHANGED <<valid, others, meanwhile>>

\* DeleteAPIKey names the position that the key had in the list it read.
WritePosition ==
  /\ pc = "write" /\ job.kind = "remove"
  /\ \E e \in job.target:
       \/ /\ Accepted /\ LET i == Position(job.prior, e) IN i \in DOMAIN list /\ list' = RemoveAt(list, i)
          /\ End("ok") \/ End("failed")
       \/ UNCHANGED list /\ (Rejected \/ NoAnswer) /\ End("failed")
  /\ UNCHANGED <<valid, others, meanwhile, overrode>>

\* PatchAPIKeys, DeleteModelAliases, DeleteExcludedModels, DeleteAuthFiles, ResetQuota and
\* the plugin requests, which the proxy may also refuse (409).
WriteNamed ==
  /\ pc = "write" /\ job.kind = "named"
  /\ \/ /\ Accepted
        /\ \/ \E e \in Entries: list' = Added(list, e)
           \/ list' \in Left(list)
        /\ (End("ok") \/ End("failed"))
     \/ UNCHANGED list /\ (Rejected \/ NoAnswer) /\ End("failed")
  /\ UNCHANGED <<valid, others, meanwhile, overrode>>

\* PatchAuthFileStatus for one account after the other; the first error ends it.  Disabling
\* is shown, enabling is alike.
WriteAccount ==
  /\ pc = "write" /\ job.kind = "accounts"
  /\ \E e \in job.target:
       \/ /\ Accepted /\ list' = Dropped(list, e)
          /\ \/ job.target = {e} /\ End("ok")
             \/ job.target # {e} /\ GoWith("write", [job EXCEPT !.target = @ \ {e}])
             \/ End("failed")
       \/ UNCHANGED list /\ (Rejected \/ NoAnswer) /\ End("failed")
  /\ UNCHANGED <<valid, others, meanwhile, overrode>>

\* Mutant: an answer to the read is taken as confirmation.
Answered == TRUE

\* rawProviderKeyPresent, or the very value.
Observed == IF job.kind = "create" THEN job.target \subseteq ToSet(list) ELSE list = job.want

Verify ==
  /\ pc = "verify"
  /\ \/ Accepted /\ (IF Observed /\ ~job.refused THEN End("ok") ELSE Go("restore"))
     \/ Rejected /\ (IF StopsWhenRejected THEN End("failed") ELSE Go("restore"))
     \/ NoAnswer /\ Go("restore")
  /\ UNCHANGED <<list, valid, others, meanwhile, overrode>>

\* The compensating PUT of what was read before.
Restore ==
  /\ pc = "restore"
  /\ \/ Replaced(job.prior) /\ (Go("recheck") \/ End("mixed"))
     \/ Unwritten /\ (Rejected \/ NoAnswer) /\ End("mixed")
  /\ UNCHANGED <<valid, others, meanwhile>>

Recheck ==
  /\ pc = "recheck"
  /\ \/ Accepted /\ End(IF list = job.prior THEN "failed" ELSE "mixed")
     \/ (Rejected \/ NoAnswer) /\ End("mixed")
  /\ UNCHANGED <<list, valid, others, meanwhile, overrode>>

Leave ==
  /\ GoWith("idle", NoJob)
  /\ rejected' = 0 /\ meanwhile' = FALSE /\ overrode' = FALSE
  /\ UNCHANGED <<list, valid, others>>

Finish == pc = "done" /\ Leave
Die == pc \notin {"idle", "done"} /\ Leave

-----------------------------------------------------------------------------
\* The panel, the proxy, another client or another command.
Others ==
  /\ others < MaxOthers
  /\ others' = others + 1
  /\ \E e \in Entries: list' \in {Added(list, e), Dropped(list, e)} \ {list}
  /\ meanwhile' = (pc # "idle") /\ job' = [job EXCEPT !.fresh = FALSE]
  /\ UNCHANGED <<valid, pc, rejected, overrode>>

\* The management key is replaced, and set up again in PMux.
Rekey ==
  /\ valid' = ~valid
  /\ ~valid => pc = "idle"
  /\ UNCHANGED <<list, pc, job, rejected, others, meanwhile, overrode>>

Init ==
  /\ list = <<>> /\ valid = TRUE /\ pc = "idle" /\ job = NoJob
  /\ rejected = 0 /\ others = 0 /\ meanwhile = FALSE /\ overrode = FALSE

Next ==
  \/ \E kind \in Kinds: Begin(kind)
  \/ Read \/ Consent
  \/ WriteCreated \/ WriteSetting \/ WriteEdited \/ WritePosition \/ WriteNamed \/ WriteAccount
  \/ Verify \/ Restore \/ Recheck \/ Finish
  \/ Others \/ Rekey \/ Die

Spec == Init /\ [][Next]_vars

-----------------------------------------------------------------------------
(* Properties                                                              *)

TypeOK ==
  /\ list \in Lists /\ valid \in BOOLEAN
  /\ pc \in PCs /\ job \in Jobs
  /\ rejected \in 0 .. 5 /\ others \in 0 .. MaxOthers
  /\ meanwhile \in BOOLEAN /\ overrode \in BOOLEAN

\* If nobody else writes meanwhile, a setting that was written has its value; a provider key
\* that was created is in the list, which else is as it was (a key that was there before may
\* be there once or twice); a write that fails has left what it found, unless it says that
\* it could not put it back or that its key was rejected; and the client key that is removed
\* is the one that was named, wherever it was in the list.
VerifiedOutcome ==
  pc = "done" /\ job.target # {} /\ ~meanwhile =>
    /\ job.kind = "setting" /\ job.result = "ok" => list = job.want
    /\ job.kind = "create" /\ job.result = "ok" =>
         list \in {job.want, job.prior} /\ job.target \subseteq ToSet(list)
    /\ job.kind \in Verified /\ job.result = "failed" /\ rejected = 0 => list = job.prior
    /\ job.kind = "remove" /\ job.result = "ok" => \E e \in job.target: list = Dropped(job.prior, e)

\* A command stops after one rejected request (docs/troubleshooting.md, client.go:205);
\* `config set` reads back and puts back all the same.
StopsAfterOne == rejected <= 1

\* A write replaces only what the command has read.
ComparesBeforeWriting == ~overrode
=============================================================================
