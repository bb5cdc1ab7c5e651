--------------------------- MODULE ClaudeSettings ---------------------------
(***************************************************************************)
(* Persistent Claude model slots: `config set integrations.claude.         *)
(* persistent-models...` (configSetPersistentSlot of the router) and the   *)
(* plan, Upsert and Unpersist of internal/adapter/client/claude.  Three    *)
(* files change together: Claude's settings.json, which is not PMux's, the *)
(* record of what PMux owns of it with a backup, and PMux's configuration. *)
(*                                                                         *)
(* The mutation lock excludes other PMux processes; Claude and editors     *)
(* write settings.json at any time.  A write is atomic but may report an   *)
(* error after its rename, and the process may die between any two.  A     *)
(* fingerprint is the content it is of.  No command of this version calls  *)
(* Unpersist.  Left out: the checks of the model ID against the catalog,   *)
(* the other two slots, permissions, and the diff.                         *)
(***************************************************************************)
EXTENDS Naturals

CONSTANTS
  Models, NoModel,
  Absent,      \* no file, no record
  NoBackup,    \* no backup; that of a missing file is empty
  MaxOthers    \* bound: writes of settings.json by others

VARIABLES
  settings, backup, record,
  config,      \* PersistentClaudeModels of the slot
  pc, job,
  edits,       \* bound: writes of others so far
  meddled,     \* history: another program wrote settings.json during this command
  torn         \* history: a write took effect under an error, or the process died
               \* between two of them

files == <<settings, backup, record, config>>
vars == <<files, pc, job, edits, meddled, torn>>

\* user: edition of what is not PMux's, env: the connection variables are there
Content == [user: 0 .. MaxOthers, env: BOOLEAN, slot: Models \cup {NoModel}]
File == Content \cup {Absent}
Record == [before: File, after: File]

NoJob == [raw |-> NoModel, before |-> Absent, after |-> Absent, was |-> NoModel, reverse |-> FALSE,
          first |-> FALSE]
Jobs == [raw: Models \cup {NoModel}, before: File, after: File, was: Models \cup {NoModel},
         reverse: BOOLEAN, first: BOOLEAN]
PCs == {"idle", "confirm", "reread", "own", "write", "record", "config", "done", "failed", "partly",
        "restore", "disown", "unbackup"}

\* The plan Upsert was given: the reverse one swaps its two ends.
From == IF job.reverse THEN job.after ELSE job.before
To == IF job.reverse THEN job.before ELSE job.after

-----------------------------------------------------------------------------
(* The command                                                             *)

Goto(next) == pc' = next /\ UNCHANGED <<job, edits, meddled>>

\* planPersistent.  NoModel: the slot becomes unmanaged.
Plan ==
  /\ pc = "idle"
  /\ \E raw \in Models \cup {NoModel} :
       LET kept == IF settings = Absent THEN 0 ELSE settings.user
       IN  job' = [NoJob EXCEPT !.raw = raw, !.before = settings, !.was = config,
                                !.after = [user |-> kept, env |-> TRUE, slot |-> raw]]
  /\ pc' = "confirm" /\ meddled' = FALSE
  /\ UNCHANGED <<files, edits, torn>>

Confirm == pc = "confirm" /\ (Goto("reread") \/ Goto("idle")) /\ UNCHANGED <<files, torn>>

\* Upsert gave up: the reverse one leaves a partial change behind.
GiveUp == Goto(IF job.reverse THEN "partly" ELSE "failed")

Reread ==
  /\ pc = "reread"
  /\ IF settings = From THEN Goto("own") ELSE GiveUp
  /\ UNCHANGED <<files, torn>>

\* Mutant: every update backs up what it finds.
Always == TRUE

FirstTime == record = Absent

\* The backup, or the check that nobody wrote the settings since the last update.
Own ==
  /\ pc = "own"
  /\ IF FirstTime
     THEN \/ /\ backup' = From
             /\ pc' = "write" /\ job' = [job EXCEPT !.first = TRUE]
          \/ /\ pc' = (IF job.reverse THEN "partly" ELSE "failed")
             /\ UNCHANGED <<backup, job>>
     ELSE /\ pc' = IF record.after = From THEN "write" ELSE IF job.reverse THEN "partly" ELSE "failed"
          /\ job' = [job EXCEPT !.first = FALSE]
          /\ UNCHANGED backup
  /\ UNCHANGED <<settings, record, config, edits, meddled, torn>>

Unbacked == backup' = IF job.first THEN NoBackup ELSE backup

Write ==
  /\ pc = "write"
  /\ \/ settings' = To /\ Goto("record") /\ UNCHANGED <<backup, torn>>
     \/ UNCHANGED <<settings, torn>> /\ Unbacked /\ GiveUp
     \/ settings' = To /\ torn' = TRUE /\ Unbacked /\ GiveUp
  /\ UNCHANGED <<record, config>>

\* The record keeps the first `before`; without it the settings are put back, unchecked.
Owned == [before |-> IF job.first THEN From ELSE record.before, after |-> To]

WriteRecord ==
  /\ pc = "record"
  /\ \/ /\ record' = Owned
        /\ Goto(IF job.reverse THEN "failed" ELSE "config")
        /\ UNCHANGED <<settings, backup, torn>>
     \/ /\ Unbacked /\ GiveUp
        /\ \/ settings' = From /\ UNCHANGED <<record, torn>>
           \/ settings' \in {From, settings} /\ record' \in {record, Owned} /\ torn' = TRUE
  /\ UNCHANGED config

\* When it fails, Upsert again, with the plan reversed.
SaveConfig ==
  /\ pc = "config"
  /\ \/ config' = job.raw /\ pc' = "done" /\ UNCHANGED <<job, torn>>
     \/ /\ pc' = "reread" /\ job' = [job EXCEPT !.reverse = TRUE]
        /\ \/ UNCHANGED <<config, torn>>
           \/ config' = job.raw /\ torn' = TRUE
  /\ UNCHANGED <<settings, backup, record, edits, meddled>>

End ==
  /\ pc \in {"done", "failed", "partly"}
  /\ pc' = "idle" /\ job' = NoJob /\ meddled' = FALSE
  /\ torn' = (torn \/ pc = "partly")
  /\ UNCHANGED <<files, edits>>

-----------------------------------------------------------------------------
(* Unpersist                                                               *)

CheckOwnership ==
  /\ pc = "idle" /\ record # Absent
  /\ settings # Absent /\ settings = record.after /\ backup = record.before
  /\ Goto("restore") /\ UNCHANGED <<files, torn>>

Restore ==
  /\ pc = "restore"
  /\ \/ settings' = record.before /\ Goto("disown") /\ UNCHANGED torn
     \/ settings' \in {settings, record.before} /\ Goto("idle") /\ torn' = (torn \/ settings' # settings)
  /\ UNCHANGED <<backup, record, config>>

Disown ==
  /\ pc = "disown"
  /\ \/ record' = Absent /\ Goto("unbackup") /\ UNCHANGED torn
     \/ UNCHANGED record /\ Goto("idle") /\ torn' = TRUE
  /\ UNCHANGED <<settings, backup, config>>

RemoveBackup ==
  /\ pc = "unbackup"
  /\ backup' \in {backup, NoBackup} /\ Goto("idle")
  /\ UNCHANGED <<settings, record, config, torn>>

-----------------------------------------------------------------------------
\* Claude or an editor: its own part changes, and PMux's stays or goes.
Others ==
  /\ edits < MaxOthers
  /\ edits' = edits + 1 /\ meddled' = TRUE
  /\ settings' \in {Absent, [user |-> edits + 1, env |-> FALSE, slot |-> NoModel]}
       \cup (IF settings = Absent THEN {} ELSE {[settings EXCEPT !.user = edits + 1]})
  /\ UNCHANGED <<backup, record, config, pc, job, torn>>

Crash ==
  /\ pc # "idle"
  /\ pc' = "idle" /\ job' = NoJob /\ meddled' = FALSE
  /\ torn' = (torn \/ job.reverse \/ pc \in {"record", "config", "disown", "partly"})
  /\ UNCHANGED <<files, edits>>

Init ==
  /\ settings \in {Absent, [user |-> 0, env |-> FALSE, slot |-> NoModel]}
  /\ backup = NoBackup /\ record = Absent /\ config = NoModel
  /\ pc = "idle" /\ job = NoJob /\ edits = 0 /\ meddled = FALSE /\ torn = FALSE

Next ==
  \/ Plan \/ Confirm \/ Reread \/ Own \/ Write \/ WriteRecord \/ SaveConfig \/ End
  \/ CheckOwnership \/ Restore \/ Disown \/ RemoveBackup \/ Others \/ Crash

Spec == Init /\ [][Next]_vars

TypeOK ==
  /\ settings \in File /\ backup \in File \cup {NoBackup} /\ record \in Record \cup {Absent}
  /\ config \in Models \cup {NoModel}
  /\ pc \in PCs /\ job \in Jobs /\ edits \in 0 .. MaxOthers
  /\ meddled \in BOOLEAN /\ torn \in BOOLEAN

\* While PMux owns the settings, whatever was updated, taken back or edited by others since,
\* the backup is what was there before PMux came, and the record says so; a write whose
\* effect was hidden and a death between two writes excepted (claude.go:421, :453).
BackupIsOriginal ==
  record # Absent /\ ~torn =>
    /\ backup = record.before
    /\ backup = Absent \/ ~backup.env

\* A slot is the same in Claude's settings and in PMux's configuration when the command
\* succeeds, and both are as they were when it says that they were restored
\* (router.go:1561, claude.go:500).
SlotIsAllOrNothing ==
  ~torn /\ ~meddled =>
    /\ pc = "done" => settings = job.after /\ config = job.raw
    /\ pc = "failed" => settings = job.before /\ config = job.was

\* Claude's settings can be had back, and say what PMux says of them.
SlotIsRecoverable == BackupIsOriginal /\ SlotIsAllOrNothing
=============================================================================
