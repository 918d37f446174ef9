----------------------------- MODULE HighRiskEntry -----------------------------
(***************************************************************************)
(* core/high_risk/service.py: HighRiskService.enter, its pre-flight files,  *)
(* the vault that keeps the backup password, and the clean-up of an entry   *)
(* that failed or was cancelled; with the worker of ui/textual/chat.py that *)
(* runs it.                                                                 *)
(*                                                                          *)
(* Tab in READY starts an entry in the exclusive "high-risk" group, which   *)
(* cancels the entries that still run there: a cancelled entry cleans up    *)
(* while the next one goes on.  Every attempt has names of its own.         *)
(***************************************************************************)
EXTENDS Naturals, FiniteSets

CONSTANTS
  MaxEntries,  \* bound: entries attempted
  Unreliable   \* may calls to MikroMCP and SFTP time out or fail?

ASSUME EntryBounds ==
  MaxEntries \in Nat \ {0} /\ Unreliable \in BOOLEAN

VARIABLES
  at,         \* at[a]: the await entry a is suspended at
  shield,     \* shield[a]: its clean-up runs under asyncio.shield
  entries,    \* entries attempted so far
  screen,     \* the entry whose session the screen holds, or 0
  \* --- SSH trust ---
  hostKey,    \* the key the router presents (external)
  pinned,     \* the key of ssh_trust, or 0
  asked,      \* the key the operator is asked to confirm, or 0
  confirmed,  \* keys the operator confirmed, for the property
  \* --- the artifacts of each entry ---
  vault,      \* entries whose backup password is in the vault
  local,      \* local[a]: files in its directory, partial ones included
  remote,     \* remote[a]: its files on the router
  making,     \* making[a]: files MikroMCP was asked to make and has not made yet
  \* --- its SSH session ---
  conn,       \* conn[a]
  reached,    \* reached[a]: the key of the host it is connected to
  holder      \* the entry whose PTY holds Safe Mode on the router, or 0

tasks == <<at, shield, entries, screen>>
trust == <<hostKey, pinned, asked, confirmed>>
files == <<vault, local, remote, making>>
ssh   == <<conn, reached, holder>>
vars  == <<tasks, trust, files, ssh>>

Entry == 1..MaxEntries
Keys  == {1, 2}
Remote == {"backup", "export"}
Local  == Remote \cup {"manifest"}

\* enter up to the hand-over, without and with a session in hand; its clean-up.
Bare     == {"backup", "export", "open"}
InHand   == {"fetchBackup", "fetchExport", "purgeBackup", "purgeExport", "safe"}
Cleaning == {"abort", "cleanBackup", "cleanExport"}
Active(a) == at[a] \in {"probe"} \cup Bare \cup InHand \cup Cleaning

Init ==
  /\ at = [a \in Entry |-> "new"] /\ shield = [a \in Entry |-> FALSE]
  /\ entries = 0 /\ screen = 0
  /\ hostKey = 1 /\ pinned \in {0, 1} /\ asked = 0 /\ confirmed = {pinned} \ {0}
  /\ vault = {} /\ local = [a \in Entry |-> {}]
  /\ remote = [a \in Entry |-> {}] /\ making = [a \in Entry |-> {}]
  /\ conn = [a \in Entry |-> "none"] /\ reached = [a \in Entry |-> 0] /\ holder = 0

Goes(a, where) == at' = [at EXCEPT ![a] = where]

-------------------------------------------------------------------------------
(* Leaving enter by an exception.                                             *)

\* A failure: the session is dropped, then the artifacts; a cancellation in here
\* is not held off.
Fails(a) ==
  /\ Goes(a, IF at[a] \in InHand THEN "abort" ELSE "cleanBackup")
  /\ conn' = [conn EXCEPT ![a] = IF at[a] \in InHand THEN "closed" ELSE @]
  /\ UNCHANGED <<shield, entries, screen, reached, holder>>

\* Mutant of CancelledAt: no handler for CancelledError around the session.
CancelledAtUnhandled(a) ==
  CASE at[a] \in Bare \cup InHand -> "cleanBackup"
    [] at[a] \in {"cleanBackup", "cleanExport"} /\ shield[a] -> at[a]
    [] OTHER -> "gone"

\* Where a cancellation takes entry a: into the shielded clean-up; out of one that
\* was not shielded, or of a shielded abort before the artifacts' turn, which tears
\* the clean-up; a shielded clean-up of the artifacts goes on by itself.
CancelledAt(a) ==
  CASE at[a] \in Bare   -> "cleanBackup"
    [] at[a] \in InHand -> "abort"
    [] at[a] \in {"cleanBackup", "cleanExport"} /\ shield[a] -> at[a]
    [] at[a] = "probe" -> "gone"
    [] OTHER -> "torn"

\* What was being downloaded stays as a partial file.
Fetching(a) == CASE at[a] = "fetchBackup" -> {"backup"}
                 [] at[a] = "fetchExport" -> {"export"}
                 [] OTHER -> {}

\* Every entry that runs in the group, clean-up included, is cancelled.
CancelGroup(start) ==
  LET run == {a \in Entry : Active(a)}
  IN  /\ at' = [a \in Entry |-> IF a \in run THEN CancelledAt(a)
                                ELSE IF a = start THEN "probe" ELSE at[a]]
      /\ shield' = [a \in Entry |-> shield[a] \/ (a \in run /\ at[a] \in Bare \cup InHand)]
      /\ conn' = [a \in Entry |-> IF a \in run /\ CancelledAt(a) = "abort" THEN "closed"
                                  ELSE conn[a]]
      /\ \E cut \in SUBSET run : local' = [a \in Entry |->
           local[a] \cup IF a \in cut THEN Fetching(a) ELSE {}]

-------------------------------------------------------------------------------
(* The operator.                                                              *)

\* Tab in READY: _enter_high_risk.
Begin ==
  /\ screen = 0 /\ asked = 0
  /\ entries < MaxEntries /\ entries' = entries + 1
  /\ CancelGroup(entries + 1)
  /\ UNCHANGED <<screen, trust, vault, remote, making, reached, holder>>

\* The fingerprint is confirmed and the entry starts again, or it is refused.
Trust ==
  /\ asked # 0 /\ entries < MaxEntries /\ entries' = entries + 1
  /\ pinned' = asked /\ confirmed' = confirmed \cup {asked} /\ asked' = 0
  /\ CancelGroup(entries + 1)
  /\ UNCHANGED <<screen, hostKey, vault, remote, making, reached, holder>>

Distrust ==
  /\ asked # 0 /\ asked' = 0
  /\ UNCHANGED <<tasks, hostKey, pinned, confirmed, files, ssh>>

\* _leave_high_risk or _restore_high_risk_backup of the session on the screen begins, in
\* the same group.
LeaveBegins ==
  /\ screen # 0
  /\ at' = [a \in Entry |-> IF a = screen THEN "leaving"
                            ELSE IF Active(a) THEN CancelledAt(a) ELSE at[a]]
  /\ UNCHANGED <<shield, entries, screen, trust, files, ssh>>

\* The transport is closed, and its end is still awaited.
LeaveCloses ==
  /\ screen # 0 /\ at[screen] = "leaving" /\ conn[screen] = "open"
  /\ conn' = [conn EXCEPT ![screen] = "closed"]
  /\ UNCHANGED <<tasks, trust, files, reached, holder>>

\* A commit that could not be verified, or a worker cancelled: the session stays.
LeaveFails ==
  /\ screen # 0 /\ at[screen] = "leaving" /\ Goes(screen, "unsure")
  /\ UNCHANGED <<shield, entries, screen, trust, files, ssh>>

\* The screen lets go of a session that is closed, or whose loss a run of the agent
\* found; the recovery point stays.
Left ==
  /\ screen # 0 /\ conn[screen] = "closed"
  /\ screen' = 0 /\ Goes(screen, "left")
  /\ UNCHANGED <<shield, entries, trust, files, ssh>>

-------------------------------------------------------------------------------
(* enter                                                                      *)

\* probe_host_key, then what ssh_trust says of the key.
ProbeFails(a) ==
  /\ at[a] = "probe" /\ Goes(a, "gone")
  /\ asked' = asked \/ (pinned = 0 /\ asked' = hostKey)
  /\ UNCHANGED <<shield, entries, screen, hostKey, pinned, confirmed, files, ssh>>

\* The key is the pinned one: the password is stored, create_backup is called.
Probed(a) ==
  /\ at[a] = "probe" /\ pinned = hostKey /\ Goes(a, "backup")
  /\ vault' = vault \cup {a} /\ making' = [making EXCEPT ![a] = {"backup"}]
  /\ UNCHANGED <<shield, entries, screen, trust, local, remote, ssh>>

BackupMade(a) ==
  /\ at[a] = "backup" /\ "backup" \in remote[a] /\ Goes(a, "export")
  /\ making' = [making EXCEPT ![a] = {"export"}]
  /\ UNCHANGED <<shield, entries, screen, trust, vault, local, remote, ssh>>

ExportMade(a) ==
  /\ at[a] = "export" /\ "export" \in remote[a] /\ Goes(a, "open")
  /\ UNCHANGED <<shield, entries, screen, trust, files, ssh>>

\* An error answer; when the call times out, MikroMCP may still make the file.
MakingFails(a) ==
  /\ at[a] \in {"backup", "export"} /\ Fails(a)
  /\ \/ making[a] # {} /\ making' = [making EXCEPT ![a] = {}]
     \/ Unreliable /\ UNCHANGED making
  /\ UNCHANGED <<trust, vault, local, remote>>

\* Mutant of Connected: known_hosts is not given to asyncssh.
ConnectedAnyHost(a) ==
  /\ at[a] = "open" /\ conn[a] = "none"
  /\ conn' = [conn EXCEPT ![a] = "open"] /\ reached' = [reached EXCEPT ![a] = hostKey]
  /\ UNCHANGED <<tasks, trust, files, holder>>

\* asyncssh.connect refuses a host whose key is not in known_hosts.
Connected(a) ==
  /\ at[a] = "open" /\ conn[a] = "none" /\ hostKey = pinned
  /\ conn' = [conn EXCEPT ![a] = "open"] /\ reached' = [reached EXCEPT ![a] = hostKey]
  /\ UNCHANGED <<tasks, trust, files, holder>>

\* The PTY is there and _synchronise_terminal found its marker.
Opened(a) ==
  /\ at[a] = "open" /\ conn[a] = "open" /\ Goes(a, "fetchBackup")
  /\ UNCHANGED <<shield, entries, screen, trust, files, ssh>>

\* Without a connection, or without a PTY on one; or the PTY does not answer.
OpenFails(a) ==
  /\ at[a] = "open" /\ Goes(a, "cleanBackup")
  /\ conn' \in {conn, [conn EXCEPT ![a] = IF @ = "open" THEN "closed" ELSE @]}
  /\ UNCHANGED <<shield, entries, screen, trust, files, reached, holder>>

FetchedBackup(a) ==
  /\ at[a] = "fetchBackup" /\ conn[a] = "open" /\ "backup" \in remote[a]
  /\ Goes(a, "fetchExport")
  /\ local' = [local EXCEPT ![a] = @ \cup {"backup"}]
  /\ UNCHANGED <<shield, entries, screen, trust, vault, remote, making, ssh>>

\* Mutant of FetchedExport: the file is stored under its suffix.
FetchedExportRsc(a) ==
  /\ at[a] = "fetchExport" /\ conn[a] = "open" /\ "export" \in remote[a]
  /\ Goes(a, "purgeBackup")
  /\ local' = [local EXCEPT ![a] = @ \cup {"rsc"}]
  /\ UNCHANGED <<shield, entries, screen, trust, vault, remote, making, ssh>>

\* Both files are there and _verify_artifact accepts them.
FetchedExport(a) ==
  /\ at[a] = "fetchExport" /\ conn[a] = "open" /\ "export" \in remote[a]
  /\ Goes(a, "purgeBackup")
  /\ local' = [local EXCEPT ![a] = @ \cup {"export"}]
  /\ UNCHANGED <<shield, entries, screen, trust, vault, remote, making, ssh>>

\* A download fails, or a file is empty.
FetchFails(a) ==
  /\ at[a] \in {"fetchBackup", "fetchExport"} /\ Fails(a)
  /\ local' \in {local, [local EXCEPT ![a] = @ \cup Fetching(a)]}
  /\ UNCHANGED <<trust, vault, remote, making>>

\* A file is removed on the router; that it fails is ignored.
Deleted(a, file) ==
  remote' = [remote EXCEPT ![a] = @ \ {file}] \/ (Unreliable /\ UNCHANGED remote)

\* delete_remote, over the connection of the session.
Purged(a, file) == Deleted(a, file) \/ (conn[a] # "open" /\ UNCHANGED remote)

PurgedBackup(a) ==
  /\ at[a] = "purgeBackup" /\ Goes(a, "purgeExport") /\ Purged(a, "backup")
  /\ UNCHANGED <<shield, entries, screen, trust, vault, local, making, ssh>>

\* The manifest is written next, then Ctrl+X is sent.
PurgedExport(a) ==
  /\ at[a] = "purgeExport" /\ Goes(a, "safe") /\ Purged(a, "export")
  /\ local' = [local EXCEPT ![a] = @ \cup {"manifest"}]
  /\ UNCHANGED <<shield, entries, screen, trust, vault, making, ssh>>

\* The manifest cannot be written.
ManifestFails(a) ==
  /\ at[a] = "purgeExport" /\ Purged(a, "export") /\ Fails(a)
  /\ UNCHANGED <<trust, vault, local, making>>

\* enter_safe_mode returned True: the session goes to the agent and the screen.
Unlocked(a) ==
  /\ at[a] = "safe" /\ holder = a /\ Goes(a, "unlocked") /\ screen' = a
  /\ UNCHANGED <<shield, entries, trust, files, ssh>>

\* Mutant of SafeRefused: only the router's own refusal ends the wait.
SafeRefusedByRouter(a) ==
  /\ at[a] = "safe" /\ holder \notin {0, a} /\ Fails(a) /\ UNCHANGED <<trust, files>>

\* Safe Mode belongs to another PTY, or there was no answer in time.
SafeRefused(a) ==
  /\ at[a] = "safe" /\ Fails(a) /\ UNCHANGED <<trust, files>>

-------------------------------------------------------------------------------
(* _cleanup_failed_preflight                                                  *)

\* Mutant of Aborted: a failed session is dropped, the artifacts are not.
AbortedOnly(a) ==
  /\ at[a] = "abort" /\ Goes(a, "gone")
  /\ UNCHANGED <<shield, entries, screen, trust, files, ssh>>

Aborted(a) ==
  /\ at[a] = "abort" /\ Goes(a, "cleanBackup")
  /\ UNCHANGED <<shield, entries, screen, trust, files, ssh>>

CleanedBackup(a) ==
  /\ at[a] = "cleanBackup" /\ Goes(a, "cleanExport") /\ Deleted(a, "backup")
  /\ UNCHANGED <<shield, entries, screen, trust, vault, local, making, ssh>>

\* Mutant of FilesGone: the whole directory of the router is removed.
FilesGoneAll(a) == local' = [b \in Entry |-> {}]

\* Only this attempt's files; the directory of the router only when it is empty.
FilesGone(a) == local' = [local EXCEPT ![a] = {}]

\* After the last deletion on the router comes the local part, without an await.
CleanedExport(a) ==
  /\ at[a] = "cleanExport" /\ Goes(a, "gone") /\ Deleted(a, "export")
  /\ FilesGone(a) /\ vault' = vault \ {a}
  /\ UNCHANGED <<shield, entries, screen, trust, making, ssh>>

-------------------------------------------------------------------------------
(* The harness is killed, perhaps inside that local part.                     *)

\* Mutant of TailCut: the password is deleted before the files.
TailCutSecretFirst(a) == vault' = vault \ {a} /\ UNCHANGED local

\* The files go first, the password last.
TailCut(a) == FilesGone(a) /\ UNCHANGED vault

Killed ==
  /\ screen # 0 \/ \E a \in Entry : Active(a)
  /\ at' = [a \in Entry |-> IF at[a] \in {"new", "gone", "torn", "left"} THEN at[a] ELSE "killed"]
  /\ screen' = 0 /\ asked' = 0
  /\ conn' = [a \in Entry |-> IF conn[a] = "open" THEN "closed" ELSE conn[a]]
  /\ \/ UNCHANGED <<vault, local>>
     \/ \E a \in Entry : at[a] = "cleanExport" /\ TailCut(a)
  /\ UNCHANGED <<shield, entries, hostKey, pinned, confirmed, remote, making, reached,
                 holder>>

-------------------------------------------------------------------------------
(* MikroMCP and RouterOS (external).                                          *)

\* A file is made, or its making is given up, while or after it is waited for.
ServerMakes(a) ==
  /\ making[a] # {} /\ making' = [making EXCEPT ![a] = {}]
  /\ remote' = [remote EXCEPT ![a] = @ \cup making[a]]
  /\ UNCHANGED <<tasks, trust, vault, local, ssh>>

RouterKeyChanges ==
  /\ hostKey = 1 /\ hostKey' = 2
  /\ UNCHANGED <<tasks, pinned, asked, confirmed, files, ssh>>

RouterTakesSafe(a) ==
  /\ at[a] \in {"safe", "leaving", "unsure"} /\ conn[a] = "open"
  /\ holder = 0 /\ holder' = a
  /\ UNCHANGED <<tasks, trust, files, conn, reached>>

\* The Ctrl+X of a commit, perhaps late; a second one takes Safe Mode again.
RouterReleases(a) ==
  /\ at[a] \in {"leaving", "unsure"} /\ conn[a] = "open" /\ holder = a /\ holder' = 0
  /\ UNCHANGED <<tasks, trust, files, conn, reached>>

\* The link of a session goes down, at any time.
LinkLost(a) ==
  /\ conn[a] = "open" /\ conn' = [conn EXCEPT ![a] = "closed"]
  /\ UNCHANGED <<tasks, trust, files, reached, holder>>

RouterNotices ==
  /\ holder # 0 /\ conn[holder] = "closed" /\ holder' = 0
  /\ UNCHANGED <<tasks, trust, files, conn, reached>>

-------------------------------------------------------------------------------
EnterStep(a) ==
  \/ ProbeFails(a) \/ Probed(a) \/ BackupMade(a) \/ ExportMade(a) \/ MakingFails(a)
  \/ Connected(a) \/ Opened(a) \/ OpenFails(a)
  \/ FetchedBackup(a) \/ FetchedExport(a) \/ FetchFails(a)
  \/ PurgedBackup(a) \/ PurgedExport(a) \/ ManifestFails(a)
  \/ Unlocked(a) \/ SafeRefused(a)
CleanStep(a) == Aborted(a) \/ CleanedBackup(a) \/ CleanedExport(a)

Next ==
  \/ Begin \/ Trust \/ Distrust \/ LeaveBegins \/ LeaveCloses \/ LeaveFails \/ Left
  \/ \E a \in Entry : EnterStep(a) \/ CleanStep(a) \/ ServerMakes(a)
                      \/ RouterTakesSafe(a) \/ RouterReleases(a) \/ LinkLost(a)
  \/ RouterKeyChanges \/ RouterNotices \/ Killed

Spec == Init /\ [][Next]_vars

\* The awaits of enter that nothing limits (keepalive_interval is 0): create_process and
\* SFTP on a connection, and the closing of one.
Unlimited == {"fetchBackup", "fetchExport", "purgeBackup", "purgeExport", "abort"}
Waits(a) == at[a] \in Unlimited \/ (at[a] = "open" /\ conn[a] = "open")

\* Every other await has a deadline: MikroMCP, connecting, Safe Mode.  RouterOS notices a
\* closed session.  The operator, the worker that leaves, MikroMCP and a kill are free.
Fairness ==
  /\ \A a \in Entry : WF_vars(~Waits(a) /\ (EnterStep(a) \/ CleanStep(a)))
  /\ WF_vars(RouterNotices)

FairSpec == Spec /\ Fairness

-------------------------------------------------------------------------------
(* Properties.                                                                *)

TypeOK ==
  /\ at \in [Entry -> {"new", "probe", "unlocked", "leaving", "unsure", "left", "gone",
                        "torn", "killed"} \cup Bare \cup InHand \cup Cleaning]
  /\ shield \in [Entry -> BOOLEAN] /\ {entries, screen, holder} \subseteq 0..MaxEntries
  /\ hostKey \in Keys /\ {pinned, asked} \subseteq Keys \cup {0} /\ confirmed \subseteq Keys
  /\ vault \subseteq Entry /\ local \in [Entry -> SUBSET Local]
  /\ remote \in [Entry -> SUBSET Remote] /\ making \in [Entry -> SUBSET Remote]
  /\ conn \in [Entry -> {"none", "open", "closed"}] /\ reached \in [Entry -> Keys \cup {0}]

\* HIGH RISK is unlocked only with its safety net complete, and it stays so, whatever
\* cancelled or failed entries are still cleaning up: backup, export and manifest on disk
\* and the password in the vault for as long as the screen holds the session, and Safe Mode
\* held by this very PTY until the operator asks to leave or the link is lost.
UnlockedIsProtected ==
  screen # 0 => /\ local[screen] = Local /\ screen \in vault
                /\ at[screen] = "unlocked" /\ conn[screen] = "open" => holder = screen

\* A backup on disk can be decrypted: its password is in the vault for as long as
\* the file is there, also when the harness is killed at any point.
BackupHasPassword == \A a \in Entry : "backup" \in local[a] => a \in vault

\* No session is opened with a host whose key the operator has not confirmed, even
\* when the router's key changes between the probe and the connection.
OnlyConfirmedHost == \A a \in Entry : conn[a] = "open" => reached[a] \in confirmed

\* An entry that failed or was cancelled leaves neither its files on disk nor its
\* password in the vault, unless a second cancellation tore its clean-up.
FailedEntryForgets == \A a \in Entry : at[a] = "gone" => local[a] = {} /\ a \notin vault

\* Every entry ends, unlocked or not, or comes to an await that nothing limits and stays
\* there; no timeout, refusal or cancellation leaves it waiting anywhere else.
EntryEnds == \A a \in Entry : Active(a) ~> (~Active(a) \/ []Waits(a))

\* Safe Mode does not stay with an entry that did not unlock: the next one can have it.
SafeModeComesFree == \A a \in Entry : holder = a ~> holder # a \/ screen = a

===============================================================================
