-------------------------- MODULE HighRiskEntryProofs --------------------------
(***************************************************************************)
(* Theorems about HighRiskEntry, for any number of entries.                 *)
(***************************************************************************)
EXTENDS HighRiskEntry, TLAPS

\* Where the screen holds the session, or an entry has written the manifest, fetched the
\* export, fetched the backup.
Held        == {"unlocked", "leaving", "unsure"}
HasManifest == {"safe"} \cup Held
HasExport   == {"purgeBackup", "purgeExport"} \cup HasManifest
HasBackup   == {"fetchExport"} \cup HasExport

\* What an entry has for sure, by the await it is suspended at.
Fits(a) ==
  /\ at[a] \in Bare \cup InHand \cup Cleaning \cup Held => a \in vault
  /\ at[a] \in HasBackup => "backup" \in local[a]
  /\ at[a] \in HasExport => "export" \in local[a]
  /\ at[a] \in HasManifest => "manifest" \in local[a]
  /\ at[a] = "unlocked" /\ conn[a] = "open" => holder = a
  /\ at[a] \in {"new", "probe", "gone"} => local[a] = {} /\ a \notin vault
  /\ "backup" \in local[a] => a \in vault
  /\ conn[a] = "open" => reached[a] \in confirmed

ScreenFits == screen # 0 => at[screen] \in Held
PinFits == pinned \in confirmed \cup {0}
FreshFits == \A a \in Entry : a > entries => at[a] = "new"

\* The inductive invariant: the properties speak of the entry that is unlocked, so
\* it says what every await before that has already secured.
NetInv == TypeOK /\ ScreenFits /\ PinFits /\ FreshFits /\ \A a \in Entry : Fits(a)

\* Where an entry may be outside of enter's awaits.
Where == {"new", "probe", "unlocked", "leaving", "unsure", "left", "gone", "torn", "killed"}

USE EntryBounds
USE DEF Held, Where, Entry, Keys, Remote, Local, Bare, InHand, Cleaning

LEMMA NetInit == Init => NetInv
BY DEF Init, NetInv, TypeOK, ScreenFits, PinFits, FreshFits, Fits, HasBackup, HasExport, HasManifest

-------------------------------------------------------------------------------
(* Steps of one entry.                                                        *)

\* Only entry a moves, to another await; the rest of what Fits speaks of is kept.
LEMMA StepKeeps ==
  ASSUME NetInv, NEW a \in Entry, TypeOK', Fits(a)',
         at' = [at EXCEPT ![a] = at'[a]], at[a] \notin {"new"} \cup Held,
         entries' = entries, screen' = screen, pinned' = pinned, confirmed' = confirmed, reached' = reached,
         \A b \in Entry \ {a} :
           /\ local'[b] = local[b] /\ conn'[b] = conn[b] /\ (b \in vault' <=> b \in vault)
           /\ holder = b => holder' = b
  PROVE  NetInv'
<1>1. \A b \in Entry \ {a} : at'[b] = at[b]
  BY DEF NetInv, TypeOK
<1>2. \A b \in Entry \ {a} : Fits(b)'
  BY <1>1 DEF NetInv, Fits
<1>3. ScreenFits'
  BY <1>1 DEF NetInv, ScreenFits, TypeOK
<1>4. FreshFits'
  BY <1>1 DEF NetInv, FreshFits
<1> QED BY <1>2, <1>3, <1>4 DEF NetInv, PinFits

\* A failure before the session is there, or with it in hand.
LEMMA FailsKeeps ==
  ASSUME NetInv, NEW a \in Entry, NEW more \in SUBSET Local, at[a] \in Bare \cup InHand,
         Fails(a), UNCHANGED <<trust, vault>>,
         local' = [local EXCEPT ![a] = @ \cup more], at[a] \in Bare => more = {},
         remote' \in [Entry -> SUBSET Remote], making' \in [Entry -> SUBSET Remote]
  PROVE  NetInv'
<1> USE DEF trust, Fails, Goes
<1>1. at'[a] \in {"abort", "cleanBackup"} /\ conn'[a] \in {"closed", conn[a]}
  BY DEF NetInv, TypeOK
<1>2. local'[a] = local[a] \cup more /\ local'[a] \in SUBSET Local
  <2>1. local \in [Entry -> SUBSET Local]
    BY DEF NetInv, TypeOK
  <2>2. local'[a] = local[a] \cup more
    BY <2>1
  <2> QED BY <2>1, <2>2
<1>3. TypeOK'
  <2>1. at' \in [Entry -> Where \cup Bare \cup InHand \cup Cleaning]
    BY <1>1 DEF NetInv, TypeOK
  <2>2. conn' \in [Entry -> {"none", "open", "closed"}]
    BY <1>1 DEF NetInv, TypeOK
  <2>3. local' \in [Entry -> SUBSET Local]
    BY <1>2 DEF NetInv, TypeOK
  <2> QED BY <2>1, <2>2, <2>3 DEF NetInv, TypeOK
<1>4. Fits(a)'
  BY <1>1, <1>2 DEF NetInv, Fits, HasBackup, HasExport, HasManifest
<1>5. \A b \in Entry \ {a} : local'[b] = local[b] /\ conn'[b] = conn[b]
  BY DEF NetInv, TypeOK
<1>6. at' = [at EXCEPT ![a] = at'[a]]
  BY DEF NetInv, TypeOK
<1> QED BY <1>3, <1>4, <1>5, <1>6, StepKeeps

LEMMA EnterKeeps == ASSUME NetInv, NEW a \in Entry, EnterStep(a) PROVE NetInv'
<1> USE DEF tasks, trust, files, ssh, Goes, Deleted, Purged, HasBackup, HasExport, HasManifest
<1>1. CASE ProbeFails(a)
  <2>1. TypeOK'
    BY <1>1 DEF ProbeFails, NetInv, TypeOK
  <2>2. Fits(a)'
    BY <1>1 DEF ProbeFails, NetInv, TypeOK, Fits
  <2>3. \A b \in Entry \ {a} :
          local'[b] = local[b] /\ conn'[b] = conn[b] /\ (b \in vault' <=> b \in vault)
    BY <1>1 DEF ProbeFails, NetInv, TypeOK
  <2>4. at' = [at EXCEPT ![a] = at'[a]]
    BY <1>1 DEF ProbeFails, NetInv, TypeOK
  <2> QED BY <1>1, <2>1, <2>2, <2>3, <2>4, StepKeeps DEF ProbeFails
<1>2. CASE Probed(a)
  <2>1. TypeOK'
    BY <1>2 DEF Probed, NetInv, TypeOK
  <2>2. Fits(a)'
    BY <1>2 DEF Probed, NetInv, TypeOK, Fits
  <2>3. \A b \in Entry \ {a} :
          local'[b] = local[b] /\ conn'[b] = conn[b] /\ (b \in vault' <=> b \in vault)
    BY <1>2 DEF Probed, NetInv, TypeOK
  <2>4. at' = [at EXCEPT ![a] = at'[a]]
    BY <1>2 DEF Probed, NetInv, TypeOK
  <2> QED BY <1>2, <2>1, <2>2, <2>3, <2>4, StepKeeps DEF Probed
<1>3. CASE BackupMade(a)
  <2>1. TypeOK'
    BY <1>3 DEF BackupMade, NetInv, TypeOK
  <2>2. Fits(a)'
    BY <1>3 DEF BackupMade, NetInv, TypeOK, Fits
  <2>3. \A b \in Entry \ {a} :
          local'[b] = local[b] /\ conn'[b] = conn[b] /\ (b \in vault' <=> b \in vault)
    BY <1>3 DEF BackupMade, NetInv, TypeOK
  <2>4. at' = [at EXCEPT ![a] = at'[a]]
    BY <1>3 DEF BackupMade, NetInv, TypeOK
  <2> QED BY <1>3, <2>1, <2>2, <2>3, <2>4, StepKeeps DEF BackupMade
<1>4. CASE ExportMade(a)
  <2>1. TypeOK'
    BY <1>4 DEF ExportMade, NetInv, TypeOK
  <2>2. Fits(a)'
    BY <1>4 DEF ExportMade, NetInv, TypeOK, Fits
  <2>3. \A b \in Entry \ {a} :
          local'[b] = local[b] /\ conn'[b] = conn[b] /\ (b \in vault' <=> b \in vault)
    BY <1>4 DEF ExportMade, NetInv, TypeOK
  <2>4. at' = [at EXCEPT ![a] = at'[a]]
    BY <1>4 DEF ExportMade, NetInv, TypeOK
  <2> QED BY <1>4, <2>1, <2>2, <2>3, <2>4, StepKeeps DEF ExportMade
<1>5. CASE MakingFails(a)
  <2>1. making' \in [Entry -> SUBSET Remote] /\ remote' \in [Entry -> SUBSET Remote]
    BY <1>5 DEF MakingFails, NetInv, TypeOK
  <2>2. local' = [local EXCEPT ![a] = @ \cup {}]
    BY <1>5 DEF MakingFails, NetInv, TypeOK
  <2> QED BY <1>5, <2>1, <2>2, FailsKeeps DEF MakingFails
<1>6. CASE Connected(a)
  <2>1. TypeOK'
    BY <1>6 DEF Connected, NetInv, TypeOK
  <2>2. Fits(a)'
    BY <1>6 DEF Connected, NetInv, TypeOK, Fits, PinFits
  <2>3. \A b \in Entry \ {a} : Fits(b)'
    BY <1>6 DEF Connected, NetInv, TypeOK, Fits
  <2> QED BY <1>6, <2>1, <2>2, <2>3 DEF Connected, NetInv, ScreenFits, PinFits, FreshFits
<1>7. CASE Opened(a)
  <2>1. TypeOK'
    BY <1>7 DEF Opened, NetInv, TypeOK
  <2>2. Fits(a)'
    BY <1>7 DEF Opened, NetInv, TypeOK, Fits
  <2>3. \A b \in Entry \ {a} :
          local'[b] = local[b] /\ conn'[b] = conn[b] /\ (b \in vault' <=> b \in vault)
    BY <1>7 DEF Opened, NetInv, TypeOK
  <2>4. at' = [at EXCEPT ![a] = at'[a]]
    BY <1>7 DEF Opened, NetInv, TypeOK
  <2> QED BY <1>7, <2>1, <2>2, <2>3, <2>4, StepKeeps DEF Opened
<1>8. CASE OpenFails(a)
  <2>1. TypeOK'
    BY <1>8 DEF OpenFails, NetInv, TypeOK
  <2>2. Fits(a)'
    BY <1>8 DEF OpenFails, NetInv, TypeOK, Fits
  <2>3. \A b \in Entry \ {a} :
          local'[b] = local[b] /\ conn'[b] = conn[b] /\ (b \in vault' <=> b \in vault)
    BY <1>8 DEF OpenFails, NetInv, TypeOK
  <2>4. at' = [at EXCEPT ![a] = at'[a]]
    BY <1>8 DEF OpenFails, NetInv, TypeOK
  <2> QED BY <1>8, <2>1, <2>2, <2>3, <2>4, StepKeeps DEF OpenFails
<1>9. CASE FetchedBackup(a)
  <2>1. TypeOK'
    BY <1>9 DEF FetchedBackup, NetInv, TypeOK
  <2>2. Fits(a)'
    BY <1>9 DEF FetchedBackup, NetInv, TypeOK, Fits
  <2>3. \A b \in Entry \ {a} :
          local'[b] = local[b] /\ conn'[b] = conn[b] /\ (b \in vault' <=> b \in vault)
    BY <1>9 DEF FetchedBackup, NetInv, TypeOK
  <2>4. at' = [at EXCEPT ![a] = at'[a]]
    BY <1>9 DEF FetchedBackup, NetInv, TypeOK
  <2> QED BY <1>9, <2>1, <2>2, <2>3, <2>4, StepKeeps DEF FetchedBackup
<1>10. CASE FetchedExport(a)
  <2>1. TypeOK'
    BY <1>10 DEF FetchedExport, NetInv, TypeOK
  <2>2. Fits(a)'
    BY <1>10 DEF FetchedExport, NetInv, TypeOK, Fits
  <2>3. \A b \in Entry \ {a} :
          local'[b] = local[b] /\ conn'[b] = conn[b] /\ (b \in vault' <=> b \in vault)
    BY <1>10 DEF FetchedExport, NetInv, TypeOK
  <2>4. at' = [at EXCEPT ![a] = at'[a]]
    BY <1>10 DEF FetchedExport, NetInv, TypeOK
  <2> QED BY <1>10, <2>1, <2>2, <2>3, <2>4, StepKeeps DEF FetchedExport
<1>11. CASE FetchFails(a)
  <2>1. making' \in [Entry -> SUBSET Remote] /\ remote' \in [Entry -> SUBSET Remote]
    BY <1>11 DEF FetchFails, NetInv, TypeOK
  <2>2. PICK more \in SUBSET Local : local' = [local EXCEPT ![a] = @ \cup more]
    <3>1. CASE UNCHANGED local
      <4>1. local' = [local EXCEPT ![a] = @ \cup {}]
        BY <3>1 DEF NetInv, TypeOK
      <4> QED BY <4>1
    <3>2. CASE local' = [local EXCEPT ![a] = @ \cup Fetching(a)]
      <4>1. Fetching(a) \in SUBSET Local
        BY DEF Fetching
      <4> QED BY <3>2, <4>1
    <3> QED BY <1>11, <3>1, <3>2 DEF FetchFails
  <2> QED BY <1>11, <2>1, <2>2, FailsKeeps DEF FetchFails
<1>12. CASE PurgedBackup(a)
  <2>1. TypeOK'
    BY <1>12 DEF PurgedBackup, NetInv, TypeOK
  <2>2. Fits(a)'
    BY <1>12 DEF PurgedBackup, NetInv, TypeOK, Fits
  <2>3. \A b \in Entry \ {a} :
          local'[b] = local[b] /\ conn'[b] = conn[b] /\ (b \in vault' <=> b \in vault)
    BY <1>12 DEF PurgedBackup, NetInv, TypeOK
  <2>4. at' = [at EXCEPT ![a] = at'[a]]
    BY <1>12 DEF PurgedBackup, NetInv, TypeOK
  <2> QED BY <1>12, <2>1, <2>2, <2>3, <2>4, StepKeeps DEF PurgedBackup
<1>13. CASE PurgedExport(a)
  <2>1. TypeOK'
    BY <1>13 DEF PurgedExport, NetInv, TypeOK
  <2>2. Fits(a)'
    BY <1>13 DEF PurgedExport, NetInv, TypeOK, Fits
  <2>3. \A b \in Entry \ {a} :
          local'[b] = local[b] /\ conn'[b] = conn[b] /\ (b \in vault' <=> b \in vault)
    BY <1>13 DEF PurgedExport, NetInv, TypeOK
  <2>4. at' = [at EXCEPT ![a] = at'[a]]
    BY <1>13 DEF PurgedExport, NetInv, TypeOK
  <2> QED BY <1>13, <2>1, <2>2, <2>3, <2>4, StepKeeps DEF PurgedExport
<1>14. CASE ManifestFails(a)
  <2>1. making' \in [Entry -> SUBSET Remote] /\ remote' \in [Entry -> SUBSET Remote]
    <3>1. making \in [Entry -> SUBSET Remote] /\ remote \in [Entry -> SUBSET Remote]
      BY DEF NetInv, TypeOK
    <3>2. making' = making /\ Purged(a, "export")
      BY <1>14 DEF ManifestFails
    <3> QED BY <3>1, <3>2
  <2>2. local' = [local EXCEPT ![a] = @ \cup {}]
    BY <1>14 DEF ManifestFails, NetInv, TypeOK
  <2> QED BY <1>14, <2>1, <2>2, FailsKeeps DEF ManifestFails
<1>15. CASE Unlocked(a)
  <2>1. TypeOK'
    BY <1>15 DEF Unlocked, NetInv, TypeOK
  <2>2. Fits(a)'
    BY <1>15 DEF Unlocked, NetInv, TypeOK, Fits
  <2>3. \A b \in Entry \ {a} : Fits(b)'
    BY <1>15 DEF Unlocked, NetInv, TypeOK, Fits
  <2>4. ScreenFits'
    BY <1>15 DEF Unlocked, NetInv, TypeOK, ScreenFits
  <2>5. FreshFits'
    BY <1>15 DEF Unlocked, NetInv, TypeOK, FreshFits
  <2> QED BY <1>15, <2>1, <2>2, <2>3, <2>4, <2>5 DEF Unlocked, NetInv, PinFits
<1>16. CASE SafeRefused(a)
  <2>1. making' \in [Entry -> SUBSET Remote] /\ remote' \in [Entry -> SUBSET Remote]
    BY <1>16 DEF SafeRefused, NetInv, TypeOK
  <2>2. local' = [local EXCEPT ![a] = @ \cup {}]
    BY <1>16 DEF SafeRefused, NetInv, TypeOK
  <2> QED BY <1>16, <2>1, <2>2, FailsKeeps DEF SafeRefused
<1> QED BY <1>1, <1>2, <1>3, <1>4, <1>5, <1>6, <1>7, <1>8,
       <1>9, <1>10, <1>11, <1>12, <1>13, <1>14, <1>15, <1>16
       DEF EnterStep

LEMMA CleanKeeps == ASSUME NetInv, NEW a \in Entry, CleanStep(a) PROVE NetInv'
<1> USE DEF tasks, trust, files, ssh, Goes, Deleted, Purged, HasBackup, HasExport, HasManifest
<1>1. CASE Aborted(a)
  <2>1. TypeOK'
    BY <1>1 DEF Aborted, NetInv, TypeOK
  <2>2. Fits(a)'
    BY <1>1 DEF Aborted, NetInv, TypeOK, Fits
  <2>3. \A b \in Entry \ {a} :
          local'[b] = local[b] /\ conn'[b] = conn[b] /\ (b \in vault' <=> b \in vault)
    BY <1>1 DEF Aborted, NetInv, TypeOK
  <2>4. at' = [at EXCEPT ![a] = at'[a]]
    BY <1>1 DEF Aborted, NetInv, TypeOK
  <2> QED BY <1>1, <2>1, <2>2, <2>3, <2>4, StepKeeps DEF Aborted
<1>2. CASE CleanedBackup(a)
  <2>1. TypeOK'
    BY <1>2 DEF CleanedBackup, NetInv, TypeOK
  <2>2. Fits(a)'
    BY <1>2 DEF CleanedBackup, NetInv, TypeOK, Fits
  <2>3. \A b \in Entry \ {a} :
          local'[b] = local[b] /\ conn'[b] = conn[b] /\ (b \in vault' <=> b \in vault)
    BY <1>2 DEF CleanedBackup, NetInv, TypeOK
  <2>4. at' = [at EXCEPT ![a] = at'[a]]
    BY <1>2 DEF CleanedBackup, NetInv, TypeOK
  <2> QED BY <1>2, <2>1, <2>2, <2>3, <2>4, StepKeeps DEF CleanedBackup
<1>3. CASE CleanedExport(a)
  <2>1. TypeOK'
    BY <1>3 DEF CleanedExport, FilesGone, NetInv, TypeOK
  <2>2. Fits(a)'
    <3>1. at'[a] = "gone" /\ a \notin vault'
      BY <1>3 DEF CleanedExport, NetInv, TypeOK
    <3>2. local'[a] = {} /\ conn' = conn /\ reached' = reached /\ confirmed' = confirmed
      BY <1>3 DEF CleanedExport, FilesGone, NetInv, TypeOK
    <3> QED BY <3>1, <3>2 DEF NetInv, Fits
  <2>3. \A b \in Entry \ {a} :
          local'[b] = local[b] /\ conn'[b] = conn[b] /\ (b \in vault' <=> b \in vault)
    BY <1>3 DEF CleanedExport, FilesGone, NetInv, TypeOK
  <2>4. at' = [at EXCEPT ![a] = at'[a]]
    BY <1>3 DEF CleanedExport, FilesGone, NetInv, TypeOK
  <2> QED BY <1>3, <2>1, <2>2, <2>3, <2>4, StepKeeps DEF CleanedExport, FilesGone
<1> QED BY <1>1, <1>2, <1>3 DEF CleanStep

-------------------------------------------------------------------------------
(* Steps of the operator, the environment, and a kill.                        *)

\* What a cancellation makes of an entry, with what was cut off on disk.
LEMMA CancelFits ==
  ASSUME NetInv, NEW b \in Entry, Active(b), at'[b] = CancelledAt(b),
         vault' = vault, confirmed \subseteq confirmed', reached' = reached,
         local'[b] = local[b] \/ local'[b] = local[b] \cup Fetching(b),
         conn'[b] = "open" => conn[b] = "open"
  PROVE  Fits(b)' /\ at'[b] \in {"gone", "torn"} \cup Cleaning
<1> USE DEF HasBackup, HasExport, HasManifest
<1>1. at[b] \in {"probe"} \cup Bare \cup InHand \cup Cleaning
  BY DEF Active
<1>2. /\ at[b] = "probe" => at'[b] = "gone"
      /\ at[b] # "probe" => at'[b] \in {"torn"} \cup Cleaning
  BY <1>1 DEF CancelledAt
<1>3. CASE at[b] = "probe"
  <2>1. Fetching(b) = {}
    BY <1>3 DEF Fetching
  <2> QED BY <1>2, <1>3, <2>1 DEF NetInv, Fits
<1>4. CASE at[b] # "probe"
  <2>1. b \in vault
    BY <1>1, <1>4 DEF NetInv, Fits
  <2> QED BY <1>2, <1>4, <2>1 DEF NetInv, Fits
<1> QED BY <1>3, <1>4

\* An entry that is not cancelled and not started.
LEMMA RestFits ==
  ASSUME NetInv, NEW b \in Entry, Fits(b), at'[b] = at[b], vault' = vault, reached' = reached,
         confirmed \subseteq confirmed', local'[b] = local[b],
         conn'[b] = conn[b], holder' = holder
  PROVE  Fits(b)'
BY DEF Fits

LEMMA GroupKeeps ==
  ASSUME NetInv, CancelGroup(entries + 1), entries < MaxEntries,
         entries' = entries + 1, confirmed \subseteq confirmed', PinFits',
         pinned' \in Keys \cup {0}, asked' \in Keys \cup {0}, confirmed' \subseteq Keys,
         UNCHANGED <<screen, hostKey, vault, remote, making, reached, holder>>
  PROVE  NetInv'
<1> PICK start \in Entry : start = entries + 1
  BY DEF NetInv, TypeOK
<1>1. at[start] = "new" /\ ~Active(start)
  BY DEF NetInv, TypeOK, FreshFits, Active
<1>2. PICK cut \in SUBSET {a \in Entry : Active(a)} :
        local' = [a \in Entry |-> local[a] \cup IF a \in cut THEN Fetching(a) ELSE {}]
  BY DEF CancelGroup
<1>3. /\ at' = [a \in Entry |-> IF Active(a) THEN CancelledAt(a)
                               ELSE IF a = start THEN "probe" ELSE at[a]]
      /\ conn' = [a \in Entry |-> IF Active(a) /\ CancelledAt(a) = "abort" THEN "closed"
                                 ELSE conn[a]]
      /\ shield' \in [Entry -> BOOLEAN]
  <2>1. shield \in [Entry -> BOOLEAN]
    BY DEF NetInv, TypeOK
  <2> QED BY <2>1, Zenon DEF CancelGroup
<1>4. ASSUME NEW b \in Entry, Active(b)
      PROVE  Fits(b)' /\ at'[b] \in {"gone", "torn"} \cup Cleaning
  <2>1. at'[b] = CancelledAt(b) /\ (conn'[b] = "open" => conn[b] = "open")
    BY <1>3, <1>4
  <2>2. local'[b] = local[b] \/ local'[b] = local[b] \cup Fetching(b)
    BY <1>2
  <2> QED BY <1>4, <2>1, <2>2, CancelFits
<1>5. ASSUME NEW b \in Entry, ~Active(b)
      PROVE  local'[b] = local[b] /\ conn'[b] = conn[b]
             /\ at'[b] = IF b = start THEN "probe" ELSE at[b]
  BY <1>2, <1>3, <1>5
<1>6. \A b \in Entry : Fits(b)'
  <2>1. Fits(start)'
    <3>1. at'[start] = "probe" /\ local'[start] = local[start] /\ conn'[start] = conn[start]
      BY <1>1, <1>5
    <3>2. Fits(start)
      BY <1>1 DEF NetInv
    <3> QED BY <1>1, <3>1, <3>2 DEF Fits, HasBackup, HasExport, HasManifest
  <2>2. ASSUME NEW b \in Entry, ~Active(b), b # start PROVE Fits(b)'
    BY <2>2, <1>5, RestFits DEF NetInv
  <2>3. ASSUME NEW b \in Entry PROVE Fits(b)'
    <3>1. CASE Active(b)
      BY <1>4, <3>1
    <3>2. CASE b = start
      BY <2>1, <3>2
    <3>3. CASE ~Active(b) /\ b # start
      BY <2>2, <3>3
    <3> QED BY <3>1, <3>2, <3>3
  <2> QED BY <2>3
<1>7. TypeOK'
  <2>1. at' \in [Entry -> Where \cup Bare \cup InHand \cup Cleaning]
    BY <1>3, <1>4, <1>5 DEF NetInv, TypeOK
  <2>2. local' \in [Entry -> SUBSET Local]
    <3>1. \A b \in Entry : local[b] \in SUBSET Local /\ Fetching(b) \in SUBSET Local
      BY DEF NetInv, TypeOK, Fetching
    <3> QED BY <1>2, <3>1
  <2>3. conn' \in [Entry -> {"none", "open", "closed"}]
    BY <1>3 DEF NetInv, TypeOK
  <2> QED BY <1>3, <2>1, <2>2, <2>3 DEF NetInv, TypeOK
<1>8. ScreenFits' /\ FreshFits'
  <2>1. ASSUME NEW b \in Entry, b > entries' PROVE at'[b] = "new"
    <3>1. b > entries /\ b # start
      BY <2>1 DEF NetInv, TypeOK
    <3>2. at[b] = "new" /\ ~Active(b)
      BY <3>1 DEF NetInv, FreshFits, Active
    <3> QED BY <1>5, <3>1, <3>2
  <2>2. ASSUME screen # 0 PROVE at'[screen] \in Held
    <3>1. screen \in Entry /\ at[screen] \in Held /\ ~Active(screen)
      BY <2>2 DEF NetInv, TypeOK, ScreenFits, Active
    <3> QED BY <1>1, <1>5, <3>1
  <2> QED BY <2>1, <2>2 DEF ScreenFits, FreshFits
<1> QED BY <1>6, <1>7, <1>8 DEF NetInv

LEMMA BeginKeeps == ASSUME NetInv, Begin \/ Trust PROVE NetInv'
<1> USE DEF trust
<1>1. CASE Begin
  <2>1. PinFits' /\ pinned' \in Keys \cup {0} /\ asked' \in Keys \cup {0} /\ confirmed' \subseteq Keys
    BY <1>1 DEF Begin, NetInv, TypeOK, PinFits
  <2> QED BY <1>1, <2>1, GroupKeeps DEF Begin
<1>2. CASE Trust
  <2>1. PinFits' /\ pinned' \in Keys \cup {0} /\ asked' \in Keys \cup {0} /\ confirmed' \subseteq Keys
    BY <1>2 DEF Trust, NetInv, TypeOK, PinFits
  <2> QED BY <1>2, <2>1, GroupKeeps DEF Trust
<1> QED BY <1>1, <1>2

LEMMA LeaveBeginsKeeps == ASSUME NetInv, LeaveBegins PROVE NetInv'
<1> USE DEF trust, files, ssh
<1>1. screen \in Entry /\ at[screen] \in Held /\ ~Active(screen)
  BY DEF LeaveBegins, NetInv, TypeOK, ScreenFits, Active
<1>2. \A b \in Entry : at'[b] = IF b = screen THEN "leaving"
                               ELSE IF Active(b) THEN CancelledAt(b) ELSE at[b]
  BY DEF LeaveBegins
<1>3. UNCHANGED <<conn, local, vault, reached, confirmed, holder>>
  BY DEF LeaveBegins
<1>4. ASSUME NEW b \in Entry, Active(b)
      PROVE  Fits(b)' /\ at'[b] \in {"gone", "torn"} \cup Cleaning
  BY <1>1, <1>2, <1>3, <1>4, CancelFits
<1>5. ASSUME NEW b \in Entry, ~Active(b) PROVE Fits(b)'
  <2>1. CASE b = screen
    BY <1>1, <1>2, <1>3, <2>1 DEF NetInv, Fits, HasBackup, HasExport, HasManifest
  <2>2. CASE b # screen
    BY <1>2, <1>3, <1>5, <2>2, RestFits DEF NetInv
  <2> QED BY <2>1, <2>2
<1>6. \A b \in Entry : Fits(b)'
  BY <1>4, <1>5
<1>7. TypeOK'
  <2>1. ASSUME NEW b \in Entry PROVE at'[b] \in Where \cup Bare \cup InHand \cup Cleaning
    BY <1>2, <1>4 DEF NetInv, TypeOK
  <2>2. at' = [b \in Entry |-> at'[b]]
    BY DEF LeaveBegins
  <2> QED BY <2>1, <2>2 DEF LeaveBegins, NetInv, TypeOK
<1>8. FreshFits' /\ ScreenFits'
  <2>1. ASSUME NEW b \in Entry, b > entries' PROVE at'[b] = "new"
    <3>1. at[b] = "new" /\ ~Active(b) /\ b # screen
      BY <1>1, <2>1 DEF LeaveBegins, NetInv, FreshFits, Active
    <3> QED BY <1>2, <3>1
  <2> QED BY <1>1, <1>2, <2>1 DEF LeaveBegins, FreshFits, ScreenFits
<1> QED BY <1>6, <1>7, <1>8 DEF LeaveBegins, NetInv, PinFits

\* The worker that leaves goes on, and a link goes down.
LEMMA LeaveKeeps ==
  ASSUME NetInv, LeaveCloses \/ LeaveFails \/ Left \/ \E a \in Entry : LinkLost(a)
  PROVE  NetInv'
<1> USE DEF tasks, trust, files, ssh, Goes
<1>1. /\ UNCHANGED <<shield, entries, trust, files, reached, holder>>
      /\ screen' \in {screen, 0}
      /\ at' \in [Entry -> Where \cup Bare \cup InHand \cup Cleaning]
      /\ conn' \in [Entry -> {"none", "open", "closed"}]
  BY DEF LeaveCloses, LeaveFails, Left, LinkLost, NetInv, TypeOK
<1>2. \A b \in Entry :
        /\ at'[b] = at[b] \/ (b = screen /\ at'[b] \in {"unsure", "left"})
        /\ conn'[b] \in {conn[b], "closed"}
  BY DEF LeaveCloses, LeaveFails, Left, LinkLost, NetInv, TypeOK
<1>3. ASSUME NEW b \in Entry PROVE Fits(b)'
  <2>1. Fits(b) /\ (b = screen => at[b] \in Held)
    BY <1>3 DEF NetInv, ScreenFits
  <2>2. /\ local'[b] = local[b] /\ vault' = vault /\ confirmed' = confirmed
        /\ reached'[b] = reached[b] /\ holder' = holder
    BY <1>1
  <2>3. conn'[b] = "open" => conn[b] = "open"
    BY <1>2, <1>3
  <2>4. CASE at'[b] = at[b]
    BY <2>1, <2>2, <2>3, <2>4 DEF Fits
  <2>5. CASE b = screen /\ at'[b] \in {"unsure", "left"}
    BY <2>1, <2>2, <2>3, <2>5 DEF Fits, HasBackup, HasExport, HasManifest
  <2> QED BY <1>2, <1>3, <2>4, <2>5
<1>4. ScreenFits'
  BY DEF LeaveCloses, LeaveFails, Left, LinkLost, NetInv, TypeOK, ScreenFits
<1>5. FreshFits'
  BY <1>1, <1>2 DEF NetInv, TypeOK, ScreenFits, FreshFits
<1> QED BY <1>1, <1>3, <1>4, <1>5 DEF NetInv, TypeOK, PinFits

LEMMA KilledKeeps == ASSUME NetInv, Killed PROVE NetInv'
<1> USE DEF TailCut, FilesGone
<1> DEFINE Ended == {"new", "gone", "torn", "left"}
<1>1. \A b \in Entry : at'[b] = IF at[b] \in Ended THEN at[b] ELSE "killed"
  BY DEF Killed
<1>2. vault' = vault /\ reached' = reached /\ confirmed' = confirmed
  BY DEF Killed
<1>3. \A b \in Entry : conn'[b] = "open" => conn[b] = "open"
  BY DEF Killed
<1>4. \A b \in Entry : local'[b] = local[b] \/ (local'[b] = {} /\ at[b] = "cleanExport")
  <2>1. local \in [Entry -> SUBSET Local]
    BY DEF NetInv, TypeOK
  <2> QED BY <2>1 DEF Killed
<1>5. \A b \in Entry : Fits(b)'
  BY <1>1, <1>2, <1>3, <1>4 DEF NetInv, Fits, HasBackup, HasExport, HasManifest
<1>6. TypeOK'
  <2>1. at' \in [Entry -> Where \cup Bare \cup InHand \cup Cleaning]
    BY DEF Killed, NetInv, TypeOK
  <2>2. conn' \in [Entry -> {"none", "open", "closed"}]
    BY DEF Killed, NetInv, TypeOK
  <2>3. local' \in [Entry -> SUBSET Local]
    BY DEF Killed, NetInv, TypeOK
  <2>4. screen' = 0 /\ asked' = 0
        /\ UNCHANGED <<shield, entries, hostKey, pinned, confirmed, remote, making, reached,
                       holder>>
    BY DEF Killed
  <2> QED BY <1>2, <2>1, <2>2, <2>3, <2>4 DEF NetInv, TypeOK
<1>7. FreshFits'
  BY <1>1 DEF Killed, NetInv, FreshFits
<1> QED BY <1>5, <1>6, <1>7 DEF Killed, NetInv, ScreenFits, PinFits

LEMMA OutsideKeeps ==
  ASSUME NetInv,
         \/ Distrust \/ RouterKeyChanges \/ RouterNotices
         \/ \E a \in Entry : ServerMakes(a) \/ RouterTakesSafe(a) \/ RouterReleases(a)
         \/ UNCHANGED vars
  PROVE  NetInv'
<1> USE DEF tasks, trust, files, ssh
<1>1. /\ at' = at /\ local' = local /\ vault' = vault /\ conn' = conn /\ reached' = reached
      /\ screen' = screen /\ entries' = entries /\ confirmed' = confirmed /\ pinned' = pinned
  BY DEF Distrust, RouterKeyChanges, RouterNotices, ServerMakes, RouterTakesSafe, RouterReleases, vars
<1>2. \A b \in Entry : at[b] = "unlocked" /\ conn[b] = "open" => (holder = b => holder' = b)
  BY DEF Distrust, RouterKeyChanges, RouterNotices, ServerMakes, RouterTakesSafe, RouterReleases, vars,
    NetInv, Fits
<1>3. \A b \in Entry : Fits(b)'
  BY <1>1, <1>2 DEF NetInv, Fits
<1>4. TypeOK'
  <2>1. hostKey' \in Keys /\ asked' \in Keys \cup {0} /\ holder' \in 0..MaxEntries
    BY DEF Distrust, RouterKeyChanges, RouterNotices, ServerMakes, RouterTakesSafe, RouterReleases, vars,
      NetInv, TypeOK
  <2>2. remote' \in [Entry -> SUBSET Remote] /\ making' \in [Entry -> SUBSET Remote]
    <3>1. remote \in [Entry -> SUBSET Remote] /\ making \in [Entry -> SUBSET Remote]
      BY DEF NetInv, TypeOK
    <3>2. ASSUME NEW a \in Entry, ServerMakes(a)
          PROVE  remote' \in [Entry -> SUBSET Remote] /\ making' \in [Entry -> SUBSET Remote]
      BY <3>1, <3>2 DEF ServerMakes
    <3>3. CASE UNCHANGED <<remote, making>>
      BY <3>1, <3>3
    <3> QED BY <3>2, <3>3 DEF Distrust, RouterKeyChanges, RouterNotices, RouterTakesSafe, RouterReleases, vars
  <2>3. shield' = shield
    BY DEF Distrust, RouterKeyChanges, RouterNotices, ServerMakes, RouterTakesSafe, RouterReleases, vars
  <2> QED BY <1>1, <2>1, <2>2, <2>3 DEF NetInv, TypeOK
<1> QED BY <1>1, <1>3, <1>4 DEF NetInv, ScreenFits, PinFits, FreshFits

LEMMA NetNext == NetInv /\ [Next]_vars => NetInv'
BY EnterKeeps, CleanKeeps, BeginKeeps, LeaveBeginsKeeps, LeaveKeeps, KilledKeeps, OutsideKeeps DEF Next

-------------------------------------------------------------------------------

\* The state of every entry keeps its type.
THEOREM TypeCorrect == Spec => []TypeOK
<1>1. NetInv => TypeOK
  BY DEF NetInv
<1> QED BY NetInit, NetNext, <1>1, PTL DEF Spec

\* HighRiskService.enter unlocks HIGH RISK only with backup, export, manifest, password
\* and Safe Mode all there, and nothing that runs beside the session takes one away.
THEOREM SafetyNet == Spec => []UnlockedIsProtected
<1>1. NetInv => UnlockedIsProtected
  <2> SUFFICES ASSUME NetInv, screen # 0
               PROVE  /\ local[screen] = Local /\ screen \in vault
                      /\ at[screen] = "unlocked" /\ conn[screen] = "open" => holder = screen
    BY DEF UnlockedIsProtected
  <2>1. screen \in Entry /\ at[screen] \in Held
    BY DEF NetInv, TypeOK, ScreenFits
  <2>2. Fits(screen) /\ local[screen] \in SUBSET Local
    BY <2>1 DEF NetInv, TypeOK
  <2> QED BY <2>1, <2>2 DEF Fits, HasBackup, HasExport, HasManifest
<1> QED BY NetInit, NetNext, <1>1, PTL DEF Spec

\* enter stores the password before the backup exists and _cleanup_failed_preflight
\* deletes it after the file: at no point of any run is there a backup without it.
THEOREM PasswordKept == Spec => []BackupHasPassword
<1>1. NetInv => BackupHasPassword
  BY DEF NetInv, Fits, BackupHasPassword
<1> QED BY NetInit, NetNext, <1>1, PTL DEF Spec

\* A pinned key that the operator confirmed is the only one a session is opened with.
THEOREM HostConfirmed == Spec => []OnlyConfirmedHost
<1>1. NetInv => OnlyConfirmedHost
  BY DEF NetInv, Fits, OnlyConfirmedHost
<1> QED BY NetInit, NetNext, <1>1, PTL DEF Spec

\* An entry whose clean-up ran to its end has left no file and no password.
THEOREM EntryForgets == Spec => []FailedEntryForgets
<1>1. NetInv => FailedEntryForgets
  BY DEF NetInv, Fits, FailedEntryForgets
<1> QED BY NetInit, NetNext, <1>1, PTL DEF Spec

===============================================================================
